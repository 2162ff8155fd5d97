---------------------------- MODULE NodeRegistry ----------------------------
(***************************************************************************)
(* What a provisioner promises the PBS server about the compute nodes,      *)
(* whatever database and hosts file it keeps: a run that completes leaves    *)
(* every node of its cluster registered under the address that run gave it,  *)
(* and no run takes a registered node away (the comments on                  *)
(* buildPbsNodeRegistrationCommand and in XCAT::addNodes).                   *)
(***************************************************************************)
CONSTANTS Names, Addrs, Clusters, NoAddr

VARIABLES
    phase,      \* "idle", "running" or "complete"
    wanted,     \* the nodes of the run and their addresses
    registry    \* the address PBS has resolved for each node it knows

rvars == <<phase, wanted, registry>>

Registered == { n \in Names : registry[n] # NoAddr }

RInit ==
    /\ phase = "idle" /\ wanted \in Clusters
    /\ registry = [n \in Names |-> NoAddr]

Begin ==
    /\ phase # "running" /\ phase' = "running"
    /\ wanted' \in Clusters
    /\ UNCHANGED registry

Create ==
    /\ phase = "running"
    /\ \E n \in DOMAIN wanted \ Registered, a \in Addrs :
          registry' = [registry EXCEPT ![n] = a]
    /\ UNCHANGED <<phase, wanted>>

\* The server resolves the names it knows again.
Resolve ==
    /\ phase = "running"
    /\ \E f \in [Registered -> Addrs] :
          registry' = [n \in Names |-> IF n \in Registered THEN f[n] ELSE NoAddr]
    /\ UNCHANGED <<phase, wanted>>

Complete ==
    /\ phase = "running" /\ phase' = "complete"
    /\ \A n \in DOMAIN wanted : registry[n] = wanted[n]
    /\ UNCHANGED <<wanted, registry>>

Fail ==
    /\ phase = "running" /\ phase' = "idle"
    /\ UNCHANGED <<wanted, registry>>

RNext == Begin \/ Create \/ Resolve \/ Complete \/ Fail

RSpec == RInit /\ [][RNext]_rvars
=============================================================================
