-------------------------- MODULE MCClusterLaunch --------------------------
(***************************************************************************)
(* Instances of ClusterLaunch for TLC.  One role stands for the roles of a *)
(* master, one for those of a slave; of the ports there is one of each     *)
(* kind.                                                                   *)
(***************************************************************************)
EXTENDS ClusterLaunch, TLC

CONSTANTS p1, p2

Namenode == <<"nn">>
Datanode == <<"dn">>
ClientPorts1 == <<<<"dn", "50075">>>>
InnerPorts1 == <<<<"nn", "8020">>>>
Exchange == Permutations({p1, p2})
=============================================================================
