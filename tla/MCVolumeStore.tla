--------------------------- MODULE MCVolumeStore ---------------------------
(***************************************************************************)
(* Instances of VolumeStore for TLC.  The role "m" has one letter, so that *)
(* what Ec2Storage.delete reads letter by letter is a role; "nn", the      *)
(* namenode, has letters that are no roles.                                *)
(***************************************************************************)
EXTENDS VolumeStore

CONSTANTS i1, p1, p2

m == <<"m">>
nn == <<"n", "n">>

BothRoles == {m, nn}
Namenode == {nn}
Exchange == Permutations({p1, p2})
TwoOrOne == [r \in Role |-> IF r = m THEN 2 ELSE 1]
One == [r \in Role |-> 1]
AllM == [i \in Inst |-> m]
AllNamenodes == [i \in Inst |-> nn]
Volumes == 1 .. 5
Others5 == {5}
=============================================================================
