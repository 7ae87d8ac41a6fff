--------------------------- MODULE MCCredentials ---------------------------
(***************************************************************************)
(* Instances of Credentials for TLC.                                       *)
(***************************************************************************)
EXTENDS Credentials

CONSTANTS k0, k1, k2, k3, k4, k5, k6
=============================================================================
