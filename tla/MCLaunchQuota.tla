--------------------------- MODULE MCLaunchQuota ---------------------------
(***************************************************************************)
(* Instances of LaunchQuota for TLC.                                       *)
(***************************************************************************)
EXTENDS LaunchQuota, TLC

\* 15 m1.large cost exactly SPEND_LIMIT, 9 m2.xlarge and 7 m1.small a tenth more, and
\* 4 cc1.4xlarge never fit.
MCRequests == {<<"m1.large", 15>>, <<"m2.xlarge", 9>>, <<"m1.small", 7>>,
               <<"cc1.4xlarge", 4>>}

MCSmallRequests == {<<"m1.large", 1>>, <<"m2.4xlarge", 2>>}

MCSymmetry == Permutations(Runner)
=============================================================================
