-------------------------- MODULE MCLambdaFunction --------------------------
(***************************************************************************)
(* The Lambda function resource for TLC: two configurations, two contents  *)
(* of the local zip and one S3 object, so that the code and configuration *)
(* can each drift, the zip can be rebuilt, and the source can switch      *)
(* between file and S3.                                                    *)
(***************************************************************************)
EXTENDS LambdaFunction, TLC

CONSTANTS k1, k2, z1, z2, o1, none

MCConfs == {k1, k2}
MCContents == {z1, z2}
MCObjects == {o1}
=============================================================================
