---------------------------- MODULE MCEcatCheck ----------------------------
(* Instances of EcatCheck.                                                  *)
EXTENDS EcatCheck
=============================================================================
