---------------------------- MODULE MCEcatMaster ----------------------------
(* Instances of EcatMaster: a drive with outputs and inputs, an output      *)
(* module and an input module.                                              *)
EXTENDS EcatMaster

CONSTANTS drive, do, di
=============================================================================
