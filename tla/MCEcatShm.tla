----------------------------- MODULE MCEcatShm ------------------------------
(* Instances of EcatShm.                                                    *)
EXTENDS EcatShm

CONSTANTS c1, c2
=============================================================================
