---------------------------- MODULE MCEcatSync ------------------------------
(* Instances of EcatSync: threads of one process, threads of two processes, *)
(* and one thread for each of two processes.                                *)
EXTENDS EcatSync

CONSTANTS t1, t2, t3, p1, p2

OneProcess   == [t \in Thread |-> p1]
TwoProcesses == [t \in Thread |-> IF t = t3 THEN p2 ELSE p1]
OneEach      == [t \in Thread |-> IF t = t1 THEN p1 ELSE p2]
=============================================================================
