---------------------------- MODULE MCEcatImage ----------------------------
(* A slave with a two-byte and a one-byte input and with two outputs of    *)
(* the same name; a step reads one input by name and one through a         *)
(* pointer, asks for one that is missing, and sets both outputs by name.   *)
EXTENDS EcatImage

Var(n, o, s) == [name |-> n, offset |-> o, size |-> s]
ByName(n, w) == [by |-> "name", key |-> n, width |-> w]
ByPtr(i, w)  == [by |-> "pointer", key |-> i, width |-> w]

DriveIn  == <<Var("position", 0, 2), Var("status", 2, 1)>>
DriveOut == <<Var("control", 0, 1), Var("control", 1, 1)>>
StepReads  == <<ByName("position", 2), ByPtr(2, 1), ByName("missing", 1)>>
StepWrites == <<ByName("control", 1)>>
=============================================================================
