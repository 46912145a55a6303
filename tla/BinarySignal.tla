---------------------------- MODULE BinarySignal ----------------------------
(***************************************************************************)
(* What the hand-over promises, without its implementation: each image     *)
(* published by the master sets the signal of every slot exactly once,     *)
(* atomically and idempotently; a signal that is set is taken by one       *)
(* reader; the next image is published only when every slot has been       *)
(* signalled.                                                              *)
(***************************************************************************)
EXTENDS Integers

CONSTANT Slot

VARIABLES
    signal,    \* signal[s]: 1 when a reader of slot s may go on, else 0
    pending    \* the slots still to be signalled for the current image

vars == <<signal, pending>>

Init ==
    /\ signal = [s \in Slot |-> 1]
    /\ pending = {}

Publish ==
    /\ pending = {}
    /\ pending' = Slot
    /\ UNCHANGED signal

Raise(s) ==
    /\ s \in pending
    /\ pending' = pending \ {s}
    /\ signal' = [signal EXCEPT ![s] = 1]

Take(s) ==
    /\ signal[s] = 1
    /\ signal' = [signal EXCEPT ![s] = 0]
    /\ UNCHANGED pending

Next ==
    \/ Publish
    \/ \E s \in Slot : Raise(s) \/ Take(s)

Spec == Init /\ [][Next]_vars

=============================================================================
