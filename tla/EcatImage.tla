----------------------------- MODULE EcatImage -----------------------------
(***************************************************************************)
(* What is in the images: the master copies the inputs of a complete       *)
(* exchange into shared memory and the outputs out of it, byte by byte and *)
(* without a lock, then signals; a control thread waits for the signal,    *)
(* reads input variables and writes output variables through EcatConfig.   *)
(* Nothing but time keeps a step out of the next copy.                     *)
(*                                                                         *)
(* A byte of the input image holds the number of the exchange it came      *)
(* from, a byte of the output image the number of the exchange its step    *)
(* was computed from.  The signal is that of BinarySignal, which EcatSync  *)
(* implements.  A short exchange copies nothing and signals nobody, so it  *)
(* changes nothing here.                                                   *)
(***************************************************************************)
EXTENDS Integers, Sequences, SequencesExt, FiniteSets

CONSTANTS
    InVars, OutVars,    \* the tables of the slave: [name, offset, size], see PdoMap
    Reads, Writes,      \* what a step accesses, in order: [by, key, width]
    MaxCycle,           \* bound: complete exchanges
    MaxLate             \* bound: copies that begin before the control thread is done

SlotZero == 0
Slot == {SlotZero}      \* the semaphore of the control thread

\* How a step reaches a variable: by id or by name, as a value or through a pointer
\* it got before; width is sizeof(T), which the code compares with the size of the
\* variable only to print a warning.
Access(table) == [by : {"id", "pointer"}, key : DOMAIN table, width : 1 .. 8]
                   \cup [by : {"name", "namedPointer"}, key : STRING, width : 1 .. 8]

ASSUME ImageAssumption ==
    /\ \A v \in Range(InVars) \cup Range(OutVars) : v.offset \in Nat /\ v.size \in Nat
    /\ Range(Reads) \subseteq Access(InVars) /\ Range(Writes) \subseteq Access(OutVars)
    /\ MaxCycle \in Nat /\ MaxLate \in Nat

----------------------------------------------------------------------------
(* Access to variables.                                                    *)

\* The indices of the variables of that name.
Named(table, name) == {i \in DOMAIN table : table[i].name = name}

\* The bytes a T at the offset of variable i takes.
At(table, i, width) == [b \in 1 .. width |-> table[i].offset + b - 1]

\* getSlave...VarPtr: the id is not tested.
VarPtr(table, i, width) == At(table, i, width)

\* findSlave...VarPtrByName: the first variable of that name, or a null pointer,
\* through which nothing is accessed.
FindVarPtrByName(table, name, width) ==
    LET found == Named(table, name)
    IN  IF found = {} THEN <<>>
        ELSE At(table, CHOOSE i \in found : \A j \in found : i <= j, width)

\* getSlave...VarValue...: a name that is missing gives the largest T and reads nothing.
GetBytes(table, a) ==
    CASE a.by \in {"id", "pointer"}           -> VarPtr(table, a.key, a.width)
      [] a.by \in {"name", "namedPointer"}    -> FindVarPtrByName(table, a.key, a.width)

\* Mutant: only the first variable of that name is set.
SetByNameFirst(table, name, width) == FindVarPtrByName(table, name, width)

\* setSlave...VarValueByName has no return in its loop: every variable of that name
\* is set.
SetByName(table, name, width) ==
    FlattenSeq([i \in DOMAIN table |->
        IF i \in Named(table, name) THEN At(table, i, width) ELSE <<>>])

SetBytes(table, a) ==
    IF a.by = "name" THEN SetByName(table, a.key, a.width) ELSE GetBytes(table, a)

ReadBytes  == FlattenSeq([n \in DOMAIN Reads  |-> GetBytes(InVars, Reads[n])])
WriteBytes == FlattenSeq([n \in DOMAIN Writes |-> SetBytes(OutVars, Writes[n])])

\* The bytes of an image that its variables occupy, from 0.
ImageSize(table) == FoldLeft(LAMBDA n, v : n + v.size, 0, table)
InByte  == 0 .. ImageSize(InVars) - 1
OutByte == 0 .. ImageSize(OutVars) - 1

\* There are inputs and outputs, and a step reads and writes some; what it accesses
\* lies in the images (a T wider than its variable may reach behind them, which the
\* code warns of and which is undefined).
ASSUME AccessAssumption ==
    /\ ImageSize(InVars) \in Nat \ {0} /\ ImageSize(OutVars) \in Nat \ {0}
    /\ ReadBytes \in Seq(InByte) \ {<<>>} /\ WriteBytes \in Seq(OutByte) \ {<<>>}

----------------------------------------------------------------------------
VARIABLES
    mpc,       \* master: "exchange", "copyIn", "copyOut", "publish", "raise"
    at,        \* master: the byte to be copied next
    cycle,     \* complete exchanges so far
    input,     \* pd_input
    output,    \* pd_output
    outputs,   \* ec_slave[0].outputs, sent with the next exchange
    signal, pending,
    cpc,       \* control thread: "wait", "read", "write"
    todo,      \* its next byte of ReadBytes or WriteBytes
    seen,      \* the exchanges the bytes read in this step came from
    late,      \* history: copies begun too early for the control thread
    torn,      \* history: steps that read bytes of different exchanges
    split      \* history: copies of outputs of different steps

masterVars == <<mpc, at, cycle, input, outputs, split, late, pending>>
clientVars == <<cpc, todo, seen, output, torn>>
vars == <<mpc, at, cycle, input, outputs, split, late, pending, signal,
          cpc, todo, seen, output, torn>>

Sig == INSTANCE BinarySignal

Init ==
    /\ Sig!Init
    /\ mpc = "exchange" /\ at = 0 /\ cycle = 0
    /\ input = [b \in InByte |-> 0]
    /\ output = [b \in OutByte |-> 0] /\ outputs = [b \in OutByte |-> 0]
    /\ cpc = "wait" /\ todo = 1 /\ seen = {}
    /\ late = 0 /\ torn = 0 /\ split = 0

----------------------------------------------------------------------------
(* The master's cycle.                                                     *)

\* A complete exchange: outputs has been sent, the inputs of exchange cycle came.
Exchange ==
    /\ mpc = "exchange"
    /\ cycle < MaxCycle
    /\ cycle' = cycle + 1
    /\ mpc' = "copyIn" /\ at' = 0
    /\ UNCHANGED <<input, outputs, split, late, pending, signal, clientVars>>

\* The control thread is not yet back in wait() for the next signal.
Busy == cpc # "wait" \/ signal[SlotZero] = 1

\* Mutant: one byte too many.
CopyInOneMore ==
    /\ mpc = "copyIn"
    /\ late' = IF at = 0 /\ Busy THEN late + 1 ELSE late
    /\ late' <= MaxLate
    /\ input' = [input EXCEPT ![at] = cycle]
    /\ IF at \in InByte THEN at' = at + 1 /\ UNCHANGED mpc
                        ELSE at' = 0 /\ mpc' = "copyOut"
    /\ UNCHANGED <<cycle, outputs, split, pending, signal, clientVars>>

\* memcpy to pd_input.
CopyIn ==
    /\ mpc = "copyIn"
    /\ late' = IF at = 0 /\ Busy THEN late + 1 ELSE late
    /\ late' <= MaxLate
    /\ input' = [input EXCEPT ![at] = cycle]
    /\ IF at + 1 \in InByte THEN at' = at + 1 /\ UNCHANGED mpc
                            ELSE at' = 0 /\ mpc' = "copyOut"
    /\ UNCHANGED <<cycle, outputs, split, pending, signal, clientVars>>

\* memcpy from pd_output.
CopyOut ==
    /\ mpc = "copyOut"
    /\ outputs' = [outputs EXCEPT ![at] = output[at]]
    /\ IF at + 1 \in OutByte
       THEN at' = at + 1 /\ UNCHANGED <<mpc, split>>
       ELSE /\ at' = 0 /\ mpc' = "publish"
            /\ split' = IF Cardinality(Range(outputs')) > 1 THEN split + 1 ELSE split
    /\ UNCHANGED <<cycle, input, late, pending, signal, clientVars>>

\* updateSempahore, as BinarySignal has it: the loop begins ...
Publish ==
    /\ mpc = "publish"
    /\ Sig!Publish
    /\ mpc' = "raise"
    /\ UNCHANGED <<at, cycle, input, outputs, split, late, clientVars>>

\* Mutant: a signal may be left out.
RaiseSkips(s) ==
    /\ mpc = "raise"
    /\ s \in pending /\ pending' = pending \ {s}
    /\ signal' \in {signal, [signal EXCEPT ![s] = 1]}
    /\ mpc' = IF pending' = {} THEN "exchange" ELSE "raise"
    /\ UNCHANGED <<at, cycle, input, outputs, split, late, clientVars>>

\* ... and signals a slot.
Raise(s) ==
    /\ mpc = "raise"
    /\ Sig!Raise(s)
    /\ mpc' = IF pending' = {} THEN "exchange" ELSE "raise"
    /\ UNCHANGED <<at, cycle, input, outputs, split, late, clientVars>>

----------------------------------------------------------------------------
(* The control thread.                                                     *)

\* Mutant: wait() does not block.
WaitNoBlock ==
    /\ cpc = "wait"
    /\ signal' = [signal EXCEPT ![SlotZero] = 0]
    /\ cpc' = "read" /\ todo' = 1 /\ seen' = {}
    /\ UNCHANGED <<mpc, at, cycle, input, outputs, split, late, pending, output, torn>>

\* wait() returns and the step begins.
Wait ==
    /\ cpc = "wait"
    /\ Sig!Take(SlotZero)
    /\ cpc' = "read" /\ todo' = 1 /\ seen' = {}
    /\ UNCHANGED <<mpc, at, cycle, input, outputs, split, late, output, torn>>

\* One byte of a variable is loaded; after the last one the step computes.
ReadByte ==
    /\ cpc = "read"
    /\ seen' = seen \cup {input[ReadBytes[todo]]}
    /\ IF todo < Len(ReadBytes)
       THEN todo' = todo + 1 /\ UNCHANGED <<cpc, torn>>
       ELSE /\ todo' = 1 /\ cpc' = "write"
            /\ torn' = IF Cardinality(seen') > 1 THEN torn + 1 ELSE torn
    /\ UNCHANGED <<masterVars, signal, output>>

\* What a step computes is as old as the oldest byte it read.
Oldest == CHOOSE n \in seen : \A m \in seen : n <= m

\* One byte of a variable is stored; after the last one the thread waits again.
WriteByte ==
    /\ cpc = "write"
    /\ output' = [output EXCEPT ![WriteBytes[todo]] = Oldest]
    /\ IF todo < Len(WriteBytes)
       THEN todo' = todo + 1 /\ UNCHANGED cpc
       ELSE todo' = 1 /\ cpc' = "wait"
    /\ UNCHANGED <<masterVars, signal, seen, torn>>

Next ==
    \/ Exchange \/ CopyIn \/ CopyOut \/ Publish
    \/ \E s \in Slot : Raise(s)
    \/ Wait \/ ReadByte \/ WriteByte

Spec == Init /\ [][Next]_vars

----------------------------------------------------------------------------
(* Properties.                                                             *)

\* The types of the images and of both sides; the bytes accessed lie in the images.
TypeOK ==
    /\ mpc \in {"exchange", "copyIn", "copyOut", "publish", "raise"}
    /\ cpc \in {"wait", "read", "write"}
    /\ cycle \in 0 .. MaxCycle /\ at \in InByte \cup OutByte
    /\ input \in [InByte -> 0 .. MaxCycle]
    /\ output \in [OutByte -> 0 .. MaxCycle] /\ outputs \in [OutByte -> 0 .. MaxCycle]
    /\ signal \in [Slot -> {0, 1}] /\ pending \subseteq Slot
    /\ seen \subseteq 0 .. MaxCycle
    /\ late \in 0 .. MaxLate /\ torn \in Nat /\ split \in Nat

\* Every step in which the control thread reads bytes of two exchanges has its own
\* copy that began too early: a thread that is on time never sees a mixed image,
\* and after an overrun the signal brings it back into step by itself.
TornOnlyWhenLate == torn <= late

\* The same for the outputs: one exchange carries the outputs of two steps at most
\* as often as the thread was late.
SplitOnlyWhenLate == split <= late

\* The outputs sent with an exchange react to the inputs of the last exchange but
\* one; each overrun makes them at most one exchange older.
ReactionTime ==
    mpc = "copyIn" => \A b \in OutByte : outputs[b] >= cycle - 2 - late

=============================================================================
