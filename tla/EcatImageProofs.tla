-------------------------- MODULE EcatImageProofs --------------------------
(***************************************************************************)
(* Proofs about the images, for every table of variables, every step of    *)
(* the control thread that stays inside the images, and every number of    *)
(* exchanges and late copies.                                              *)
(***************************************************************************)
EXTENDS EcatImage, FoldTheorems

\* What a step writes is one of the exchanges it read, and none of them is older.
LEMMA OldestIsFirst ==
    ASSUME seen \subseteq Nat, seen # {}
    PROVE  Oldest \in seen /\ \A m \in seen : Oldest <= m
BY Minimum DEF Oldest

\* A set with one element at most counts at most one.
LEMMA OneAtMost ==
    ASSUME NEW S, NEW x, S \subseteq {x}
    PROVE  ~ (Cardinality(S) > 1)
<1>1. CASE S = {}
  BY <1>1, FS_EmptySet
<1>2. CASE S = {x}
  BY <1>2, FS_Singleton
<1> QED
  BY <1>1, <1>2

\* A copy ends behind the last byte.
LEMMA Bytes ==
    /\ InByte \subseteq Nat /\ 0 \in InByte
    /\ \A a \in InByte : a + 1 \notin InByte => \A b \in InByte : b <= a
    /\ OutByte \subseteq Nat /\ 0 \in OutByte
    /\ \A a \in OutByte : a + 1 \notin OutByte => \A b \in OutByte : b <= a
<1>1. InByte \subseteq Nat /\ 0 \in InByte /\ OutByte \subseteq Nat /\ 0 \in OutByte
  BY AccessAssumption DEF InByte, OutByte
<1>2. \A a \in InByte : a + 1 \notin InByte => \A b \in InByte : b <= a
  BY AccessAssumption DEF InByte
<1>3. \A a \in OutByte : a + 1 \notin OutByte => \A b \in OutByte : b <= a
  BY AccessAssumption DEF OutByte
<1> QED
  BY <1>1, <1>2, <1>3

----------------------------------------------------------------------------
(* Types.                                                                  *)

On == signal[SlotZero] = 1

\* What the program counters say of the rest: the signal is pending while it is
\* raised, each copy and each step is inside its image, and a step writes only
\* after it has read.
PhaseInv ==
    /\ pending = IF mpc = "raise" THEN Slot ELSE {}
    /\ at \in IF mpc = "copyIn" THEN InByte ELSE IF mpc = "copyOut" THEN OutByte ELSE {0}
    /\ todo \in IF cpc = "read" THEN DOMAIN ReadBytes
                ELSE IF cpc = "write" THEN DOMAIN WriteBytes ELSE {1}
    /\ cpc = "write" \/ (cpc = "read" /\ todo > 1) => seen # {}

Typing == TypeOK /\ PhaseInv

\* The bytes a step is about to access.
LEMMA Accesses ==
    ASSUME Typing
    PROVE  /\ cpc = "read" => /\ ReadBytes[todo] \in InByte /\ todo \in 1 .. Len(ReadBytes)
                              /\ ~ (todo < Len(ReadBytes)) => todo = Len(ReadBytes)
           /\ cpc = "write" => /\ WriteBytes[todo] \in OutByte /\ todo \in 1 .. Len(WriteBytes)
                               /\ ~ (todo < Len(WriteBytes)) => todo = Len(WriteBytes)
                               /\ Oldest \in seen /\ \A m \in seen : Oldest <= m
<1>1. seen \subseteq Nat
  BY ImageAssumption DEF Typing, TypeOK
<1>2. cpc = "write" => Oldest \in seen /\ \A m \in seen : Oldest <= m
  BY <1>1, OldestIsFirst DEF Typing, PhaseInv
<1>3. cpc = "read" => todo \in DOMAIN ReadBytes
  BY DEF Typing, PhaseInv
<1>4. cpc = "write" => todo \in DOMAIN WriteBytes
  BY DEF Typing, PhaseInv
<1> QED
  BY <1>2, <1>3, <1>4, AccessAssumption

\* Every step of the master and of the control thread keeps the types.
LEMMA TypingStep ==
    ASSUME Typing, [Next]_vars
    PROVE  Typing'
<1> USE DEF Typing
<1>1. CASE Exchange
  BY <1>1, Bytes, ImageAssumption DEF Exchange, TypeOK, PhaseInv, clientVars
<1>2. CASE CopyIn
  <2>1. TypeOK'
    BY <1>2, Bytes, ImageAssumption DEF CopyIn, TypeOK, PhaseInv, clientVars
  <2> QED
    BY <1>2, <2>1, Bytes DEF CopyIn, TypeOK, PhaseInv, clientVars
<1>3. CASE CopyOut
  <2>1. TypeOK'
    BY <1>3, Bytes, ImageAssumption DEF CopyOut, TypeOK, PhaseInv, clientVars
  <2> QED
    BY <1>3, <2>1, Bytes DEF CopyOut, TypeOK, PhaseInv, clientVars
<1>4. CASE Publish
  BY <1>4 DEF Publish, Sig!Publish, TypeOK, PhaseInv, clientVars
<1>5. CASE \E s \in Slot : Raise(s)
  BY <1>5 DEF Raise, Sig!Raise, TypeOK, PhaseInv, clientVars, Slot, SlotZero
<1>6. CASE Wait
  <2>1. 1 \in DOMAIN ReadBytes
    BY AccessAssumption
  <2>2. TypeOK'
    BY <1>6 DEF Wait, Sig!Take, TypeOK, Slot, SlotZero
  <2>3. PhaseInv'
    BY <1>6, <2>1 DEF Wait, Sig!Take, PhaseInv
  <2> QED
    BY <2>2, <2>3
<1>7. CASE ReadByte
  <2>1. input[ReadBytes[todo]] \in 0 .. MaxCycle
    BY <1>7, Accesses DEF ReadByte, TypeOK
  <2>2. TypeOK'
    <3>1. seen' \subseteq 0 .. MaxCycle
      BY <1>7, <2>1 DEF ReadByte, TypeOK
    <3>2. torn' \in Nat /\ cpc' \in {"wait", "read", "write"}
      BY <1>7 DEF ReadByte, TypeOK
    <3> QED
      BY <1>7, <3>1, <3>2 DEF ReadByte, TypeOK, masterVars
  <2>3. PhaseInv'
    <3>1. seen' # {}
      BY <1>7 DEF ReadByte
    <3>2. CASE todo < Len(ReadBytes)
      <4>1. todo + 1 \in DOMAIN ReadBytes
        BY <1>7, <3>2, Accesses, AccessAssumption DEF ReadByte
      <4>2. cpc' = "read" /\ todo' = todo + 1 /\ UNCHANGED masterVars
        BY <1>7, <3>2 DEF ReadByte
      <4> QED
        BY <3>1, <4>1, <4>2 DEF PhaseInv, masterVars
    <3>3. CASE ~ (todo < Len(ReadBytes))
      <4>1. cpc' = "write" /\ todo' = 1 /\ UNCHANGED masterVars
        BY <1>7, <3>3 DEF ReadByte
      <4>2. 1 \in DOMAIN WriteBytes
        BY AccessAssumption
      <4> QED
        BY <3>1, <4>1, <4>2 DEF PhaseInv, masterVars
    <3> QED
      BY <3>2, <3>3
  <2> QED
    BY <2>2, <2>3
<1>8. CASE WriteByte
  <2>1. Oldest \in 0 .. MaxCycle
    BY <1>8, Accesses DEF WriteByte, TypeOK
  <2>2. TypeOK'
    <3>1. output' \in [OutByte -> 0 .. MaxCycle]
      BY <1>8, <2>1, Accesses DEF WriteByte, TypeOK
    <3>2. cpc' \in {"wait", "read", "write"} /\ seen' \subseteq 0 .. MaxCycle
      BY <1>8 DEF WriteByte, TypeOK
    <3> QED
      BY <1>8, <3>1, <3>2 DEF WriteByte, TypeOK, masterVars
  <2>3. PhaseInv'
    <3>1. CASE todo < Len(WriteBytes)
      <4>1. todo + 1 \in DOMAIN WriteBytes
        BY <1>8, <3>1, Accesses, AccessAssumption DEF WriteByte
      <4>2. cpc' = "write" /\ todo' = todo + 1 /\ seen' = seen /\ UNCHANGED masterVars
        BY <1>8, <3>1 DEF WriteByte
      <4> QED
        BY <1>8, <4>1, <4>2 DEF WriteByte, PhaseInv, masterVars
    <3>2. CASE ~ (todo < Len(WriteBytes))
      <4>1. cpc' = "wait" /\ todo' = 1 /\ UNCHANGED masterVars
        BY <1>8, <3>2 DEF WriteByte
      <4> QED
        BY <4>1 DEF PhaseInv, masterVars
    <3> QED
      BY <3>1, <3>2
  <2> QED
    BY <2>2, <2>3
<1>9. CASE UNCHANGED vars
  BY <1>9 DEF vars, TypeOK, PhaseInv
<1> QED
  BY <1>1, <1>2, <1>3, <1>4, <1>5, <1>6, <1>7, <1>8, <1>9 DEF Next

\* The copies and the accesses of a step stay inside the images, and the thread
\* computes only from what it has read.
THEOREM AccessesInside == Spec => []Typing
<1>1. Init => Typing
  BY Bytes, ImageAssumption, AccessAssumption
     DEF Init, Sig!Init, Typing, TypeOK, PhaseInv, Slot, SlotZero
<1> QED
  BY <1>1, TypingStep, PTL DEF Spec

\* Every state is of the type of the module.
THEOREM TypeCorrect == Spec => []TypeOK
<1>1. Typing => TypeOK
  BY DEF Typing
<1> QED
  BY <1>1, AccessesInside, PTL

----------------------------------------------------------------------------
(* Mixed inputs.                                                           *)

\* Outside the copy the input image is that of the last exchange; during the copy its
\* first bytes are, and the others are one exchange behind.
InputInv ==
    /\ mpc # "copyIn" => \A b \in InByte : input[b] = cycle
    /\ mpc = "copyIn" => /\ cycle > 0
                         /\ \A b \in InByte : input[b] = IF b < at THEN cycle ELSE cycle - 1

\* The master has begun to copy and has not signalled yet.
Mid == (mpc = "copyIn" /\ at > 0) \/ mpc \in {"copyOut", "publish", "raise"}

\* Outside the copies all bytes of the inputs agree.
LEMMA Settled ==
    ASSUME InputInv, Typing, ~Mid
    PROVE  \A b \in InByte : input[b] = input[0]
BY Bytes DEF InputInv, Mid, Typing, TypeOK, PhaseInv

\* Only the copy changes the inputs.
LEMMA InputStep ==
    ASSUME Typing, InputInv, [Next]_vars
    PROVE  InputInv'
<1> USE DEF InputInv
<1>1. CASE Exchange
  BY <1>1, Bytes, ImageAssumption DEF Exchange, Typing, TypeOK
<1>2. CASE CopyIn
  <2>1. at \in InByte /\ cycle \in Nat /\ InByte \subseteq Nat
    BY <1>2, Bytes, ImageAssumption DEF CopyIn, Typing, TypeOK, PhaseInv
  <2>2. \A b \in InByte : input'[b] = IF b < at + 1 THEN cycle ELSE cycle - 1
    BY <1>2, <2>1 DEF CopyIn, Typing, TypeOK
  <2> QED
    BY <1>2, <2>1, <2>2, Bytes DEF CopyIn
<1>3. CASE CopyOut
  BY <1>3 DEF CopyOut
<1>4. CASE Publish
  BY <1>4 DEF Publish
<1>5. CASE \E s \in Slot : Raise(s)
  BY <1>5 DEF Raise
<1>6. CASE Wait
  BY <1>6 DEF Wait
<1>7. CASE ReadByte
  BY <1>7 DEF ReadByte, masterVars
<1>8. CASE WriteByte
  BY <1>8 DEF WriteByte, masterVars
<1>9. CASE UNCHANGED vars
  BY <1>9 DEF vars
<1> QED
  BY <1>1, <1>2, <1>3, <1>4, <1>5, <1>6, <1>7, <1>8, <1>9 DEF Next

\* The step that is going on reads, or may come to read, bytes of two exchanges: the
\* master is copying, the next signal is already set, or the image has changed since
\* the step read from it.
Mixing == cpc = "read" /\ (Mid \/ On \/ ~ (seen \subseteq {input[0]}))

\* The step that comes next begins during a copy.
Overtaken == On /\ Mid

Count(p) == IF p THEN 1 ELSE 0

\* Each mixed step so far, the one that is going on and the one that comes next has a
\* late copy of its own.
TornInv == torn + Count(Mixing) + Count(Overtaken) <= late

\* A step that reads on while the image is settled sees one exchange.
LEMMA ReadsOneExchange ==
    ASSUME Typing, InputInv, ReadByte, ~Mixing
    PROVE  seen' \subseteq {input[0]}
<1>1. ~Mid /\ seen \subseteq {input[0]} /\ ReadBytes[todo] \in InByte
  BY Accesses DEF Mixing, ReadByte
<1>2. input[ReadBytes[todo]] = input[0]
  BY <1>1, Settled
<1> QED
  BY <1>1, <1>2 DEF ReadByte

\* Every step keeps the account of mixed steps and late copies.
LEMMA TornStep ==
    ASSUME Typing, InputInv, TornInv, [Next]_vars
    PROVE  TornInv'
<1> USE DEF TornInv, Count
<1>0. torn \in Nat /\ late \in Nat /\ signal \in [Slot -> {0, 1}] /\ at \in Nat
  BY Bytes, ImageAssumption DEF Typing, TypeOK
<1>1. CASE Exchange
  BY <1>1 DEF Exchange, Mixing, Overtaken, Mid, On, clientVars
<1>2. CASE CopyIn
  <2>1. UNCHANGED <<torn, cpc, signal, seen>> /\ Mid' /\ (On' <=> On)
    BY <1>2, <1>0 DEF CopyIn, Mid, On, clientVars
  <2>2. CASE at = 0 /\ Busy
    <3>1. late' = late + 1 /\ ~Overtaken
      BY <1>2, <2>2 DEF CopyIn, Overtaken, Mid
    <3>2. On /\ Mixing' => Mixing
      BY <2>1 DEF Mixing
    <3> QED
      BY <1>0, <2>1, <3>1, <3>2 DEF Overtaken
  <2>3. CASE at = 0 /\ ~Busy
    <3>1. late' = late /\ cpc = "wait" /\ ~On
      BY <1>2, <2>3 DEF CopyIn, Busy, On
    <3> QED
      BY <1>0, <2>1, <3>1 DEF Overtaken, Mixing
  <2>4. CASE at # 0
    <3>1. late' = late /\ Mid
      BY <1>2, <1>0, <2>4 DEF CopyIn, Mid
    <3> QED
      BY <1>0, <2>1, <3>1 DEF Overtaken, Mixing
  <2> QED
    BY <2>2, <2>3, <2>4
<1>3. CASE CopyOut
  BY <1>3 DEF CopyOut, Mixing, Overtaken, Mid, On, clientVars
<1>4. CASE Publish
  BY <1>4 DEF Publish, Sig!Publish, Mixing, Overtaken, Mid, On, clientVars
<1>5. CASE \E s \in Slot : Raise(s)
  <2>1. UNCHANGED <<torn, late, cpc>> /\ Mid /\ ~Mid'
    BY <1>5 DEF Raise, Sig!Raise, Mid, clientVars, Typing, PhaseInv, Slot, SlotZero
  <2>2. (Mixing' => Mixing) /\ ~Overtaken'
    BY <2>1 DEF Mixing, Overtaken
  <2> QED
    BY <1>0, <2>1, <2>2
<1>6. CASE Wait
  <2>1. UNCHANGED <<torn, late, mpc, at>> /\ On /\ ~On' /\ seen' = {} /\ cpc = "wait"
    BY <1>6, <1>0 DEF Wait, Sig!Take, On, Slot, SlotZero
  <2>2. (Mixing' => Overtaken) /\ ~Overtaken' /\ ~Mixing
    BY <2>1 DEF Mixing, Overtaken, Mid
  <2> QED
    BY <1>0, <2>1, <2>2
<1>7. CASE ReadByte
  <2>1. UNCHANGED <<late, mpc, at, input, signal>> /\ torn' \in {torn, torn + 1}
    BY <1>7 DEF ReadByte, masterVars
  <2>2. Overtaken' <=> Overtaken
    BY <2>1 DEF Overtaken, On, Mid
  <2>3. CASE ~Mixing
    <3>1. seen' \subseteq {input[0]}
      BY <1>7, <2>3, ReadsOneExchange
    <3>2. torn' = torn
      BY <1>7, <3>1, OneAtMost DEF ReadByte
    <3>3. ~Mixing'
      BY <1>7, <2>1, <2>3, <3>1 DEF Mixing, ReadByte, Mid, On
    <3> QED
      BY <2>1, <2>2, <2>3, <3>2, <3>3
  <2>4. CASE Mixing
    <3>1. CASE todo < Len(ReadBytes)
      BY <1>0, <1>7, <2>1, <2>2, <2>4, <3>1 DEF ReadByte
    <3>2. CASE ~ (todo < Len(ReadBytes))
      <4>1. ~Mixing'
        BY <1>7, <3>2 DEF ReadByte, Mixing
      <4>2. CASE torn' = torn
        BY <1>0, <2>1, <2>2, <4>1, <4>2
      <4>3. CASE torn' = torn + 1
        BY <1>0, <2>1, <2>2, <2>4, <4>1, <4>3
      <4> QED
        BY <2>1, <4>2, <4>3
    <3> QED
      BY <3>1, <3>2
  <2> QED
    BY <2>3, <2>4
<1>8. CASE WriteByte
  BY <1>8 DEF WriteByte, Mixing, Overtaken, Mid, On, masterVars
<1>9. CASE UNCHANGED vars
  BY <1>9 DEF vars, Mixing, Overtaken, Mid, On
<1> QED
  BY <1>1, <1>2, <1>3, <1>4, <1>5, <1>6, <1>7, <1>8, <1>9 DEF Next

\* A control thread that is on time never sees bytes of two exchanges in one step,
\* and each step that does has a copy of its own that began too early.
THEOREM TornBounded == Spec => []TornOnlyWhenLate
<1>1. Init => InputInv /\ TornInv
  BY DEF Init, Sig!Init, InputInv, TornInv, Count, Mixing, Overtaken, Mid
<1>2. Typing /\ (InputInv /\ TornInv) /\ [Next]_vars => (InputInv /\ TornInv)'
  BY InputStep, TornStep
<1>3. Typing /\ TornInv => TornOnlyWhenLate
  BY ImageAssumption DEF Typing, TypeOK, TornInv, Count, TornOnlyWhenLate
<1> QED
  BY <1>1, <1>2, <1>3, AccessesInside, PTL DEF Spec

----------------------------------------------------------------------------
(* Mixed outputs.  A byte that no step writes keeps its first value, so    *)
(* what follows is about steps that write every output.                    *)

WritesAll == \A b \in OutByte : \E n \in DOMAIN WriteBytes : WriteBytes[n] = b

\* Between its writes the control thread leaves the outputs of one step; while it
\* writes, those it has written are of this step.
UniformInv ==
    /\ cpc \in {"wait", "read"} => \A b, d \in OutByte : output[b] = output[d]
    /\ cpc = "write" => \A n \in 1 .. todo - 1 : output[WriteBytes[n]] = Oldest

\* One byte more is of this step.
LEMMA Written ==
    ASSUME Typing, UniformInv, WriteByte
    PROVE  \A n \in 1 .. todo : output'[WriteBytes[n]] = Oldest
<1>1. WriteBytes[todo] \in OutByte /\ todo \in 1 .. Len(WriteBytes)
      /\ \A n \in 1 .. todo : WriteBytes[n] \in OutByte
  BY Accesses, AccessAssumption DEF WriteByte
<1>2. \A n \in 1 .. todo - 1 : output[WriteBytes[n]] = Oldest
  BY DEF UniformInv, WriteByte
<1>3. output \in [OutByte -> 0 .. MaxCycle]
  BY DEF Typing, TypeOK
<1>4. output' = [output EXCEPT ![WriteBytes[todo]] = Oldest]
  BY DEF WriteByte
<1> HIDE DEF WriteByte
<1> QED
  BY <1>1, <1>2, <1>3, <1>4

\* After the last one all outputs are of this step.
LEMMA AllWritten ==
    ASSUME Typing, WritesAll, UniformInv, WriteByte, ~ (todo < Len(WriteBytes))
    PROVE  \A b \in OutByte : output'[b] = Oldest
<1>1. \A n \in 1 .. todo : output'[WriteBytes[n]] = Oldest
  BY Written
<1>2. todo = Len(WriteBytes)
  BY Accesses DEF WriteByte
<1>3. DOMAIN WriteBytes = 1 .. Len(WriteBytes)
  BY AccessAssumption
<1> QED
  BY <1>1, <1>2, <1>3 DEF WritesAll

\* Only the control thread changes the outputs, and it writes all of them.
LEMMA UniformStep ==
    ASSUME Typing, WritesAll, UniformInv, [Next]_vars
    PROVE  UniformInv'
<1>1. CASE UNCHANGED <<cpc, output, todo, seen>>
  BY <1>1 DEF UniformInv, Oldest
<1>2. CASE Wait
  BY <1>2 DEF Wait, UniformInv
<1>3. CASE ReadByte
  <2>1. CASE todo < Len(ReadBytes)
    BY <1>3, <2>1 DEF ReadByte, UniformInv
  <2>2. CASE ~ (todo < Len(ReadBytes))
    BY <1>3, <2>2 DEF ReadByte, UniformInv
  <2> QED
    BY <2>1, <2>2
<1>4. CASE WriteByte
  <2>1. CASE todo < Len(WriteBytes)
    <3>1. todo' = todo + 1 /\ cpc' = "write" /\ Oldest' = Oldest
      BY <1>4, <2>1 DEF WriteByte, Oldest
    <3>2. todo \in Nat
      BY <1>4, Accesses DEF WriteByte
    <3> QED
      BY <1>4, <3>1, <3>2, Written DEF UniformInv
  <2>2. CASE ~ (todo < Len(WriteBytes))
    <3>1. cpc' = "wait"
      BY <1>4, <2>2 DEF WriteByte
    <3> QED
      BY <1>4, <2>2, <3>1, AllWritten DEF UniformInv
  <2> QED
    BY <2>1, <2>2
<1>5. Exchange \/ CopyIn \/ CopyOut \/ Publish \/ (\E s \in Slot : Raise(s)) \/ UNCHANGED vars
      => UNCHANGED <<cpc, output, todo, seen>>
  BY DEF Exchange, CopyIn, CopyOut, Publish, Raise, vars, clientVars
<1> QED
  BY <1>1, <1>2, <1>3, <1>4, <1>5 DEF Next

\* The copies have begun and that of the outputs is not over.
Copying == (mpc = "copyIn" /\ at > 0) \/ mpc = "copyOut"

\* The control thread was done when the copies began: it waits, and its outputs stay
\* as they are until the signal.
OnTime ==
    /\ cpc = "wait" /\ ~On
    /\ mpc = "copyOut" => \A b \in OutByte : b < at => outputs[b] = output[b]

\* Each mixed copy so far, and one that may become mixed, has a late copy of its own.
SplitInv ==
    /\ split <= late
    /\ Copying => split + 1 <= late \/ OnTime

\* The copy of outputs that do not change, and all are of one step, is of one step.
LEMMA CopyEndsUniform ==
    ASSUME Typing, UniformInv, CopyOut, OnTime, at + 1 \notin OutByte
    PROVE  ~ (Cardinality(Range(outputs')) > 1)
<1>1. at \in OutByte /\ outputs \in [OutByte -> 0 .. MaxCycle]
  BY DEF Typing, TypeOK, PhaseInv, CopyOut
<1>2. \A b \in OutByte : b <= at /\ b \in Nat
  BY <1>1, Bytes
<1>3. \A b \in OutByte : output[b] = output[0]
  BY Bytes DEF UniformInv, OnTime
<1>4. \A b \in OutByte : outputs'[b] = output[0]
  BY <1>1, <1>2, <1>3 DEF CopyOut, OnTime
<1>5. DOMAIN outputs' = OutByte
  BY <1>1 DEF CopyOut
<1>6. Range(outputs') \subseteq {output[0]}
  BY <1>4, <1>5 DEF Range
<1> QED
  BY <1>6, OneAtMost

\* Every step keeps the account of mixed copies and late ones.
LEMMA SplitStep ==
    ASSUME Typing, UniformInv, SplitInv, [Next]_vars
    PROVE  SplitInv'
<1>0. split \in Nat /\ late \in Nat /\ at \in Nat /\ signal \in [Slot -> {0, 1}]
  BY Bytes, ImageAssumption DEF Typing, TypeOK
<1>1. CASE Exchange
  BY <1>1, <1>0 DEF Exchange, SplitInv, Copying
<1>2. CASE CopyIn
  <2>1. UNCHANGED <<split, cpc, signal, output, outputs>> /\ (mpc' = "copyOut" => at' = 0)
        /\ mpc = "copyIn"
    BY <1>2 DEF CopyIn, clientVars
  <2>2. CASE at = 0 /\ Busy
    BY <1>0, <1>2, <2>1, <2>2 DEF CopyIn, SplitInv
  <2>3. CASE at = 0 /\ ~Busy
    <3>1. cpc = "wait" /\ ~On /\ late' = late
      BY <1>2, <2>3 DEF CopyIn, Busy, On
    <3>2. cpc' = "wait" /\ ~On'
      BY <2>1, <3>1 DEF On
    <3>3. mpc' = "copyOut" => \A b \in OutByte : ~ (b < at')
      BY <2>1, Bytes
    <3>4. OnTime'
      BY <3>2, <3>3 DEF OnTime
    <3> QED
      BY <2>1, <3>1, <3>4 DEF SplitInv
  <2>4. CASE at # 0
    <3>1. late' = late /\ Copying
      BY <1>0, <1>2, <2>4 DEF CopyIn, Copying
    <3>2. OnTime => OnTime'
      BY <2>1, Bytes DEF OnTime, On
    <3> QED
      BY <2>1, <3>1, <3>2 DEF SplitInv
  <2> QED
    BY <2>2, <2>3, <2>4
<1>3. CASE CopyOut
  <2>1. UNCHANGED <<late, cpc, signal, output>> /\ Copying
    BY <1>3 DEF CopyOut, clientVars, Copying
  <2>2. CASE at + 1 \in OutByte
    <3>1. split' = split /\ at' = at + 1
      BY <1>3, <2>2 DEF CopyOut
    <3>2. OnTime => OnTime'
      <4>1. at \in OutByte /\ outputs \in [OutByte -> 0 .. MaxCycle] /\ OutByte \subseteq Nat
        BY <1>3, Bytes DEF CopyOut, Typing, TypeOK, PhaseInv
      <4> QED
        BY <1>3, <2>1, <3>1, <4>1 DEF CopyOut, OnTime, On
    <3> QED
      BY <2>1, <3>1, <3>2 DEF SplitInv
  <2>3. CASE at + 1 \notin OutByte
    <3>1. mpc' = "publish" /\ split' \in {split, split + 1}
      BY <1>3, <2>3 DEF CopyOut
    <3>2. OnTime => split' = split
      BY <1>3, <2>3, CopyEndsUniform DEF CopyOut
    <3> QED
      BY <1>0, <2>1, <3>1, <3>2 DEF SplitInv, Copying
  <2> QED
    BY <2>2, <2>3
<1>4. CASE Publish
  BY <1>4 DEF Publish, SplitInv, Copying
<1>5. CASE \E s \in Slot : Raise(s)
  BY <1>5 DEF Raise, SplitInv, Copying
<1>6. CASE Wait
  BY <1>6 DEF Wait, Sig!Take, SplitInv, Copying, OnTime, On
<1>7. CASE ReadByte
  BY <1>7 DEF ReadByte, masterVars, SplitInv, Copying, OnTime
<1>8. CASE WriteByte
  BY <1>8 DEF WriteByte, masterVars, SplitInv, Copying, OnTime
<1>9. CASE UNCHANGED vars
  BY <1>9 DEF vars, SplitInv, Copying, OnTime, On
<1> QED
  BY <1>1, <1>2, <1>3, <1>4, <1>5, <1>6, <1>7, <1>8, <1>9 DEF Next

\* When every step writes every output, one exchange carries the outputs of two steps
\* at most as often as the control thread was late.
THEOREM SplitBounded == Spec => [](WritesAll => SplitOnlyWhenLate)
<1> DEFINE Inv == WritesAll => UniformInv /\ SplitInv
<1>1. Init => Inv
  BY DEF Init, UniformInv, SplitInv, Copying
<1>2. Typing /\ Inv /\ [Next]_vars => Inv'
  <2>1. SUFFICES ASSUME Typing, Inv, [Next]_vars, WritesAll
                 PROVE  UniformInv' /\ SplitInv'
    BY DEF WritesAll
  <2> QED
    BY <2>1, UniformStep, SplitStep
<1>3. Inv => (WritesAll => SplitOnlyWhenLate)
  BY DEF SplitInv, SplitOnlyWhenLate
<1> HIDE DEF Inv
<1> QED
  BY <1>1, <1>2, <1>3, AccessesInside, PTL DEF Spec

----------------------------------------------------------------------------
(* The age of the outputs.                                                 *)

\* The exchange a control thread that loses one exchange with each late copy has
\* answered when the next copy begins.
Due == IF mpc = "exchange" THEN cycle - late ELSE cycle - 1 - late

SeenSince(n)   == \A m \in seen : m >= n
OutputSince(n) == \A b \in OutByte : output[b] >= n

\* Outside the copies a thread whose signal is set is one exchange behind at most, and
\* one that has taken it is at work on the exchange due or has answered it.  A late
\* copy lets the due exchange stay, a copy on time finds it answered.
AgeInv ==
    /\ ~Mid => /\ OutputSince(Due - 1)
               /\ cpc # "wait" => SeenSince(Due - 1)
               /\ ~On => IF cpc = "wait" THEN OutputSince(Due) ELSE SeenSince(Due)
    /\ Mid => /\ OutputSince(Due)
              /\ cpc # "wait" => SeenSince(Due)

\* The outputs that are sent are one exchange older than those in shared memory until
\* they are copied.
SentInv ==
    \A b \in OutByte :
        outputs[b] >= IF mpc = "copyIn" \/ (mpc = "copyOut" /\ b >= at)
                      THEN cycle - 2 - late ELSE cycle - 1 - late

\* The types the arithmetic needs.
LEMMA Numbers ==
    ASSUME Typing
    PROVE  /\ cycle \in Nat /\ late \in Nat /\ at \in Nat /\ Due \in Int
           /\ \A m \in seen : m \in Nat
           /\ \A b \in OutByte : output[b] \in Nat /\ outputs[b] \in Nat
           /\ \A b \in InByte : input[b] \in Nat
BY Bytes, ImageAssumption DEF Typing, TypeOK, Due

\* Whatever byte of the inputs is read, it is not older than the exchange due.
LEMMA InputAge ==
    ASSUME Typing, InputInv
    PROVE  \A b \in InByte : input[b] >= Due
BY Numbers DEF InputInv, Due

\* A byte that is read keeps what is seen as young as it is, up to the exchange due.
LEMMA ReadAge ==
    ASSUME Typing, InputInv, ReadByte, NEW n \in Int, n <= Due, SeenSince(n)
    PROVE  \A m \in seen' : m >= n
<1>1. input[ReadBytes[todo]] >= n
  BY Numbers, InputAge, Accesses DEF ReadByte
<1> QED
  BY <1>1 DEF SeenSince, ReadByte

\* A byte that is written is as young as what was seen.
LEMMA WriteAge ==
    ASSUME Typing, WriteByte, NEW n \in Int, SeenSince(n), OutputSince(n)
    PROVE  \A b \in OutByte : output'[b] >= n
<1>1. Oldest >= n
  BY Accesses DEF WriteByte, SeenSince
<1>2. output \in [OutByte -> 0 .. MaxCycle] /\ WriteBytes[todo] \in OutByte
  BY Accesses DEF Typing, TypeOK, WriteByte
<1>3. output' = [output EXCEPT ![WriteBytes[todo]] = Oldest]
  BY DEF WriteByte
<1> QED
  BY <1>1, <1>2, <1>3 DEF OutputSince

\* Every step keeps the ages of what was seen and written.
LEMMA AgeStep ==
    ASSUME Typing, WritesAll, InputInv, UniformInv, AgeInv, [Next]_vars
    PROVE  AgeInv'
<1>0. cycle \in Nat /\ late \in Nat /\ at \in Nat /\ Due \in Int /\ signal \in [Slot -> {0, 1}]
  BY Numbers DEF Typing, TypeOK
<1>1. CASE Exchange
  <2>1. UNCHANGED <<cpc, seen, output, signal>> /\ ~Mid /\ ~Mid' /\ Due' = Due
    BY <1>0, <1>1 DEF Exchange, clientVars, Mid, Due
  <2> QED
    BY <2>1 DEF AgeInv, SeenSince, OutputSince, On
<1>2. CASE CopyIn
  <2>1. UNCHANGED <<cpc, seen, output, signal, cycle>> /\ Mid' /\ mpc = "copyIn" /\ mpc' # "exchange"
    BY <1>0, <1>2 DEF CopyIn, clientVars, Mid
  <2>2. CASE at = 0 /\ Busy
    <3>1. ~Mid /\ Due' = Due - 1
      BY <1>0, <1>2, <2>1, <2>2 DEF CopyIn, Mid, Due
    <3> QED
      BY <2>1, <3>1 DEF AgeInv, SeenSince, OutputSince
  <2>3. CASE at = 0 /\ ~Busy
    <3>1. ~Mid /\ Due' = Due /\ cpc = "wait" /\ ~On
      BY <1>0, <1>2, <2>1, <2>3 DEF CopyIn, Mid, Due, Busy, On
    <3> QED
      BY <2>1, <3>1 DEF AgeInv, OutputSince
  <2>4. CASE at # 0
    <3>1. Mid /\ Due' = Due
      BY <1>0, <1>2, <2>1, <2>4 DEF CopyIn, Mid, Due
    <3> QED
      BY <2>1, <3>1 DEF AgeInv, SeenSince, OutputSince
  <2> QED
    BY <2>2, <2>3, <2>4
<1>3. CASE CopyOut
  <2>1. UNCHANGED <<cpc, seen, output>> /\ Mid /\ Mid' /\ Due' = Due
    BY <1>0, <1>3 DEF CopyOut, clientVars, Mid, Due
  <2> QED
    BY <2>1 DEF AgeInv, SeenSince, OutputSince
<1>4. CASE Publish
  <2>1. UNCHANGED <<cpc, seen, output>> /\ Mid /\ Mid' /\ Due' = Due
    BY <1>0, <1>4 DEF Publish, clientVars, Mid, Due
  <2> QED
    BY <2>1 DEF AgeInv, SeenSince, OutputSince
<1>5. CASE \E s \in Slot : Raise(s)
  <2>1. UNCHANGED <<cpc, seen, output>> /\ Mid /\ ~Mid' /\ Due' = Due + 1 /\ On'
    BY <1>0, <1>5
       DEF Raise, Sig!Raise, clientVars, Mid, Due, On, Typing, PhaseInv, Slot, SlotZero
  <2>2. Due' - 1 = Due
    BY <1>0, <2>1
  <2> QED
    BY <2>1, <2>2 DEF AgeInv, SeenSince, OutputSince
<1>6. CASE Wait
  <2>1. /\ UNCHANGED <<mpc, at, cycle, late, output>> /\ seen' = {} /\ cpc' = "read"
    BY <1>6 DEF Wait
  <2>2. Due' = Due /\ (Mid' <=> Mid) /\ \A n : SeenSince(n)'
    BY <2>1 DEF Due, Mid, SeenSince
  <2> QED
    BY <2>1, <2>2 DEF AgeInv, OutputSince
<1>7. CASE ReadByte
  <2>1. /\ UNCHANGED <<mpc, at, cycle, late, output, signal>>
        /\ cpc = "read" /\ cpc' \in {"read", "write"}
    BY <1>7 DEF ReadByte, masterVars
  <2>2. Due' = Due /\ (Mid' <=> Mid) /\ (On' <=> On)
    BY <2>1 DEF Due, Mid, On
  <2>3. /\ SeenSince(Due) => SeenSince(Due)'
        /\ SeenSince(Due - 1) => SeenSince(Due - 1)'
    <3>1. SeenSince(Due) => \A m \in seen' : m >= Due
      BY <1>0, <1>7, ReadAge
    <3>2. SeenSince(Due - 1) => \A m \in seen' : m >= Due - 1
      BY <1>0, <1>7, ReadAge
    <3> QED
      BY <2>2, <3>1, <3>2 DEF SeenSince
  <2>4. /\ OutputSince(Due) => OutputSince(Due)'
        /\ OutputSince(Due - 1) => OutputSince(Due - 1)'
    BY <2>1, <2>2 DEF OutputSince
  <2>5. CASE Mid
    BY <2>1, <2>2, <2>3, <2>4, <2>5 DEF AgeInv
  <2>6. CASE ~Mid
    BY <2>1, <2>2, <2>3, <2>4, <2>6 DEF AgeInv
  <2> QED
    BY <2>5, <2>6
<1>8. CASE WriteByte
  <2>1. UNCHANGED <<mpc, at, cycle, late, seen, signal>> /\ cpc = "write" /\ cpc' \in {"write", "wait"}
    BY <1>8 DEF WriteByte, masterVars
  <2>2. Due' = Due /\ (Mid' <=> Mid) /\ (On' <=> On)
    BY <2>1 DEF Due, Mid, On
  <2>3. /\ SeenSince(Due)' <=> SeenSince(Due)
        /\ SeenSince(Due - 1)' <=> SeenSince(Due - 1)
    BY <2>1, <2>2 DEF SeenSince
  <2>4. /\ SeenSince(Due) /\ OutputSince(Due) => OutputSince(Due)'
        /\ SeenSince(Due - 1) /\ OutputSince(Due - 1) => OutputSince(Due - 1)'
    <3>1. SeenSince(Due) /\ OutputSince(Due) => \A b \in OutByte : output'[b] >= Due
      BY <1>0, <1>8, WriteAge
    <3>2. SeenSince(Due - 1) /\ OutputSince(Due - 1) => \A b \in OutByte : output'[b] >= Due - 1
      BY <1>0, <1>8, WriteAge
    <3> QED
      BY <2>2, <3>1, <3>2 DEF OutputSince
  <2>5. CASE Mid
    BY <2>1, <2>2, <2>3, <2>4, <2>5 DEF AgeInv
  <2>6. CASE ~Mid
    <3>1. CASE todo < Len(WriteBytes)
      <4>1. cpc' = "write"
        BY <1>8, <3>1 DEF WriteByte
      <4> QED
        BY <2>1, <2>2, <2>3, <2>4, <2>6, <4>1 DEF AgeInv
    <3>2. CASE ~ (todo < Len(WriteBytes))
      <4>1. cpc' = "wait"
        BY <1>8, <3>2 DEF WriteByte
      <4>2. ~On => OutputSince(Due)'
        <5>1. SUFFICES ASSUME ~On PROVE \A b \in OutByte : output'[b] >= Due
          BY <2>2 DEF OutputSince
        <5>2. Oldest \in seen /\ SeenSince(Due)
          BY <1>8, <2>1, <2>6, <5>1, Accesses DEF AgeInv
        <5> QED
          BY <1>8, <3>2, <5>2, AllWritten DEF SeenSince
      <4> QED
        BY <2>1, <2>2, <2>4, <2>6, <4>1, <4>2 DEF AgeInv
    <3> QED
      BY <3>1, <3>2
  <2> QED
    BY <2>5, <2>6
<1>9. CASE UNCHANGED vars
  BY <1>9 DEF vars, AgeInv, SeenSince, OutputSince, Due, Mid, On
<1> QED
  BY <1>1, <1>2, <1>3, <1>4, <1>5, <1>6, <1>7, <1>8, <1>9 DEF Next

\* Every step keeps the age of the outputs that are sent.
LEMMA SentStep ==
    ASSUME Typing, AgeInv, SentInv, [Next]_vars
    PROVE  SentInv'
<1>0. /\ cycle \in Nat /\ late \in Nat /\ at \in Nat /\ OutByte \subseteq Nat
      /\ \A b \in OutByte : output[b] \in Nat /\ outputs[b] \in Nat
  BY Numbers, Bytes
<1>1. CASE Exchange
  BY <1>0, <1>1 DEF Exchange, SentInv
<1>2. CASE CopyIn
  <2>1. UNCHANGED <<outputs, cycle>> /\ mpc = "copyIn" /\ late' \in {late, late + 1}
        /\ (mpc' = "copyIn" \/ (mpc' = "copyOut" /\ at' = 0))
    BY <1>2 DEF CopyIn
  <2>2. \A b \in OutByte : outputs[b] >= cycle - 2 - late
    BY <2>1 DEF SentInv
  <2>3. \A b \in OutByte : outputs[b] >= cycle - 2 - late'
    BY <1>0, <2>1, <2>2
  <2> QED
    BY <1>0, <2>1, <2>3 DEF SentInv
<1>3. CASE CopyOut
  <2>1. UNCHANGED <<cycle, late>> /\ mpc = "copyOut"
        /\ outputs' = [outputs EXCEPT ![at] = output[at]]
    BY <1>3 DEF CopyOut
  <2>2. at \in OutByte /\ outputs \in [OutByte -> 0 .. MaxCycle]
    BY <2>1 DEF Typing, TypeOK, PhaseInv
  <2>3. output[at] >= cycle - 1 - late
    BY <2>1, <2>2 DEF AgeInv, OutputSince, Mid, Due
  <2>4. \A b \in OutByte : outputs'[b] >= IF b > at THEN cycle - 2 - late ELSE cycle - 1 - late
    BY <1>0, <2>1, <2>2, <2>3 DEF SentInv
  <2>5. CASE at + 1 \in OutByte
    BY <1>0, <1>3, <2>1, <2>4, <2>5 DEF CopyOut, SentInv
  <2>6. CASE at + 1 \notin OutByte
    <3>1. \A b \in OutByte : b <= at
      BY <2>2, <2>6, Bytes
    <3>2. mpc' = "publish"
      BY <1>3, <2>6 DEF CopyOut
    <3> QED
      BY <1>0, <2>1, <2>4, <3>1, <3>2 DEF SentInv
  <2> QED
    BY <2>5, <2>6
<1>4. CASE Publish
  BY <1>4 DEF Publish, SentInv
<1>5. CASE \E s \in Slot : Raise(s)
  BY <1>5 DEF Raise, SentInv
<1>6. CASE Wait
  BY <1>6 DEF Wait, SentInv
<1>7. CASE ReadByte
  BY <1>7 DEF ReadByte, masterVars, SentInv
<1>8. CASE WriteByte
  BY <1>8 DEF WriteByte, masterVars, SentInv
<1>9. CASE UNCHANGED vars
  BY <1>9 DEF vars, SentInv
<1> QED
  BY <1>1, <1>2, <1>3, <1>4, <1>5, <1>6, <1>7, <1>8, <1>9 DEF Next

\* When every step writes every output, the outputs sent with an exchange react to the
\* inputs of the last exchange but one, and each late copy makes them at most one
\* exchange older, however the copies and the steps interleave.
THEOREM ReactionBounded == Spec => [](WritesAll => ReactionTime)
<1> DEFINE Inv == WritesAll => UniformInv /\ AgeInv /\ SentInv
<1>1. Init => Inv /\ InputInv
  BY ImageAssumption
     DEF Init, Sig!Init, InputInv, UniformInv, AgeInv, SentInv, OutputSince, SeenSince,
         Due, Mid, On, SlotZero, Slot
<1>2. Typing /\ InputInv /\ [Next]_vars => InputInv'
  BY InputStep
<1>3. Typing /\ InputInv /\ Inv /\ [Next]_vars => Inv'
  <2>1. SUFFICES ASSUME Typing, InputInv, Inv, [Next]_vars, WritesAll
                 PROVE  UniformInv' /\ AgeInv' /\ SentInv'
    BY DEF WritesAll
  <2> QED
    BY <2>1, UniformStep, AgeStep, SentStep
<1>4. Inv => (WritesAll => ReactionTime)
  BY DEF SentInv, ReactionTime
<1> HIDE DEF Inv
<1> QED
  BY <1>1, <1>2, <1>3, <1>4, AccessesInside, PTL DEF Spec
=============================================================================
