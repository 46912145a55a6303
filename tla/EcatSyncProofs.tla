--------------------------- MODULE EcatSyncProofs ---------------------------
(***************************************************************************)
(* Proofs about EcatSync for every set of threads and processes and every  *)
(* number of semaphores.                                                   *)
(***************************************************************************)
EXTENDS EcatSync, TLAPS

\* When the thread table is about to be used for its last position, it has one.
SizePositive == \A t \in Thread : tpc[t] = "size" => size[ProcOf[t]] >= 1

\* The loop of updateSempahore stays within the semaphore array, and passes
\* exactly the slot it is at.
LEMMA NextSlotPasses ==
    ASSUME slot \in Slot, mpc \in {"getvalue", "post"}, NextSlot
    PROVE  /\ mpc' \in {"exchange", "getvalue"}
           /\ slot' \in Slot
           /\ Visited' = Visited \cup {slot}
           /\ slot \notin Visited
<1> USE SyncAssumption
<1>1. CASE slot + 1 < EC_SEM_NUM
  BY <1>1 DEF NextSlot, Slot, Visited
<1>2. CASE ~(slot + 1 < EC_SEM_NUM)
  <2>1. slot = EC_SEM_NUM - 1
    BY <1>2 DEF Slot
  <2> QED
    BY <1>2, <2>1 DEF NextSlot, Slot, Visited
<1> QED
  BY <1>1, <1>2

\* The typing of every variable is preserved: semaphores never go negative,
\* and the position waitForSignal is called with exists.
LEMMA Typing == Safety => [](TypeOK /\ SizePositive)
<1>1. Init => TypeOK /\ SizePositive
  BY SyncAssumption DEF Init, TypeOK, SizePositive, Slot
<1>2. TypeOK /\ SizePositive /\ [Next]_vars => (TypeOK /\ SizePositive)'
  <2> SUFFICES ASSUME TypeOK, SizePositive, [Next]_vars
               PROVE  TypeOK' /\ SizePositive'
    OBVIOUS
  <2> USE SyncAssumption
  <2>1. CASE Exchange
    BY <2>1 DEF Exchange, TypeOK, SizePositive, tableVars, threadVars, histVars
  <2>2. CASE CopyImages
    BY <2>2 DEF CopyImages, TypeOK, SizePositive, tableVars, threadVars, Slot
  <2>3. CASE SemGetValue
    <3>1. slot' \in Slot /\ mpc' \in {"exchange", "getvalue", "post"}
      BY <2>3, NextSlotPasses DEF SemGetValue, TypeOK
    <3> QED
      BY <2>3, <3>1 DEF SemGetValue, TypeOK, SizePositive, tableVars,
                        threadVars, histVars
  <2>4. CASE SemPost
    <3>1. slot' \in Slot /\ mpc' \in {"exchange", "getvalue"}
      BY <2>4, NextSlotPasses DEF SemPost, TypeOK
    <3> QED
      BY <2>4, <3>1 DEF SemPost, TypeOK, SizePositive, tableVars,
                        threadVars, histVars
  <2>5. ASSUME NEW t \in Thread, Client(t)
        PROVE  TypeOK' /\ SizePositive'
    <3> ProcOf[t] \in Proc
      OBVIOUS
    <3>1. CASE Find(t)
      <4>1. Positions(t) \subseteq Nat
        BY DEF Positions, TypeOK
      <4> QED
        BY <3>1, <4>1 DEF Find, TypeOK, SizePositive, masterVars, tableVars, histVars
    <3>2. CASE Refuse(t)
      BY <3>2 DEF Refuse, vars, TypeOK, SizePositive
    <3>3. CASE Admit(t)
      BY <3>3 DEF Admit, TypeOK, SizePositive, masterVars, tableVars, histVars
    <3>4. CASE PushRead(t)
      BY <3>4 DEF PushRead, TypeOK, SizePositive, masterVars, tableVars, histVars
    <3>5. CASE PushWrite(t)
      BY <3>5 DEF PushWrite, TypeOK, SizePositive, masterVars, histVars
    <3>6. CASE PushAbort(t)
      BY <3>6 DEF PushAbort, TypeOK, SizePositive, masterVars, tableVars, histVars
    <3>7. CASE UseLast(t)
      BY <3>7 DEF UseLast, TypeOK, SizePositive, masterVars, tableVars, histVars
    <3>8. CASE SemWait(t)
      BY <3>8 DEF SemWait, Blocked, TypeOK, SizePositive, masterVars, tableVars
    <3>9. CASE SemOutOfRange(t)
      BY <3>9 DEF SemOutOfRange, TypeOK, SizePositive, masterVars, tableVars, histVars
    <3>10. CASE SemInterrupted(t)
      BY <3>10 DEF SemInterrupted, TypeOK, SizePositive, masterVars, tableVars
    <3> QED
      BY <2>5, <3>1, <3>2, <3>3, <3>4, <3>5, <3>6, <3>7, <3>8, <3>9, <3>10 DEF Client
  <2>6. CASE UNCHANGED vars
    BY <2>6 DEF vars, TypeOK, SizePositive
  <2> QED
    BY <2>1, <2>2, <2>3, <2>4, <2>5, <2>6 DEF Next, Master
<1> QED
  BY <1>1, <1>2, PTL DEF Safety

\* TypeOK holds in every reachable state of the hand-over.
THEOREM TypeCorrect == Safety => []TypeOK
  BY Typing, PTL

\* The slots visited are semaphores of the array.
LEMMA VisitedSlots == TypeOK => Visited \subseteq Slot
  BY SyncAssumption DEF TypeOK, Visited, Slot

\* A step that leaves the semaphores, the master and the count of signals taken
\* alone keeps the invariant of the hand-over.
LEMMA HandOverFrame ==
    ASSUME HandOverInv, UNCHANGED <<mpc, slot, sem, taken>>
    PROVE  HandOverInv'
  BY DEF HandOverInv, SemBinary, PostsZero, Budget, Announced, Visited

\* The invariant of the hand-over is inductive, given the types.
LEMMA HandOverStep ==
    ASSUME TypeOK, TypeOK', HandOverInv, [Next]_vars
    PROVE  HandOverInv'
<1> USE SyncAssumption
<1>1. CASE Exchange
  BY <1>1 DEF Exchange, TypeOK, HandOverInv, SemBinary, PostsZero, Budget,
              Announced, Visited, histVars
<1>2. CASE CopyImages
  <2>1. Visited' = {}
    BY <1>2 DEF CopyImages, Visited
  <2>2. SemBinary' /\ PostsZero'
    BY <1>2 DEF CopyImages, HandOverInv, SemBinary, PostsZero
  <2>3. Budget'
    BY <1>2, <2>1 DEF CopyImages, HandOverInv, SemBinary, Budget, TypeOK
  <2> QED
    BY <2>1, <2>2, <2>3 DEF HandOverInv, Announced
<1>3. CASE SemGetValue
  <2>1. CASE sem[slot] < 1
    <3>1. mpc' = "post" /\ UNCHANGED <<slot, sem, taken>> /\ Visited' = Visited
      BY <1>3, <2>1 DEF SemGetValue, histVars, Visited
    <3>2. sem[slot] = 0
      BY <2>1 DEF TypeOK
    <3> QED
      BY <3>1, <3>2 DEF HandOverInv, SemBinary, PostsZero, Budget, Announced
  <2>2. CASE ~(sem[slot] < 1)
    <3>1. NextSlot /\ UNCHANGED <<sem, taken>>
      BY <1>3, <2>2 DEF SemGetValue, histVars
    <3>2. /\ mpc' # "post"
          /\ Visited' = Visited \cup {slot}
          /\ slot \in Slot
      BY <1>3, <3>1, NextSlotPasses DEF TypeOK, SemGetValue
    <3>3. sem[slot] = 1
      BY <2>2, <3>2 DEF TypeOK, HandOverInv, SemBinary
    <3>4. Budget'
      BY <3>1, <3>2 DEF HandOverInv, Budget, TypeOK
    <3>5. Announced'
      BY <3>1, <3>2, <3>3 DEF HandOverInv, Announced
    <3> QED
      BY <3>1, <3>2, <3>4, <3>5 DEF HandOverInv, SemBinary, PostsZero
  <2> QED
    BY <2>1, <2>2
<1>4. CASE SemPost
  <2>1. NextSlot /\ UNCHANGED taken /\ sem' = [sem EXCEPT ![slot] = sem[slot] + 1]
    BY <1>4 DEF SemPost, histVars
  <2>2. /\ mpc' # "post"
        /\ Visited' = Visited \cup {slot}
        /\ slot \in Slot
        /\ slot \notin Visited
    BY <1>4, <2>1, NextSlotPasses DEF TypeOK, SemPost
  <2>3. sem[slot] = 0 /\ sem'[slot] = 1
    BY <1>4, <2>1, <2>2 DEF SemPost, HandOverInv, PostsZero, TypeOK
  <2>4. \A s \in Slot : s # slot => sem'[s] = sem[s]
    BY <2>1 DEF TypeOK
  <2>5. SemBinary'
    BY <2>3, <2>4 DEF HandOverInv, SemBinary
  <2>6. Budget'
    BY <2>1, <2>2, <2>3, <2>4 DEF HandOverInv, Budget, TypeOK
  <2>7. Announced'
    BY <2>1, <2>2, <2>3, <2>4, VisitedSlots DEF HandOverInv, Announced
  <2> QED
    BY <2>2, <2>5, <2>6, <2>7 DEF HandOverInv, PostsZero
<1>5. ASSUME NEW t \in Thread, SemWait(t)
      PROVE  HandOverInv'
  <2> DEFINE s0 == tslot[t]
  <2>1. /\ s0 \in Slot
        /\ sem[s0] = 1
        /\ sem' = [sem EXCEPT ![s0] = sem[s0] - 1]
        /\ taken' = [taken EXCEPT ![s0] = taken[s0] + 1]
        /\ UNCHANGED <<mpc, slot>>
        /\ Visited' = Visited
    BY <1>5 DEF SemWait, masterVars, HandOverInv, SemBinary, TypeOK, Visited
  <2>2. /\ sem'[s0] = 0 /\ taken'[s0] = taken[s0] + 1
        /\ \A s \in Slot : s # s0 => sem'[s] = sem[s] /\ taken'[s] = taken[s]
    BY <2>1 DEF TypeOK
  <2> HIDE DEF s0
  <2>3. SemBinary' /\ PostsZero'
    BY <2>1, <2>2 DEF HandOverInv, SemBinary, PostsZero, TypeOK
  <2>4. Budget'
    BY <2>1, <2>2 DEF HandOverInv, Budget, TypeOK
  <2>5. Announced'
    BY <2>1, <2>2, VisitedSlots DEF HandOverInv, Announced, TypeOK
  <2> QED
    BY <2>3, <2>4, <2>5 DEF HandOverInv
<1>6. ASSUME NEW t \in Thread, Client(t), ~SemWait(t)
      PROVE  UNCHANGED <<mpc, slot, sem, taken>>
  BY <1>6 DEF vars, Client, Find, Refuse, Admit, PushRead, PushWrite, PushAbort,
              UseLast, SemInterrupted, SemOutOfRange, masterVars, histVars
<1>7. CASE UNCHANGED vars
  BY <1>7, HandOverFrame DEF vars
<1> QED
  BY <1>1, <1>2, <1>3, <1>4, <1>5, <1>6, <1>7, HandOverFrame DEF Next, Master

\* The invariant of the hand-over holds in every reachable state.
THEOREM HandOver == Safety => []HandOverInv
<1>1. Init => HandOverInv
  BY SyncAssumption DEF Init, HandOverInv, SemBinary, PostsZero, Budget,
                        Announced, Visited, Slot
<1> QED
  BY <1>1, Typing, HandOverStep, PTL DEF Safety

\* The semaphores stay binary.
THEOREM SemaphoresBinary == Safety => []SemBinary
  BY HandOver, PTL DEF HandOverInv

\* An image releases at most two waits of a slot.
THEOREM ImageTakenAtMostTwice == Safety => []AtMostTwice
<1>1. TypeOK /\ HandOverInv => AtMostTwice
  BY DEF TypeOK, HandOverInv, Budget, AtMostTwice
<1> QED
  BY <1>1, Typing, HandOver, PTL

\* A slot updateSempahore has passed has its signal, or has used it.
THEOREM EveryImageAnnounced == Safety => []Announced
  BY HandOver, PTL DEF HandOverInv

\* Every step of the hand-over is a step of BinarySignal or changes nothing
\* BinarySignal sees: the test of a semaphore that is set, and the post of one
\* that is not, are where the slot is signalled.
LEMMA RefinementStep ==
    ASSUME TypeOK, TypeOK', HandOverInv, [Next]_vars
    PROVE  [Signals!Next]_(Signals!vars)
<1> USE SyncAssumption
<1>1. CASE Exchange
  BY <1>1 DEF Exchange, Signals!vars, Unvisited, Visited
<1>2. CASE CopyImages
  <2>1. Unvisited = {} /\ Unvisited' = Slot /\ UNCHANGED sem
    BY <1>2 DEF CopyImages, Unvisited, Visited
  <2> QED
    BY <2>1 DEF Signals!Next, Signals!Publish
<1>3. CASE SemGetValue
  <2>1. CASE sem[slot] < 1
    BY <1>3, <2>1 DEF SemGetValue, Signals!vars, Unvisited, Visited
  <2>2. CASE ~(sem[slot] < 1)
    <3>1. NextSlot /\ UNCHANGED sem
      BY <1>3, <2>2 DEF SemGetValue
    <3>2. /\ Visited' = Visited \cup {slot}
          /\ slot \in Slot
          /\ slot \notin Visited
      BY <1>3, <3>1, NextSlotPasses DEF TypeOK, SemGetValue
    <3>3. sem[slot] = 1
      BY <2>2, <3>2 DEF TypeOK, HandOverInv, SemBinary
    <3>4. sem' = [sem EXCEPT ![slot] = 1]
      BY <3>1, <3>3 DEF TypeOK
    <3>5. slot \in Unvisited /\ Unvisited' = Unvisited \ {slot}
      BY <3>2 DEF Unvisited
    <3>6. Signals!Raise(slot)
      BY <3>4, <3>5 DEF Signals!Raise
    <3> QED
      BY <3>2, <3>6 DEF Signals!Next
  <2> QED
    BY <2>1, <2>2
<1>4. CASE SemPost
  <2>1. NextSlot /\ sem' = [sem EXCEPT ![slot] = sem[slot] + 1]
    BY <1>4 DEF SemPost
  <2>2. /\ Visited' = Visited \cup {slot}
        /\ slot \in Slot
        /\ slot \notin Visited
    BY <1>4, <2>1, NextSlotPasses DEF TypeOK, SemPost
  <2>3. sem' = [sem EXCEPT ![slot] = 1]
    <3>1. sem[slot] + 1 = 1
      BY <1>4 DEF SemPost, HandOverInv, PostsZero
    <3> QED
      BY <2>1, <3>1, Zenon
  <2>4. slot \in Unvisited /\ Unvisited' = Unvisited \ {slot}
    BY <2>2 DEF Unvisited
  <2>5. Signals!Raise(slot)
    BY <2>3, <2>4 DEF Signals!Raise
  <2> QED
    BY <2>2, <2>5 DEF Signals!Next
<1>5. ASSUME NEW t \in Thread, SemWait(t)
      PROVE  Signals!Next
  <2>1. /\ tslot[t] \in Slot
        /\ sem[tslot[t]] = 1
        /\ sem' = [sem EXCEPT ![tslot[t]] = sem[tslot[t]] - 1]
    BY <1>5 DEF SemWait, HandOverInv, SemBinary, TypeOK
  <2>2. sem' = [sem EXCEPT ![tslot[t]] = 0]
    BY <2>1
  <2>3. Unvisited' = Unvisited
    BY <1>5 DEF SemWait, masterVars, Unvisited, Visited
  <2>4. Signals!Take(tslot[t])
    BY <2>1, <2>2, <2>3 DEF Signals!Take
  <2> QED
    BY <2>1, <2>4 DEF Signals!Next
<1>6. ASSUME NEW t \in Thread, Client(t), ~SemWait(t)
      PROVE  UNCHANGED <<sem, Unvisited>>
  BY <1>6 DEF vars, Client, Find, Refuse, Admit, PushRead, PushWrite, PushAbort,
              UseLast, SemInterrupted, SemOutOfRange, masterVars, Unvisited, Visited
<1>7. CASE UNCHANGED vars
  BY <1>7 DEF vars, Signals!vars, Unvisited, Visited
<1> QED
  BY <1>1, <1>2, <1>3, <1>4, <1>5, <1>6, <1>7 DEF Next, Master, Signals!vars

\* The hand-over implements BinarySignal.
THEOREM Refinement == Safety => ImplementsSignals
<1>1. Init => Signals!Init
  BY SyncAssumption DEF Init, Signals!Init, Unvisited, Visited
<1> QED
  BY <1>1, RefinementStep, Typing, HandOver, PTL
     DEF Safety, ImplementsSignals, Signals!Spec

=============================================================================
