-------------------------- MODULE EcatMasterProofs --------------------------
(***************************************************************************)
(* Proofs about the main thread, for every set of slaves, every number of  *)
(* tries and every number of faults.                                       *)
(***************************************************************************)
EXTENDS EcatMaster, FoldTheorems

\* Without mapped slaves every exchange is incomplete: ec_receive_processdata
\* reports EC_NOFRAME, which is less than the expected counter of 0.
LEMMA NothingMapped ==
    ASSUME counted = {}, NEW lost \in BOOLEAN
    PROVE  Received(lost) < ExpectedWKC
<1>1. counted \cap Outputs = {} /\ counted \cap Inputs = {}
      /\ counted \cap (Outputs \cup Inputs) = {}
  OBVIOUS
<1>2. Cardinality(counted \cap Outputs) = 0 /\ Cardinality(counted \cap Inputs) = 0
  BY <1>1, FS_EmptySet
<1>3. ExpectedWKC = 0
  BY <1>2 DEF ExpectedWKC
<1>4. Received(lost) = -1
  BY <1>1 DEF Received, EC_NOFRAME
<1> QED
  BY <1>3, <1>4

\* Every step of main, of slaveinfo and of the slaves keeps MemoryInv.
LEMMA MemoryStep ==
    ASSUME MemoryInv, [Next]_vars
    PROVE  MemoryInv'
<1> USE DEF MemoryInv, SharedMemoryUsedOnceCreated
<1>1. CASE InitNic
  BY <1>1 DEF InitNic
<1>2. CASE DetectSlaves
  BY <1>2 DEF DetectSlaves
<1>3. CASE ConfigureSlaves
  BY <1>3 DEF ConfigureSlaves
<1>4. CASE CreateMemory
  BY <1>4 DEF CreateMemory
<1>5. CASE RequestOp
  BY <1>5 DEF RequestOp
<1>6. CASE WaitOp
  BY <1>6 DEF WaitOp
<1>7. ASSUME NEW lost \in BOOLEAN, Exchange(lost)
      PROVE  MemoryInv'
  <2>1. CASE pEcm
    BY <1>7, <2>1 DEF Exchange
  <2>2. CASE ~pEcm
    <3>1. counted = {}
      BY <1>7, <2>2 DEF Exchange
    <3>2. wkc' < ExpectedWKC
      BY <1>7, <3>1, NothingMapped DEF Exchange
    <3>3. pc' = "cyclic"
      BY <1>7, <3>2 DEF Exchange
    <3> QED
      BY <1>7, <2>2, <3>1, <3>3 DEF Exchange
  <2> QED
    BY <2>1, <2>2
<1>8. CASE Copy
  BY <1>8 DEF Copy
<1>9. ASSUME NEW k \in Slave, EnterOp(k) \/ FallBack(k) \/ Unplug(k) \/ ComeBack(k)
      PROVE  MemoryInv'
  <2>1. UNCHANGED mainVars
    BY <1>9 DEF EnterOp, FallBack, Unplug, ComeBack
  <2> QED
    BY <2>1 DEF mainVars
<1>10. CASE Prepare
  BY <1>10 DEF Prepare
<1>11. CASE UNCHANGED vars
  BY <1>11 DEF vars
<1> QED
  BY <1>1, <1>2, <1>3, <1>4, <1>5, <1>6, <1>7, <1>8, <1>9, <1>10, <1>11
     DEF Next, Main, Startup, Slaves

\* Until slaveinfo is through nothing is mapped unless the shared memory comes next.
THEOREM MemoryInvariant == Safety => []MemoryInv
<1>1. Init => MemoryInv
  BY DEF Init, MemoryInv, SharedMemoryUsedOnceCreated
<1>2. MemoryInv /\ [Next]_vars => MemoryInv'
  BY MemoryStep
<1> QED
  BY <1>1, <1>2, PTL DEF Safety

\* The cyclic loop never goes through pEcm before slaveinfo has set it, whatever
\* part of slaveinfo failed and whatever state the slaves were left in.
THEOREM MemoryCreatedBeforeUse == Safety => []SharedMemoryUsedOnceCreated
<1>1. MemoryInv => SharedMemoryUsedOnceCreated
  BY DEF MemoryInv
<1> QED
  BY <1>1, MemoryInvariant, PTL


----------------------------------------------------------------------------
(* Types.                                                                  *)

AlState == {"INIT", "PREOP", "SAFEOP", "OP"}

\* A state check reports one of the states, none of them or several.
LEMMA StateCheckType ==
    ASSUME TypeOK, NEW lost \in BOOLEAN
    PROVE  StateCheck(lost) \in {"none", "mixed"} \cup AlState
<1> DEFINE seen == {al[k] : k \in present}
<1>1. seen \subseteq AlState
  BY DEF TypeOK, AlState
<1>2. Cardinality(seen) = 1 => seen # {}
  BY FS_EmptySet
<1>3. Cardinality(seen) = 1 => (CHOOSE s \in seen : TRUE) \in AlState
  <2> HIDE DEF seen
  <2> QED
    BY <1>1, <1>2
<1>4. present = {} => Cardinality(seen) # 1
  BY FS_EmptySet
<1>5. Broadcast = CASE present = {} -> "none"
                    [] Cardinality(seen) = 1 /\ present \cap err = {} -> CHOOSE s \in seen : TRUE
                    [] OTHER -> "mixed"
  BY DEF Broadcast
<1>6. Broadcast \in {"none", "mixed"} \cup AlState
  <2> HIDE DEF seen
  <2> QED
    BY <1>3, <1>4, <1>5
<1> QED
  BY <1>6 DEF StateCheck

\* A slave adds 3 at most.
LEMMA AddsType == \A k \in Slave : Adds(k) \in 0 .. 3
BY DEF Adds

\* The working counter, slave by slave.
LEMMA SumOverSlaves ==
    ASSUME \A k \in Slave : Adds(k) \in Nat
    PROVE  \E g \in [SUBSET Slave -> Nat] :
              /\ MapThenSumSet(Adds, Slave) = g[Slave]
              /\ g[{}] = 0
              /\ \A s \in SUBSET Slave : s # {} => \E x \in s : g[s] = Adds(x) + g[s \ {x}]
<1> DEFINE Pick(s) == CHOOSE x \in s : TRUE
           Sums(g) == g = [s \in SUBSET Slave |-> IF s = {} THEN 0
                                                  ELSE Adds(Pick(s)) + g[s \ {Pick(s)}]]
           iter == CHOOSE g : Sums(g)
<1>1. \A s \in SUBSET Slave : s # {} => Pick(s) \in s
  OBVIOUS
<1>2. MapThenSumSet(Adds, Slave) = iter[Slave]
  BY DEF MapThenSumSet, MapThenFoldSet
<1>3. \E g : Sums(g)
  <2> DEFINE F == [k \in Slave |-> [v \in Nat |-> Adds(k) + v]]
             pick == [s \in SUBSET Slave |-> Pick(s)]
  <2>1. F \in [Slave -> [Nat -> Nat]]
    OBVIOUS
  <2>2. \A s \in SUBSET Slave : s # {} => pick[s] \in s
    BY <1>1
  <2>3. PICK g \in [SUBSET Slave -> Nat] : IsFold(g, Slave, 0, F, pick)
    <3> HIDE DEF F, pick
    <3>1. Foldable(Slave, Nat, 0, F, pick)
      BY <2>1, <2>2, MasterAssumption DEF Foldable
    <3> QED
      BY <3>1, FoldExists
  <2>4. ASSUME NEW s \in SUBSET Slave, s # {}
        PROVE  F[pick[s]][g[s \ {pick[s]}]] = Adds(Pick(s)) + g[s \ {Pick(s)}]
    <3>1. Pick(s) \in Slave /\ s \ {Pick(s)} \in SUBSET Slave
      BY <1>1, <2>4
    <3> HIDE DEF Pick
    <3> QED
      BY <3>1
  <2>5. Sums(g)
    <3> HIDE DEF F, pick, Pick
    <3> QED
      BY <2>3, <2>4 DEF IsFold
  <2> QED
    BY <2>5
<1>4. Sums(iter)
  <2> HIDE DEF Sums
  <2> QED
    BY <1>3
<1> HIDE DEF iter
<1>5. iter[{}] = 0 /\ \A s \in SUBSET Slave : s # {} => iter[s] = Adds(Pick(s)) + iter[s \ {Pick(s)}]
  <2> HIDE DEF Pick
  <2> QED
    BY <1>4
<1>6. \A s \in SUBSET Slave : iter[s] \in Nat
  <2> DEFINE Q == {s \in SUBSET Slave : iter[s] \in Nat}
  <2> SUFFICES \A s \in SUBSET Slave : s \in Q
    OBVIOUS
  <2>1. {} \in Q
    BY <1>5
  <2>2. \A s \in SUBSET Slave : s # {} /\ (\A x \in s : s \ {x} \in Q) => s \in Q
    <3>1. SUFFICES ASSUME NEW s \in SUBSET Slave, s # {}, \A x \in s : s \ {x} \in Q
                   PROVE  iter[s] \in Nat
      OBVIOUS
    <3>2. Pick(s) \in s /\ Adds(Pick(s)) \in Nat
      BY <1>1, <3>1
    <3>3. iter[s] = Adds(Pick(s)) + iter[s \ {Pick(s)}]
      BY <1>5, <3>1
    <3>4. iter[s \ {Pick(s)}] \in Nat
      BY <3>1, <3>2
    <3> HIDE DEF Pick
    <3> QED
      BY <3>2, <3>3, <3>4
  <2> HIDE DEF Q
  <2> QED
    BY <2>1, <2>2, SubsetInduction, MasterAssumption
<1>7. iter \in [SUBSET Slave -> Nat]
  <2> HIDE DEF Pick
  <2> QED
    BY <1>4, <1>6
<1> WITNESS iter \in [SUBSET Slave -> Nat]
<1> HIDE DEF Pick
<1> QED
  BY <1>1, <1>2, <1>5

\* What comes back is a counter or the report that nothing did.
LEMMA ReceivedType ==
    ASSUME NEW lost \in BOOLEAN
    PROVE  Received(lost) \in Int /\ Received(lost) >= EC_NOFRAME
<1>1. MapThenSumSet(Adds, Slave) \in Nat
  <2>1. \A k \in Slave : Adds(k) \in Nat
    BY AddsType
  <2>2. PICK g \in [SUBSET Slave -> Nat] : MapThenSumSet(Adds, Slave) = g[Slave]
    BY <2>1, SumOverSlaves, Zenon
  <2> QED
    BY <2>2
<1> QED
  BY <1>1 DEF Received, EC_NOFRAME

\* Every step of main, of slaveinfo and of the slaves keeps the types.
LEMMA TypeStep ==
    ASSUME TypeOK, MemoryInv, [Next]_vars
    PROVE  TypeOK'
<1>1. CASE InitNic
  BY <1>1 DEF InitNic, TypeOK, slaveVars
<1>2. CASE DetectSlaves
  <2>1. al' \in [Slave -> {"INIT", "PREOP", "SAFEOP", "OP"}]
    BY <1>2 DEF DetectSlaves, TypeOK
  <2>2. counted' \subseteq configured' /\ configured' \subseteq Slave
    <3>1. counted = {}
      BY <1>2 DEF DetectSlaves, MemoryInv
    <3> QED
      BY <1>2, <3>1 DEF DetectSlaves, TypeOK
  <2>3. err' \subseteq Slave /\ mapped' \subseteq Slave
    BY <1>2 DEF DetectSlaves, TypeOK
  <2> QED
    BY <1>2, <2>1, <2>2, <2>3 DEF DetectSlaves, TypeOK
<1>3. CASE ConfigureSlaves
  <2>1. al' \in [Slave -> {"INIT", "PREOP", "SAFEOP", "OP"}]
    BY <1>3 DEF ConfigureSlaves, TypeOK
  <2>2. err' \subseteq Slave /\ mapped' \subseteq Slave /\ counted' \subseteq configured'
    BY <1>3 DEF ConfigureSlaves, TypeOK
  <2> QED
    BY <1>3, <2>1, <2>2 DEF ConfigureSlaves, TypeOK
<1>4. CASE CreateMemory
  BY <1>4, StateCheckType DEF CreateMemory, TypeOK, slaveVars, AlState
<1>5. CASE RequestOp
  BY <1>5, MasterAssumption DEF RequestOp, TypeOK
<1>6. CASE WaitOp
  BY <1>6, StateCheckType, MasterAssumption DEF WaitOp, TypeOK, slaveVars, AlState
<1>7. ASSUME NEW lost \in BOOLEAN, Exchange(lost)
      PROVE  TypeOK'
  <2>1. gave' \in [Slave -> 0 .. 3]
    BY <1>7, AddsType DEF Exchange
  <2> QED
    BY <1>7, <2>1, ReceivedType DEF Exchange, TypeOK, slaveVars
<1>8. CASE Copy
  BY <1>8 DEF Copy, TypeOK, slaveVars
<1>9. ASSUME NEW k \in Slave, EnterOp(k) \/ FallBack(k) \/ Unplug(k) \/ ComeBack(k)
      PROVE  TypeOK'
  BY <1>9, MasterAssumption DEF EnterOp, FallBack, Unplug, ComeBack, Fault, TypeOK, mainVars
<1>10. CASE Prepare
  BY <1>10 DEF Prepare, TypeOK, slaveVars
<1>11. CASE UNCHANGED vars
  BY <1>11 DEF vars, TypeOK
<1> QED
  BY <1>1, <1>2, <1>3, <1>4, <1>5, <1>6, <1>7, <1>8, <1>9, <1>10, <1>11
     DEF Next, Main, Startup, Slaves

\* Every state is of the type of the module: no sequence of failures leaves a counter
\* below EC_NOFRAME or maps a slave that was not found.
THEOREM TypeCorrect == Safety => []TypeOK
<1>1. ASSUME Init PROVE TypeOK
  <2>1. al \in [Slave -> {"INIT", "PREOP", "SAFEOP", "OP"}] /\ mapped \subseteq Slave
    BY <1>1 DEF Init
  <2>2. gave \in [Slave -> 0 .. 3]
    BY <1>1 DEF Init
  <2>3. chk \in 0 .. MaxChk /\ faults \in 0 .. MaxFault /\ wkc >= EC_NOFRAME
    BY <1>1, MasterAssumption DEF Init, EC_NOFRAME
  <2>4. socket \in BOOLEAN /\ pEcm \in BOOLEAN
    BY <1>1, Zenon DEF Init
  <2>5. /\ pc = "prepare" /\ state0 = "none" /\ wkc = 0
        /\ configured = {} /\ counted = {} /\ err = {} /\ asked = {} /\ present \subseteq Slave
    BY <1>1 DEF Init
  <2> QED
    BY <2>1, <2>2, <2>3, <2>4, <2>5 DEF TypeOK
<1> QED
  BY <1>1, TypeStep, MemoryInvariant, PTL DEF Safety

----------------------------------------------------------------------------
(* The working counter.                                                    *)

\* The share of the counted slaves in a set of slaves.
Expected(s) == 2 * Cardinality(s \cap counted \cap Outputs) + Cardinality(s \cap counted \cap Inputs)

\* One slave more adds its share.
LEMMA ExpectedGrows ==
    ASSUME NEW s \in SUBSET Slave, NEW x \in s
    PROVE  /\ Expected(s) \in Nat /\ Expected(s \ {x}) \in Nat
           /\ Expected(s) = Expected(s \ {x}) + (IF x \in counted THEN Share(x) ELSE 0)
<1> DEFINE O == s \cap counted \cap Outputs
           I == s \cap counted \cap Inputs
<1>1. IsFiniteSet(O) /\ IsFiniteSet(I)
  BY MasterAssumption, FS_Subset
<1>2. (s \ {x}) \cap counted \cap Outputs = O \ {x} /\ (s \ {x}) \cap counted \cap Inputs = I \ {x}
  OBVIOUS
<1>3. /\ x \in O <=> x \in counted /\ x \in Outputs
      /\ x \in I <=> x \in counted /\ x \in Inputs
  OBVIOUS
<1>4. Expected(s) = 2 * Cardinality(O) + Cardinality(I)
  BY DEF Expected
<1>5. Expected(s \ {x}) = 2 * Cardinality(O \ {x}) + Cardinality(I \ {x})
  BY <1>2 DEF Expected
<1> HIDE DEF O, I
<1>6. /\ Cardinality(O) \in Nat /\ Cardinality(I) \in Nat
      /\ Cardinality(O \ {x}) \in Nat /\ Cardinality(I \ {x}) \in Nat
      /\ Cardinality(O \ {x}) = IF x \in O THEN Cardinality(O) - 1 ELSE Cardinality(O)
      /\ Cardinality(I \ {x}) = IF x \in I THEN Cardinality(I) - 1 ELSE Cardinality(I)
  BY <1>1, FS_RemoveElement, FS_CardinalityType
<1> QED
  BY <1>3, <1>4, <1>5, <1>6 DEF Share

\* A slave adds its share at most.
LEMMA AddsBound == \A k \in Slave : Adds(k) <= Share(k) /\ Share(k) \in Nat
BY DEF Adds, Share

\* When nobody else adds to it, a complete counter has the whole share of every slave
\* counted: no slave makes up for another.
LEMMA CompleteCounter ==
    ASSUME TypeOK, \A k \in Slave \ counted : Adds(k) = 0,
           MapThenSumSet(Adds, Slave) >= ExpectedWKC
    PROVE  \A k \in counted : Adds(k) = Share(k)
<1>0. \A k \in Slave : Adds(k) \in Nat
  BY AddsType
<1>1. PICK g \in [SUBSET Slave -> Nat] :
         /\ MapThenSumSet(Adds, Slave) = g[Slave]
         /\ g[{}] = 0
         /\ \A s \in SUBSET Slave : s # {} => \E x \in s : g[s] = Adds(x) + g[s \ {x}]
  BY <1>0, SumOverSlaves, Zenon
<1> DEFINE Q == {s \in SUBSET Slave :
                    /\ g[s] <= Expected(s)
                    /\ g[s] = Expected(s) => \A k \in s \cap counted : Adds(k) = Share(k)}
<1>2. {} \in Q
  <2>1. Expected({}) = 0
    <3>1. {} \cap counted \cap Outputs = {} /\ {} \cap counted \cap Inputs = {}
      OBVIOUS
    <3> QED
      BY <3>1, FS_EmptySet DEF Expected
  <2> QED
    BY <1>1, <2>1
<1>3. ASSUME NEW s \in SUBSET Slave, s # {}, \A x \in s : s \ {x} \in Q
      PROVE  s \in Q
  <2>1. PICK x \in s : g[s] = Adds(x) + g[s \ {x}]
    BY <1>1, <1>3
  <2>2. /\ g[s \ {x}] <= Expected(s \ {x})
        /\ g[s \ {x}] = Expected(s \ {x}) => \A k \in (s \ {x}) \cap counted : Adds(k) = Share(k)
    BY <1>3
  <2>3. /\ Expected(s) \in Nat /\ Expected(s \ {x}) \in Nat
        /\ Expected(s) = Expected(s \ {x}) + (IF x \in counted THEN Share(x) ELSE 0)
    BY ExpectedGrows
  <2>4. /\ Adds(x) \in Nat /\ Share(x) \in Nat /\ g[s \ {x}] \in Nat
        /\ Adds(x) <= IF x \in counted THEN Share(x) ELSE 0
    BY AddsType, AddsBound, <1>1
  <2>5. g[s] <= Expected(s)
    BY <2>1, <2>2, <2>3, <2>4
  <2>6. g[s] = Expected(s) => /\ g[s \ {x}] = Expected(s \ {x})
                              /\ Adds(x) = IF x \in counted THEN Share(x) ELSE 0
    BY <2>1, <2>2, <2>3, <2>4
  <2>7. g[s] = Expected(s) => \A k \in s \cap counted : Adds(k) = Share(k)
    BY <2>2, <2>6
  <2> QED
    BY <2>5, <2>7
<1>4. Slave \in Q
  <2> HIDE DEF Q
  <2> QED
    BY <1>2, <1>3, SubsetInduction, MasterAssumption
<1>5. counted \subseteq Slave
  BY DEF TypeOK
<1>6. Expected(Slave) = ExpectedWKC
  <2>1. Slave \cap counted = counted
    BY <1>5
  <2> QED
    BY <2>1 DEF Expected, ExpectedWKC
<1>7. g[Slave] \in Nat /\ ExpectedWKC \in Nat
  <2>1. IsFiniteSet(counted \cap Outputs) /\ IsFiniteSet(counted \cap Inputs)
    BY MasterAssumption, FS_Subset
  <2> QED
    BY <1>1, <2>1, FS_CardinalityType DEF ExpectedWKC
<1>8. g[Slave] = Expected(Slave)
  BY <1>1, <1>4, <1>6, <1>7
<1> QED
  BY <1>4, <1>5, <1>8

\* An exchange is used only when every slave with mapped data took part with all of
\* it, for every number of slaves and every way their shares may add up.
THEOREM CompleteExchange == Safety => []CopiesCompleteExchange
<1>1. Init => CopiesCompleteExchange
  BY DEF Init, CopiesCompleteExchange
<1>2. TypeOK /\ CopiesCompleteExchange /\ [Next]_vars => CopiesCompleteExchange'
  <2>1. SUFFICES ASSUME TypeOK, CopiesCompleteExchange, [Next]_vars
                 PROVE  CopiesCompleteExchange'
    OBVIOUS
  <2>2. ASSUME NEW lost \in BOOLEAN, Exchange(lost), pc' = "copy",
               \A k \in Slave \ counted : gave'[k] = 0
        PROVE  \A k \in counted : gave'[k] = Share(k)
    <3>1. wkc' = Received(lost) /\ ~ (wkc' < ExpectedWKC)
      BY <2>2 DEF Exchange
    <3>2. ExpectedWKC \in Nat
      <4>1. IsFiniteSet(counted \cap Outputs) /\ IsFiniteSet(counted \cap Inputs)
        BY MasterAssumption, FS_Subset
      <4> QED
        BY <4>1, FS_CardinalityType DEF ExpectedWKC
    <3>3. wkc' # EC_NOFRAME /\ wkc' \in Int
      BY <3>1, <3>2, ReceivedType DEF EC_NOFRAME
    <3>4. wkc' = MapThenSumSet(Adds, Slave)
      BY <3>1, <3>3 DEF Received
    <3>5. \A k \in Slave : gave'[k] = Adds(k)
      BY <2>2, <3>3 DEF Exchange
    <3>6. MapThenSumSet(Adds, Slave) >= ExpectedWKC
      BY <3>1, <3>2, <3>3, <3>4
    <3>7. \A k \in counted : Adds(k) = Share(k)
      BY <2>1, <2>2, <3>5, <3>6, CompleteCounter
    <3> QED
      BY <2>1, <3>5, <3>7 DEF TypeOK
  <2>3. ASSUME NEW lost \in BOOLEAN, Exchange(lost)
        PROVE  CopiesCompleteExchange'
    <3>1. counted' = counted
      BY <2>3 DEF Exchange
    <3> QED
      BY <2>2, <2>3, <3>1 DEF CopiesCompleteExchange, Share
  <2>4. CASE Startup \/ WaitOp \/ Copy
    <3>1. pc' # "copy"
      BY <2>4 DEF Startup, Prepare, InitNic, DetectSlaves, ConfigureSlaves, CreateMemory,
                  RequestOp, WaitOp, Copy
    <3> QED
      BY <3>1 DEF CopiesCompleteExchange
  <2>5. CASE Slaves \/ UNCHANGED vars
    <3>1. UNCHANGED <<pc, counted, gave>>
      BY <2>5 DEF Slaves, EnterOp, FallBack, Unplug, ComeBack, mainVars, vars
    <3> QED
      BY <2>1, <3>1 DEF CopiesCompleteExchange, Share
  <2> QED
    BY <2>1, <2>3, <2>4, <2>5 DEF Next, Main
<1> QED
  BY <1>1, <1>2, TypeCorrect, PTL DEF Safety
=============================================================================
