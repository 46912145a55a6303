-------------------------- MODULE EcatCheckProofs --------------------------
(***************************************************************************)
(* Proofs about the supervision thread, for every number of slaves, of     *)
(* faults and of lost frames, and with or without the globals set.         *)
(***************************************************************************)
EXTENDS EcatCheck, FoldTheorems, TLAPS

\* The requests the thread makes of a slave.
Requests == {INIT, PRE_OP, SAFE_OP, OPERATIONAL, SAFE_OP + ERROR}

\* A slave answers a request with a state it can be in.
LEMMA AlControlType ==
    ASSUME NEW a \in AlStates, NEW request \in Requests, NEW refuse \in BOOLEAN
    PROVE  AlControl(a, request, refuse) \in AlStates
<1> USE DEF INIT, PRE_OP, SAFE_OP, OPERATIONAL, ERROR
<1>1. request % 16 \in {1, 2, 4, 8} /\ a % 16 \in {1, 2, 4, 8}
  BY DEF Requests, AlStates
<1>2. a % 16 = 8 => request % 16 <= a % 16
  BY <1>1
<1> QED
  BY <1>1, <1>2 DEF AlControl, AlStates

\* The slaves a frame reaches are slaves.
LEMMA ReachedType ==
    ASSUME NEW a, NEW ok
    PROVE  Reached(a, ok) \in SUBSET (1 .. NumSlaves)
  BY DEF Reached, SlaveId

\* Reading the status at an address gives a state, or zero.
LEMMA AlStatusType ==
    ASSUME TypeOK, NEW k \in SlaveId, NEW ok \in BOOLEAN
    PROVE  AlStatus(k, ok) \in AlStates \cup {NONE}
<1>1. CASE Reached(k, ok) = {}
  BY <1>1 DEF AlStatus
<1>2. CASE Reached(k, ok) # {}
  <2>1. Max(Reached(k, ok)) \in SlaveId
    BY <1>2, ReachedType, MaxIn, CheckAssumption DEF SlaveId
  <2> QED
    BY <1>2, <2>1 DEF AlStatus, TypeOK
<1> QED
  BY <1>1, <1>2

\* What a request does to the status registers.
LEMMA WriteStateType ==
    ASSUME TypeOK, NEW k \in SlaveId, NEW request \in Requests,
           NEW ok \in BOOLEAN, NEW refusing,
           WriteState(k, request, ok, refusing)
    PROVE  /\ al' \in [SlaveId -> AlStates]
           /\ faults' \in 0 .. MaxFault
<1>1. al \in [SlaveId -> AlStates] /\ faults \in 0 .. MaxFault
  BY DEF TypeOK
<1>2. \A j \in SlaveId : AlControl(al[j], request, j \in refusing) \in AlStates
  <2>1. TAKE j \in SlaveId
  <2>2. (j \in refusing) \in BOOLEAN /\ al[j] \in AlStates
    BY <1>1
  <2> QED
    BY <2>2, AlControlType
<1>3. al' \in [SlaveId -> AlStates]
  BY <1>1, <1>2 DEF WriteState
<1> QED
  BY <1>1, <1>3, CheckAssumption DEF WriteState, Fault

\* The same of a request whose result is not looked at.
LEMMA WriteSentType ==
    ASSUME TypeOK, NEW k \in SlaveId, NEW request \in Requests, WriteSent(k, request)
    PROVE  /\ al' \in [SlaveId -> AlStates]
           /\ faults' \in 0 .. MaxFault /\ lostFrames' \in 0 .. MaxLost
<1>1. PICK ok \in BOOLEAN : \E refusing \in SUBSET Reached(k, ok) :
         Frame(ok) /\ WriteState(k, request, ok, refusing)
  BY DEF WriteSent
<1>2. PICK refusing : Frame(ok) /\ WriteState(k, request, ok, refusing)
  BY <1>1
<1>3. lostFrames' \in 0 .. MaxLost
  BY <1>2, CheckAssumption DEF Frame, TypeOK
<1> QED
  BY <1>2, <1>3, WriteStateType

\* The station addresses stay addresses.
LEMMA WriteAddressType ==
    ASSUME TypeOK, NEW new \in SlaveId \cup {0}, NEW ok, WriteAddress(EC_TEMPNODE, new, ok)
    PROVE  addr' \in [SlaveId -> SlaveId \cup {0, EC_TEMPNODE}]
  BY DEF TypeOK, WriteAddress

\* Reading the slaves gives states; BOOT is one the slaves are not in.
LEMMA ReadStateType ==
    ASSUME TypeOK, NEW all \in BOOLEAN, NEW ok \in BOOLEAN, ReadState(all, ok)
    PROVE  state' \in [SlaveId -> AlStates \cup {NONE, BOOT}]
<1>1. CASE all /\ linked = NumSlaves /\ Together # {}
  <2>1. PICK a \in Together : state' = [k \in SlaveId |-> a]
    BY <1>1 DEF ReadState
  <2>2. a \in AlStates \cup {BOOT}
    BY <2>1 DEF Together, TypeOK
  <2> QED
    BY <2>1, <2>2
<1>2. CASE ~(all /\ linked = NumSlaves /\ Together # {})
  <2>1. \A k \in SlaveId : AlStatus(k, ok) \in AlStates \cup {NONE}
    BY AlStatusType
  <2> QED
    BY <1>2, <2>1 DEF ReadState
<1> QED
  BY <1>1, <1>2

\* The loop over the slaves stays among the slaves.
LEMMA NextSlaveType ==
    ASSUME slave \in SlaveId, NextSlave
    PROVE  slave' \in SlaveId /\ pc' \in {"slave", "sleep"}
  BY CheckAssumption DEF NextSlave, SlaveId

\* Typing is preserved by every step of the thread, of the exchanges and of the bus.
LEMMA TypeStep ==
    ASSUME TypeOK, [Next]_vars
    PROVE  TypeOK'
<1> USE CheckAssumption
<1>1. CASE ThreadCreate
  BY <1>1 DEF ThreadCreate, Fault, busVars, TypeOK
<1>2. CASE Wake
  <2>1. PICK all \in BOOLEAN, ok \in BOOLEAN : Frame(all /\ ok) /\ ReadState(all, ok)
    BY <1>2 DEF Wake
  <2>2. state' \in [SlaveId -> AlStates \cup {NONE, BOOT}]
    BY <2>1, ReadStateType
  <2>3. lostFrames' \in 0 .. MaxLost
    BY <2>1 DEF Frame, TypeOK
  <2>4. slave' \in SlaveId
    BY <1>2 DEF Wake, SlaveId
  <2> QED
    BY <1>2, <2>2, <2>3, <2>4 DEF Wake, busVars, TypeOK
<1>3. ASSUME NEW k \in SlaveId, Acknowledge(k)
      PROVE  TypeOK'
  <2>1. WriteSent(k, SAFE_OP + ERROR)
    BY <1>3 DEF Acknowledge
  <2>2. al' \in [SlaveId -> AlStates] /\ faults' \in 0 .. MaxFault /\ lostFrames' \in 0 .. MaxLost
    BY <2>1, WriteSentType DEF Requests
  <2> QED
    BY <1>3, <2>2 DEF Acknowledge, TypeOK
<1>4. ASSUME NEW k \in SlaveId, Advance(k)
      PROVE  TypeOK'
  <2>1. WriteSent(k, OPERATIONAL)
    BY <1>4 DEF Advance
  <2>2. al' \in [SlaveId -> AlStates] /\ faults' \in 0 .. MaxFault /\ lostFrames' \in 0 .. MaxLost
    BY <2>1, WriteSentType DEF Requests
  <2>3. state' \in [SlaveId -> AlStates \cup {NONE, BOOT}]
    BY <1>4 DEF Advance, TypeOK, AlStates
  <2> QED
    BY <1>4, <2>2, <2>3 DEF Advance, TypeOK
<1>5. ASSUME NEW k \in SlaveId, Reconfigure(k)
      PROVE  TypeOK'
  <2>1. PICK arrived \in BOOLEAN, answered \in BOOLEAN :
           /\ Frame(answered) /\ WriteState(k, INIT, arrived, {})
           /\ pc' = IF Reached(k, answered) # {} THEN "init" ELSE "lost"
    BY <1>5 DEF Reconfigure
  <2>2. al' \in [SlaveId -> AlStates] /\ faults' \in 0 .. MaxFault
    BY <2>1, WriteStateType DEF Requests
  <2>3. lostFrames' \in 0 .. MaxLost
    BY <2>1 DEF Frame, TypeOK
  <2> QED
    BY <1>5, <2>1, <2>2, <2>3 DEF Reconfigure, TypeOK
<1>6. ASSUME NEW k \in SlaveId, Recheck(k)
      PROVE  TypeOK'
  <2>1. PICK ok \in BOOLEAN :
          /\ Frame(ok)
          /\ state' = [state EXCEPT ![k] = AlStatus(k, ok)]
          /\ islost' = IF AlStatus(k, ok) = NONE THEN islost \cup {k} ELSE islost
    BY <1>6 DEF Recheck
  <2>2. state' \in [SlaveId -> AlStates \cup {NONE, BOOT}]
    BY <2>1, AlStatusType DEF TypeOK
  <2>3. islost' \subseteq SlaveId /\ lostFrames' \in 0 .. MaxLost
    BY <2>1 DEF Frame, TypeOK
  <2> QED
    BY <1>6, <2>2, <2>3 DEF Recheck, busVars, TypeOK
<1>7. ASSUME NEW k \in SlaveId, Pass(k)
      PROVE  TypeOK'
  BY <1>7 DEF Pass, busVars, TypeOK
<1>8. CASE ReconfigSlave
  <2>1. ASSUME NEW at \in {"init", "preop"}, NEW want \in {INIT, PRE_OP},
               NEW next \in {"sm", "safe"}, StateCheck(at, want, next)
        PROVE  TypeOK'
    <3>1. PICK ok \in BOOLEAN :
            /\ Frame(ok)
            /\ state' = [state EXCEPT ![slave] = AlStatus(slave, ok)]
            /\ IF AlStatus(slave, ok) % ERROR = want
               THEN pc' = next /\ UNCHANGED islost
               ELSE Return(AlStatus(slave, ok))
      BY <2>1 DEF StateCheck
    <3>2. AlStatus(slave, ok) \in AlStates \cup {NONE}
      BY AlStatusType DEF TypeOK
    <3>3. state' \in [SlaveId -> AlStates \cup {NONE, BOOT}]
      BY <3>1, <3>2 DEF TypeOK
    <3>4. /\ islost' \subseteq SlaveId /\ lostFrames' \in 0 .. MaxLost
          /\ pc' \in {"sm", "safe", "lost"}
      BY <3>1 DEF Return, Frame, TypeOK
    <3> QED
      BY <2>1, <3>3, <3>4 DEF StateCheck, busVars, TypeOK
  <2>2. ASSUME NEW at \in {"sm", "safe"}, NEW request \in {PRE_OP, SAFE_OP},
               NEW next \in {"preop", "safeop"}, Request(at, request, next)
        PROVE  TypeOK'
    <3>1. WriteSent(slave, request)
      BY <2>2 DEF Request
    <3>2. al' \in [SlaveId -> AlStates] /\ faults' \in 0 .. MaxFault /\ lostFrames' \in 0 .. MaxLost
      BY <3>1, WriteSentType DEF Requests, TypeOK
    <3> QED
      BY <2>2, <3>2 DEF Request, TypeOK
  <2>3. CASE ProgramFmmu
    <3>1. PICK ok \in BOOLEAN, fmmu \in BOOLEAN :
            /\ Frame(ok /\ fmmu)
            /\ state' = [state EXCEPT ![slave] = AlStatus(slave, ok)]
            /\ Return(AlStatus(slave, ok))
            /\ mapped' = mapped \cup Reached(slave, fmmu)
            /\ dropped' = IF Reached(slave, fmmu) = {}
                          THEN dropped \cup {slave} ELSE dropped \ Reached(slave, fmmu)
      BY <2>3 DEF ProgramFmmu
    <3>2. state' \in [SlaveId -> AlStates \cup {NONE, BOOT}]
      BY <3>1, AlStatusType DEF TypeOK
    <3>3. /\ islost' \subseteq SlaveId /\ lostFrames' \in 0 .. MaxLost /\ pc' = "lost"
          /\ mapped' \subseteq SlaveId /\ dropped' \subseteq SlaveId
      BY <3>1 DEF Return, Frame, Reached, TypeOK
    <3> QED
      BY <2>3, <3>2, <3>3 DEF ProgramFmmu, TypeOK
  <2> QED
    BY <1>8, <2>1, <2>2, <2>3 DEF ReconfigSlave
<1>9. CASE RecoverSlave
  <2>1. CASE Recover
    <3>1. islost' \subseteq SlaveId /\ lostFrames' \in 0 .. MaxLost
      BY <2>1 DEF Recover, Frame, TypeOK
    <3>2. slave' \in SlaveId /\ pc' \in {"clear", "slave", "sleep"}
      BY <2>1, NextSlaveType DEF Recover, TypeOK
    <3> QED
      BY <2>1, <3>1, <3>2 DEF Recover, busVars, TypeOK
  <2>2. ASSUME NEW ok \in BOOLEAN, Frame(ok), WriteAddress(EC_TEMPNODE, 0, ok),
               UNCHANGED <<docheck, state, islost, low, linked, al, mapped, dropped,
                           doubled, faults>>,
               slave' \in SlaveId, pc' \in {"temp", "slave", "sleep"}
        PROVE  TypeOK'
    <3>1. addr' \in [SlaveId -> SlaveId \cup {0, EC_TEMPNODE}]
      BY <2>2, WriteAddressType
    <3>2. lostFrames' \in 0 .. MaxLost
      BY <2>2 DEF Frame, TypeOK
    <3> QED
      BY <2>2, <3>1, <3>2 DEF TypeOK
  <2>3. CASE SetTemp
    <3>1. /\ addr' \in [SlaveId -> SlaveId \cup {0, EC_TEMPNODE}]
          /\ lostFrames' \in 0 .. MaxLost /\ pc' \in {"identity", "undo"}
      BY <2>3 DEF SetTemp, Frame, TypeOK
    <3> QED
      BY <2>3, <3>1 DEF SetTemp, TypeOK
  <2>4. CASE Identify
    <3>1. lostFrames' \in 0 .. MaxLost /\ pc' \in {"assign", "undo"}
      BY <2>4 DEF Identify, Frame, TypeOK
    <3> QED
      BY <2>4, <3>1 DEF Identify, busVars, TypeOK
  <2>5. CASE Assign
    <3>1. PICK arrived \in BOOLEAN, answered \in BOOLEAN :
            /\ Frame(answered)
            /\ WriteAddress(EC_TEMPNODE, slave, arrived)
            /\ doubled' = IF Reached(EC_TEMPNODE, arrived) \subseteq {slave} THEN doubled
                          ELSE doubled \cup Reached(EC_TEMPNODE, arrived) \cup {slave}
            /\ islost' = IF answered /\ Reached(EC_TEMPNODE, arrived) = {}
                         THEN islost ELSE islost \ {slave}
      BY <2>5 DEF Assign
    <3>2. addr' \in [SlaveId -> SlaveId \cup {0, EC_TEMPNODE}]
      BY <3>1, WriteAddressType DEF TypeOK
    <3>3. /\ lostFrames' \in 0 .. MaxLost /\ islost' \subseteq SlaveId
          /\ doubled' \subseteq SlaveId
      BY <3>1 DEF Frame, Reached, TypeOK
    <3> QED
      BY <2>5, <3>2, <3>3, NextSlaveType DEF Assign, TypeOK
  <2>6. CASE ClearTemp("clear", pc' = "temp" /\ UNCHANGED slave)
    <3>1. slave' \in SlaveId /\ pc' = "temp"
      BY <2>6 DEF ClearTemp, TypeOK
    <3> QED
      BY <2>6, <3>1, <2>2 DEF ClearTemp
  <2>7. CASE ClearTemp("undo", NextSlave)
    <3>1. slave' \in SlaveId /\ pc' \in {"slave", "sleep"}
      BY <2>7, NextSlaveType DEF ClearTemp, TypeOK
    <3> QED
      BY <2>7, <3>1, <2>2 DEF ClearTemp
  <2> QED
    BY <1>9, <2>1, <2>3, <2>4, <2>5, <2>6, <2>7 DEF RecoverSlave
<1>10. CASE Found
  BY <1>10, NextSlaveType DEF Found, busVars, TypeOK
<1>11. CASE Exchange
  BY <1>11 DEF Exchange, Frame, threadVars, busVars, TypeOK
<1>12. CASE Bus
  <2>1. ASSUME NEW k \in SlaveId, FallBack(k)
        PROVE  TypeOK'
    BY <2>1 DEF FallBack, Fault, threadVars, TypeOK, AlStates
  <2>2. ASSUME NEW n \in 0 .. NumSlaves, Cut(n)
        PROVE  TypeOK'
    BY <2>2 DEF Cut, Fault, threadVars, TypeOK
  <2>3. ASSUME NEW n \in SlaveId, NEW off \in SUBSET SlaveId, Restore(n, off)
        PROVE  TypeOK'
    <3>1. /\ al' \in [SlaveId -> AlStates]
          /\ addr' \in [SlaveId -> SlaveId \cup {0, EC_TEMPNODE}]
      BY <2>3 DEF Restore, TypeOK, AlStates
    <3> QED
      BY <2>3, <3>1 DEF Restore, threadVars, TypeOK, SlaveId
  <2> QED
    BY <1>12, <2>1, <2>2, <2>3 DEF Bus, SlaveId, TypeOK
<1>13. CASE UNCHANGED vars
  BY <1>13 DEF vars, TypeOK
<1> QED
  BY <1>1, <1>2, <1>3, <1>4, <1>5, <1>6, <1>7, <1>8, <1>9, <1>10, <1>11, <1>12, <1>13
     DEF Next, Thread

\* The thread and the slaves keep their types; a slave is never in OP with an error.
THEOREM TypeCorrect == Safety => []TypeOK
<1>1. Init => TypeOK
  <2>1. /\ 1 \in SlaveId /\ NumSlaves \in 0 .. NumSlaves
        /\ 0 \in 0 .. MaxFault /\ 0 \in 0 .. MaxLost
    BY CheckAssumption DEF SlaveId
  <2>2. OPERATIONAL \in AlStates /\ \A k \in SlaveId : k \in SlaveId \cup {0, EC_TEMPNODE}
    BY DEF AlStates
  <2> QED
    BY <2>1, <2>2 DEF Init, TypeOK
<1> QED
  BY <1>1, TypeStep, PTL DEF Safety

----------------------------------------------------------------------------
(* The thread's passes.                                                    *)

\* The thread is not in a pass.
Asleep == pc \in {"new", "failed", "sleep"}

\* What the end of the loop body leaves of slave k: it is in OP and not lost, or
\* another pass is asked for; a lost slave is not heard.
Settled(k) ==
    /\ ~docheck => state[k] = OPERATIONAL /\ k \notin islost
    /\ k \in islost => state[k] = NONE

\* Inside ec_recover_slave, behind its first frame.
Recovering == {"clear", "temp", "identity", "assign", "undo"}

\* The inductive invariant of a pass: the slaves behind the loop are settled, a slave
\* that gets anything but passed over has asked for another pass, and one that is
\* being recovered was not heard.
PassInv ==
    /\ \A k \in SlaveId : Asleep \/ k < slave => Settled(k)
    /\ pc = "lost" => docheck \/ state[slave] = OPERATIONAL
    /\ pc \in {"init", "sm", "preop", "safe", "safeop"} => docheck
    /\ pc \in Recovering => docheck /\ state[slave] = NONE

\* The slave the loop was at becomes the last one behind it, or was the last one.
LEMMA NextSlavePasses ==
    ASSUME slave \in SlaveId, NextSlave, NEW k \in SlaveId, Asleep' \/ k < slave'
    PROVE  k < slave \/ k = slave
  BY CheckAssumption DEF NextSlave, SlaveId, Asleep

\* A step that neither moves the loop nor touches the slaves behind it keeps PassInv
\* of those slaves.
LEMMA BehindFrame ==
    ASSUME PassInv, ~Asleep, ~Asleep', slave' = slave, docheck => docheck',
           \A k \in SlaveId : k < slave => state'[k] = state[k] /\ (k \in islost' <=> k \in islost)
    PROVE  \A k \in SlaveId : Asleep' \/ k < slave' => Settled(k)'
  BY DEF PassInv, Settled

\* PassInv is inductive, given the types.
LEMMA PassStep ==
    ASSUME TypeOK, PassInv, [Next]_vars
    PROVE  PassInv'
<1>1. slave \in Int /\ \A k \in SlaveId : k \in Int
  BY DEF TypeOK, SlaveId
<1>2. CASE ThreadCreate
  BY <1>2 DEF ThreadCreate, PassInv, Recovering, Settled, Asleep
<1>3. CASE Wake
  BY <1>3, <1>1 DEF Wake, PassInv, Recovering, Asleep, SlaveId
<1>4. ASSUME NEW k \in SlaveId, Acknowledge(k)
      PROVE  PassInv'
  <2>1. \A j \in SlaveId : Asleep' \/ j < slave' => Settled(j)'
    BY <1>4, BehindFrame DEF Acknowledge, Asleep
  <2> QED
    BY <1>4, <2>1 DEF Acknowledge, PassInv, Recovering
<1>5. ASSUME NEW k \in SlaveId, Advance(k)
      PROVE  PassInv'
  <2>1. \A j \in SlaveId : j < slave => state'[j] = state[j]
    BY <1>5, <1>1 DEF Advance, TypeOK
  <2>2. \A j \in SlaveId : Asleep' \/ j < slave' => Settled(j)'
    BY <1>5, <2>1, BehindFrame DEF Advance, Asleep
  <2> QED
    BY <1>5, <2>2 DEF Advance, PassInv, Recovering
<1>6. ASSUME NEW k \in SlaveId, Reconfigure(k)
      PROVE  PassInv'
  <2>1. pc' \in {"init", "lost"}
    BY <1>6 DEF Reconfigure
  <2>2. \A j \in SlaveId : Asleep' \/ j < slave' => Settled(j)'
    BY <1>6, <2>1, BehindFrame DEF Reconfigure, Asleep
  <2> QED
    BY <1>6, <2>1, <2>2 DEF Reconfigure, PassInv, Recovering
<1>7. ASSUME NEW k \in SlaveId, Recheck(k)
      PROVE  PassInv'
  <2>1. \A j \in SlaveId : j < slave => state'[j] = state[j] /\ (j \in islost' <=> j \in islost)
    BY <1>7, <1>1 DEF Recheck, TypeOK
  <2>2. \A j \in SlaveId : Asleep' \/ j < slave' => Settled(j)'
    BY <1>7, <2>1, BehindFrame DEF Recheck, Asleep
  <2> QED
    BY <1>7, <2>2 DEF Recheck, PassInv, Recovering
<1>8. ASSUME NEW k \in SlaveId, Pass(k)
      PROVE  PassInv'
  <2>1. \A j \in SlaveId : Asleep' \/ j < slave' => Settled(j)'
    BY <1>8, BehindFrame DEF Pass, Asleep
  <2> QED
    BY <1>8, <2>1 DEF Pass, PassInv, Recovering
<1>9. CASE ReconfigSlave
  <2>1. ASSUME NEW at \in {"init", "preop"}, NEW want, NEW next \in {"sm", "safe"},
               StateCheck(at, want, next)
        PROVE  PassInv'
    <3>1. /\ pc' \in {"sm", "safe", "lost"}
          /\ \A j \in SlaveId : j < slave =>
                state'[j] = state[j] /\ (j \in islost' <=> j \in islost)
      BY <2>1, <1>1 DEF StateCheck, Return, TypeOK
    <3>2. docheck /\ UNCHANGED <<slave, docheck>>
      BY <2>1 DEF StateCheck, PassInv, Recovering
    <3>3. \A j \in SlaveId : Asleep' \/ j < slave' => Settled(j)'
      BY <2>1, <3>1, <3>2, BehindFrame DEF StateCheck, Asleep
    <3> QED
      BY <3>1, <3>2, <3>3 DEF PassInv, Recovering
  <2>2. ASSUME NEW at \in {"sm", "safe"}, NEW request, NEW next \in {"preop", "safeop"},
               Request(at, request, next)
        PROVE  PassInv'
    <3>1. \A j \in SlaveId : Asleep' \/ j < slave' => Settled(j)'
      BY <2>2, BehindFrame DEF Request, Asleep
    <3> QED
      BY <2>2, <3>1 DEF Request, PassInv, Recovering
  <2>3. CASE ProgramFmmu
    <3>1. /\ pc' = "lost"
          /\ \A j \in SlaveId : j < slave =>
                state'[j] = state[j] /\ (j \in islost' <=> j \in islost)
      BY <2>3, <1>1 DEF ProgramFmmu, Return, TypeOK
    <3>2. docheck /\ UNCHANGED <<slave, docheck>>
      BY <2>3 DEF ProgramFmmu, PassInv, Recovering
    <3>3. \A j \in SlaveId : Asleep' \/ j < slave' => Settled(j)'
      BY <2>3, <3>1, <3>2, BehindFrame DEF ProgramFmmu, Asleep
    <3> QED
      BY <3>1, <3>2, <3>3 DEF PassInv, Recovering
  <2> QED
    BY <1>9, <2>1, <2>2, <2>3 DEF ReconfigSlave
<1>10. ASSUME NextSlave, UNCHANGED <<docheck, state>>, ~Asleep,
              docheck \/ state[slave] = OPERATIONAL,
              \A j \in SlaveId : j # slave => (j \in islost' <=> j \in islost),
              slave \in islost' => state[slave] = NONE /\ slave \in islost
       PROVE  PassInv'
  <2>2. pc' \in {"slave", "sleep"}
    BY <1>10, NextSlaveType DEF TypeOK
  <2>3. ASSUME NEW j \in SlaveId, Asleep' \/ j < slave'
        PROVE  Settled(j)'
    <3>1. CASE j < slave
      <4>1. Settled(j)
        BY <3>1 DEF PassInv, Recovering
      <4> QED
        BY <4>1, <3>1, <1>10, <1>1 DEF Settled
    <3>2. CASE j = slave
      <4>1. OPERATIONAL # NONE
        BY DEF OPERATIONAL, NONE
      <4> QED
        BY <4>1, <3>2, <1>10 DEF Settled
    <3> QED
      BY <1>10, <2>3, <3>1, <3>2, NextSlavePasses DEF TypeOK
  <2> QED
    BY <2>2, <2>3 DEF PassInv, Recovering
<1>13. CASE Found
  <2>1. ~Asleep /\ (docheck \/ state[slave] = OPERATIONAL)
    BY <1>13 DEF Found, PassInv, Asleep
  <2> QED
    BY <1>13, <1>10, <2>1 DEF Found
<1>14. CASE RecoverSlave
  <2>1. OPERATIONAL # NONE
    BY DEF OPERATIONAL, NONE
  <2>2. CASE Recover
    <3>1. /\ ~Asleep /\ docheck /\ state[slave] = NONE /\ slave \in islost
          /\ UNCHANGED <<docheck, state>>
          /\ \A j \in SlaveId : j # slave => (j \in islost' <=> j \in islost)
          /\ NextSlave \/ (pc' = "clear" /\ UNCHANGED slave)
      BY <2>1, <2>2 DEF Recover, PassInv, Asleep
    <3>2. CASE pc' = "clear" /\ UNCHANGED slave
      <4>1. \A j \in SlaveId : j < slave => state'[j] = state[j] /\ (j \in islost' <=> j \in islost)
        BY <3>1, <1>1
      <4>2. \A j \in SlaveId : Asleep' \/ j < slave' => Settled(j)'
        BY <3>1, <3>2, <4>1, BehindFrame DEF Asleep
      <4> QED
        BY <3>1, <3>2, <4>2 DEF PassInv, Recovering
    <3> QED
      BY <3>1, <3>2, <1>10
  <2>3. ASSUME pc \in Recovering, pc' \in Recovering, UNCHANGED <<slave, docheck, state, islost>>
        PROVE  PassInv'
    <3>1. ~Asleep /\ ~Asleep'
      BY <2>3 DEF Recovering, Asleep
    <3>2. \A j \in SlaveId : Asleep' \/ j < slave' => Settled(j)'
      BY <2>3, <3>1, BehindFrame
    <3> QED
      BY <2>3, <3>2 DEF PassInv, Recovering
  <2>4. CASE ClearTemp("clear", pc' = "temp" /\ UNCHANGED slave) \/ SetTemp \/ Identify
    BY <2>3, <2>4 DEF ClearTemp, SetTemp, Identify, Recovering
  <2>5. CASE Assign \/ ClearTemp("undo", NextSlave)
    <3>1. /\ pc \in Recovering /\ NextSlave /\ UNCHANGED <<docheck, state>>
          /\ \A j \in SlaveId : j # slave => (j \in islost' <=> j \in islost)
          /\ slave \in islost' => slave \in islost
      BY <2>5 DEF Assign, ClearTemp, Recovering
    <3>2. ~Asleep /\ docheck /\ state[slave] = NONE
      BY <3>1 DEF PassInv, Recovering, Asleep
    <3> QED
      BY <3>1, <3>2, <1>10
  <2> QED
    BY <1>14, <2>2, <2>4, <2>5 DEF RecoverSlave
<1>11. ASSUME UNCHANGED threadVars
       PROVE  PassInv'
  BY <1>11 DEF threadVars, PassInv, Settled, Asleep
<1>12. Exchange \/ Bus \/ UNCHANGED vars => UNCHANGED threadVars
  BY DEF Exchange, Bus, FallBack, Cut, Restore, vars, threadVars
<1> QED
  BY <1>2, <1>3, <1>4, <1>5, <1>6, <1>7, <1>8, <1>9, <1>11, <1>12, <1>13, <1>14
     DEF Next, Thread

\* The invariant of a pass holds in every reachable state.
THEOREM PassesSettle == Safety => []PassInv
<1>1. Init => PassInv
  BY DEF Init, PassInv, Recovering, Settled, SlaveId
<1> QED
  BY <1>1, TypeCorrect, PassStep, PTL DEF Safety

\* The thread only goes back to sleep over a bus it holds for operational, or with
\* another pass asked for.
THEOREM NoSlaveLeftBehind == Safety => []NothingLeftBehind
<1>1. TypeOK /\ PassInv => NothingLeftBehind
  BY DEF TypeOK, PassInv, Settled, Asleep, NothingLeftBehind
<1> QED
  BY <1>1, TypeCorrect, PassesSettle, PTL

----------------------------------------------------------------------------
(* The FMMUs of a slave that may go to OP.                                 *)

\* The states a slave can be taken to OP from, and OP itself.
Ready == {SAFE_OP, OPERATIONAL, SAFE_OP + ERROR}

\* The loop has still to act on what it read of slave k.
Ahead(k) == ~Asleep /\ (k > slave \/ (k = slave /\ pc = "slave"))

\* A slave has its own address, none or the temporary one; where it has that of
\* another, both are known as doubled.
AddrInv ==
    \A k \in SlaveId :
        addr[k] \in {0, k, EC_TEMPNODE} \/ (k \in doubled /\ addr[k] \in doubled)

\* The slaves that have their own address for themselves, and the others outside
\* the mix-up.
Single == SlaveId \ doubled
Own == {k \in Single : addr[k] = k}

\* The inductive invariant of the FMMUs: a slave that is ready has been through
\* ProgramFmmu, unless it has just reached SAFE_OP and that is the very next step;
\* and what the loop read of the slaves ahead is not too good for those that still
\* have their address.
MapInv ==
    /\ AddrInv
    /\ \A k \in Single : al[k] \in Ready =>
          k \in mapped \cup dropped \/ (pc = "safeop" /\ k = slave /\ al[k] = SAFE_OP)
    /\ \A k \in Own :
          Ahead(k) /\ state[k] \in {SAFE_OP, SAFE_OP + ERROR} => al[k] \in Ready

\* A request for INIT or PRE_OP makes no slave ready that was not.
LEMMA NotMadeReady ==
    ASSUME NEW a \in AlStates, NEW request \in {INIT, PRE_OP}, NEW refuse \in BOOLEAN,
           AlControl(a, request, refuse) \in Ready
    PROVE  a \in Ready
<1> USE DEF INIT, PRE_OP, SAFE_OP, OPERATIONAL, ERROR
<1>1. request % 16 \in {1, 2} /\ request < 16
  OBVIOUS
<1>2. a \in {1, 2, 4, 8, 17, 18, 20} /\ a % 16 \in {1, 2, 4, 8}
  BY DEF AlStates
<1>3. a \in {17, 18} => AlControl(a, request, refuse) \in {1, a}
  BY <1>1, <1>2 DEF AlControl
<1>4. a = 1 => AlControl(a, request, refuse) \in {1, 2, 17}
  BY <1>1, <1>2 DEF AlControl
<1>5. a = 2 => AlControl(a, request, refuse) \in {1, 2}
  BY <1>1, <1>2 DEF AlControl
<1> QED
  BY <1>2, <1>3, <1>4, <1>5 DEF Ready

\* A request for SAFE_OP makes a slave ready by taking it to SAFE_OP.
LEMMA MadeReady ==
    ASSUME NEW a \in AlStates, NEW refuse \in BOOLEAN,
           AlControl(a, SAFE_OP, refuse) \in Ready, a \notin Ready
    PROVE  AlControl(a, SAFE_OP, refuse) = SAFE_OP
<1> USE DEF INIT, PRE_OP, SAFE_OP, OPERATIONAL, ERROR
<1>1. a \in {1, 2, 17, 18} /\ a % 16 \in {1, 2} /\ SAFE_OP % 16 = 4
  BY DEF AlStates, Ready
<1>2. a \in {17, 18} => AlControl(a, SAFE_OP, refuse) = a
  BY <1>1 DEF AlControl
<1>3. a = 1 => AlControl(a, SAFE_OP, refuse) = 17
  BY <1>1 DEF AlControl
<1>4. a = 2 => AlControl(a, SAFE_OP, refuse) \in {4, 18}
  BY <1>1 DEF AlControl
<1> QED
  BY <1>1, <1>2, <1>3, <1>4 DEF Ready

\* A frame to a configured address reaches nobody outside the mix-up but the slave
\* of that address, and only if it has it.
LEMMA ReachedSingle ==
    ASSUME TypeOK, AddrInv, NEW a \in SlaveId, NEW ok
    PROVE  /\ \A j \in Single : j \in Reached(a, ok) => j = a /\ a \in Own
           /\ a \in Single => Reached(a, ok) \subseteq {a}
<1>1. a # 0 /\ a # EC_TEMPNODE
  BY CheckAssumption DEF SlaveId, EC_TEMPNODE
<1>2. ASSUME NEW j \in SlaveId, j \in Reached(a, ok), j # a
      PROVE  j \in doubled /\ a \in doubled
  BY <1>1, <1>2 DEF AddrInv, Reached
<1>3. \A j \in Single : j \in Reached(a, ok) => j = a /\ a \in Own
  BY <1>2 DEF Single, Own, Reached
<1>4. a \in Single => Reached(a, ok) \subseteq {a}
  BY <1>2 DEF Single, Reached
<1> QED
  BY <1>3, <1>4

\* So its status is read from itself.
LEMMA StatusOwn ==
    ASSUME TypeOK, AddrInv, NEW k \in Single, NEW ok
    PROVE  AlStatus(k, ok) \in {al[k], NONE}
<1>1. k \in SlaveId /\ Reached(k, ok) \subseteq {k}
  BY ReachedSingle DEF Single
<1>2. CASE Reached(k, ok) = {}
  BY <1>2 DEF AlStatus
<1>3. CASE Reached(k, ok) # {}
  <2>1. Max(Reached(k, ok)) \in Reached(k, ok)
    BY <1>3, ReachedType, MaxIn, CheckAssumption
  <2> QED
    BY <1>1, <1>3, <2>1 DEF AlStatus
<1> QED
  BY <1>2, <1>3

\* And only the slave a request is for changes its status, and only if it has its
\* address.
LEMMA WriteStateOthers ==
    ASSUME TypeOK, AddrInv, NEW k \in SlaveId, NEW request, NEW ok, NEW refusing,
           WriteState(k, request, ok, refusing)
    PROVE  /\ \A j \in Single : j # k => al'[j] = al[j]
           /\ k \in Single /\ al'[k] # al[k] =>
                 /\ k \in Own
                 /\ \E refuse \in BOOLEAN : al'[k] = AlControl(al[k], request, refuse)
<1>1. \A j \in Single : j \in SlaveId /\ (j \in Reached(k, ok) => j = k /\ k \in Own)
  BY ReachedSingle DEF Single
<1>2. \A j \in SlaveId :
         al'[j] = IF j \in Reached(k, ok) THEN AlControl(al[j], request, j \in refusing) ELSE al[j]
  BY DEF WriteState
<1>3. (k \in refusing) \in BOOLEAN
  OBVIOUS
<1> QED
  BY <1>1, <1>2, <1>3

\* The same of a request whose result is not looked at.
LEMMA WriteSentOthers ==
    ASSUME TypeOK, AddrInv, NEW k \in SlaveId, NEW request, WriteSent(k, request)
    PROVE  /\ \A j \in Single : j # k => al'[j] = al[j]
           /\ k \in Single /\ al'[k] # al[k] =>
                 /\ k \in Own
                 /\ \E refuse \in BOOLEAN : al'[k] = AlControl(al[k], request, refuse)
<1>1. PICK ok \in BOOLEAN : \E refusing \in SUBSET Reached(k, ok) :
         WriteState(k, request, ok, refusing)
  BY DEF WriteSent
<1>2. PICK refusing : WriteState(k, request, ok, refusing)
  BY <1>1
<1> QED
  BY <1>2, WriteStateOthers

\* A step that moves the loop on or not at all, without new information about the
\* slaves ahead, keeps the second half of MapInv when those keep their status.
LEMMA AheadFrame ==
    ASSUME TypeOK, MapInv, TypeOK',
           \A k \in Own' :
              Ahead(k)' => /\ Ahead(k) /\ k \in Own
                           /\ state'[k] = state[k] /\ al'[k] = al[k]
    PROVE  \A k \in Own' :
              Ahead(k)' /\ state'[k] \in {SAFE_OP, SAFE_OP + ERROR} => al'[k] \in Ready
  BY DEF MapInv

\* Where no address changes the same slaves have their own.
LEMMA SameAddresses ==
    ASSUME UNCHANGED <<addr, doubled>>
    PROVE  Own' = Own /\ Single' = Single /\ (AddrInv => AddrInv')
  BY DEF Own, Single, AddrInv

\* MapInv is inductive, given the types.
LEMMA MapStep ==
    ASSUME TypeOK, TypeOK', MapInv, [Next]_vars
    PROVE  MapInv'
<1>1. slave \in Int /\ \A k \in SlaveId : k \in Int
  BY DEF TypeOK, SlaveId
<1>2. CASE ThreadCreate
  BY <1>2, SameAddresses DEF ThreadCreate, busVars, MapInv, Ahead, Asleep
<1>3. CASE Wake
  <2>1. PICK all \in BOOLEAN, ok \in BOOLEAN : ReadState(all, ok)
    BY <1>3 DEF Wake
  <2>2. \A k \in Own : state'[k] \in {al[k], NONE, BOOT}
    <3>1. CASE all /\ linked = NumSlaves /\ Together # {}
      BY <2>1, <3>1 DEF ReadState, Together, Own, Single
    <3>2. CASE ~(all /\ linked = NumSlaves /\ Together # {})
      BY <2>1, <3>2, StatusOwn DEF ReadState, Own, Single, MapInv
    <3> QED
      BY <3>1, <3>2
  <2>3. NONE \notin {SAFE_OP, SAFE_OP + ERROR} /\ BOOT \notin {SAFE_OP, SAFE_OP + ERROR}
    BY DEF NONE, BOOT, SAFE_OP, ERROR
  <2>4. \A k \in Own' : state'[k] \in {SAFE_OP, SAFE_OP + ERROR} => al'[k] \in Ready
    BY <1>3, <2>2, <2>3 DEF Wake, busVars, Ready, TypeOK, Own, Single
  <2> QED
    BY <1>3, <2>4, SameAddresses DEF Wake, busVars, MapInv
<1>4. ASSUME NEW k \in SlaveId, Acknowledge(k) \/ Advance(k)
      PROVE  MapInv'
  <2>1. PICK request \in Requests : WriteSent(k, request)
    BY <1>4 DEF Requests, Acknowledge, Advance
  <2>2. /\ pc = "slave" /\ slave = k /\ pc' = "lost"
        /\ UNCHANGED <<slave, addr, mapped, dropped, doubled>>
        /\ state[k] \in {SAFE_OP, SAFE_OP + ERROR}
        /\ \A j \in SlaveId : j # k => state'[j] = state[j]
    BY <1>4 DEF Acknowledge, Advance, TypeOK
  <2>3. k \in Own => al[k] \in Ready
    BY <2>2 DEF MapInv, Ahead, Asleep
  <2>4. \A j \in Single : j # k => al'[j] = al[j]
    BY <2>1, WriteSentOthers DEF MapInv
  <2>5. k \in Single /\ al'[k] \in Ready => al[k] \in Ready
    BY <2>1, <2>3, WriteSentOthers DEF MapInv
  <2>6. \A j \in Single : al'[j] \in Ready => j \in mapped' \cup dropped'
    BY <2>2, <2>4, <2>5 DEF MapInv
  <2>7. \A j \in Own' : Ahead(j)' => Ahead(j) /\ j # k
    BY <2>2, <1>1 DEF Ahead, Asleep
  <2>8. \A j \in Own' :
           Ahead(j)' /\ state'[j] \in {SAFE_OP, SAFE_OP + ERROR} => al'[j] \in Ready
    BY <2>2, <2>4, <2>7, AheadFrame, SameAddresses DEF TypeOK, Own, Single
  <2> QED
    BY <2>2, <2>6, <2>8, SameAddresses DEF MapInv
<1>5. ASSUME NEW k \in SlaveId, Reconfigure(k)
      PROVE  MapInv'
  <2>1. PICK arrived \in BOOLEAN : WriteState(k, INIT, arrived, {})
    BY <1>5 DEF Reconfigure
  <2>2. /\ pc = "slave" /\ slave = k /\ pc' \in {"init", "lost"}
        /\ UNCHANGED <<slave, state, addr, mapped, dropped, doubled>>
    BY <1>5 DEF Reconfigure
  <2>3. \A j \in Single : j # k => al'[j] = al[j]
    BY <2>1, WriteStateOthers DEF MapInv
  <2>4. k \in Single /\ al'[k] \in Ready => al[k] \in Ready
    <3>1. al[k] \in AlStates
      BY DEF TypeOK
    <3>2. k \in Single /\ al'[k] # al[k] =>
             \E refuse \in BOOLEAN : al'[k] = AlControl(al[k], INIT, refuse)
      BY <2>1, WriteStateOthers DEF MapInv
    <3> QED
      BY <3>1, <3>2, NotMadeReady
  <2>5. \A j \in Single : al'[j] \in Ready => j \in mapped' \cup dropped'
    BY <2>2, <2>3, <2>4 DEF MapInv
  <2>6. \A j \in Own' : Ahead(j)' => Ahead(j) /\ j # k
    BY <2>2, <1>1 DEF Ahead, Asleep
  <2>7. \A j \in Own' :
           Ahead(j)' /\ state'[j] \in {SAFE_OP, SAFE_OP + ERROR} => al'[j] \in Ready
    BY <2>2, <2>3, <2>6, AheadFrame, SameAddresses DEF TypeOK, Own, Single
  <2> QED
    BY <2>2, <2>5, <2>7, SameAddresses DEF MapInv
<1>6. ASSUME NEW k \in SlaveId, Recheck(k) \/ Pass(k)
      PROVE  MapInv'
  <2>1. /\ pc = "slave" /\ slave = k /\ pc' = "lost"
        /\ UNCHANGED <<slave, al, addr, mapped, dropped, doubled>>
        /\ \A j \in SlaveId : j # k => state'[j] = state[j]
    BY <1>6 DEF Recheck, Pass, busVars, TypeOK
  <2>2. \A j \in Own' : Ahead(j)' => Ahead(j) /\ j # k
    BY <2>1, <1>1 DEF Ahead, Asleep
  <2>3. \A j \in Own' :
           Ahead(j)' /\ state'[j] \in {SAFE_OP, SAFE_OP + ERROR} => al'[j] \in Ready
    BY <2>1, <2>2, AheadFrame, SameAddresses DEF TypeOK, Own, Single
  <2> QED
    BY <2>1, <2>3, SameAddresses DEF MapInv
<1>7. CASE ReconfigSlave
  <2>1. ASSUME NEW at \in {"init", "preop"}, NEW want, NEW next \in {"sm", "safe"},
               StateCheck(at, want, next)
        PROVE  MapInv'
    <3>1. /\ pc = at /\ pc' \in {"sm", "safe", "lost"}
          /\ UNCHANGED <<slave, al, addr, mapped, dropped, doubled>>
          /\ \A j \in SlaveId : j # slave => state'[j] = state[j]
      BY <2>1 DEF StateCheck, Return, busVars, TypeOK
    <3>2. \A j \in Own' : Ahead(j)' => Ahead(j) /\ j # slave
      BY <3>1, <1>1 DEF Ahead, Asleep
    <3>3. \A j \in Own' :
             Ahead(j)' /\ state'[j] \in {SAFE_OP, SAFE_OP + ERROR} => al'[j] \in Ready
      BY <3>1, <3>2, AheadFrame, SameAddresses DEF TypeOK, Own, Single
    <3> QED
      BY <3>1, <3>3, SameAddresses DEF MapInv
  <2>2. ASSUME NEW at, NEW request \in {PRE_OP, SAFE_OP}, NEW next,
               Request(at, request, next),
               \/ at = "sm" /\ request = PRE_OP /\ next = "preop"
               \/ at = "safe" /\ request = SAFE_OP /\ next = "safeop"
        PROVE  MapInv'
    <3>1. WriteSent(slave, request)
      BY <2>2 DEF Request
    <3>3. \A j \in Single : j # slave => al'[j] = al[j]
      BY <3>1, WriteSentOthers DEF TypeOK, MapInv
    <3>8. slave \in Single /\ al'[slave] # al[slave] =>
             \E refuse \in BOOLEAN : al'[slave] = AlControl(al[slave], request, refuse)
      BY <3>1, WriteSentOthers DEF TypeOK, MapInv
    <3>2. /\ pc = at /\ pc' = next
          /\ UNCHANGED <<slave, state, addr, mapped, dropped, doubled>>
      BY <2>2 DEF Request
    <3>4. \A j \in Own' : Ahead(j)' => Ahead(j) /\ j # slave
      BY <2>2, <3>2, <1>1 DEF Ahead, Asleep
    <3>5. \A j \in Own' :
             Ahead(j)' /\ state'[j] \in {SAFE_OP, SAFE_OP + ERROR} => al'[j] \in Ready
      BY <3>2, <3>3, <3>4, AheadFrame, SameAddresses DEF TypeOK, Own, Single
    <3>6. CASE at = "safe" /\ request = SAFE_OP /\ next = "safeop"
      <4>1. slave \in Single /\ al'[slave] \in Ready => al[slave] \in Ready \/ al'[slave] = SAFE_OP
        BY <3>6, <3>8, MadeReady DEF TypeOK
      <4> QED
        BY <3>2, <3>3, <3>5, <3>6, <4>1, SameAddresses DEF MapInv
    <3>7. CASE at = "sm" /\ request = PRE_OP /\ next = "preop"
      <4>1. slave \in Single /\ al'[slave] \in Ready => al[slave] \in Ready
        BY <3>7, <3>8, NotMadeReady DEF TypeOK
      <4> QED
        BY <3>2, <3>3, <3>5, <3>7, <4>1, SameAddresses DEF MapInv
    <3> QED
      BY <2>2, <3>6, <3>7
  <2>3. CASE ProgramFmmu
    <3>1. PICK fmmu \in BOOLEAN :
            /\ mapped' = mapped \cup Reached(slave, fmmu)
            /\ dropped' = IF Reached(slave, fmmu) = {}
                          THEN dropped \cup {slave} ELSE dropped \ Reached(slave, fmmu)
      BY <2>3 DEF ProgramFmmu
    <3>4. /\ pc = "safeop" /\ pc' = "lost"
          /\ UNCHANGED <<slave, al, addr, doubled>>
          /\ \A j \in SlaveId : j # slave => state'[j] = state[j]
      BY <2>3 DEF ProgramFmmu, Return, TypeOK
    <3>5. mapped \cup dropped \subseteq mapped' \cup dropped'
      BY <3>1
    <3>6. slave \in Single => slave \in mapped' \cup dropped'
      BY <3>1, ReachedSingle DEF MapInv, TypeOK
    <3>2. \A j \in Own' : Ahead(j)' => Ahead(j) /\ j # slave
      BY <3>4, <1>1 DEF Ahead, Asleep
    <3>3. \A j \in Own' :
             Ahead(j)' /\ state'[j] \in {SAFE_OP, SAFE_OP + ERROR} => al'[j] \in Ready
      BY <3>2, <3>4, AheadFrame, SameAddresses DEF TypeOK, Own, Single
    <3> QED
      BY <3>3, <3>4, <3>5, <3>6, SameAddresses DEF MapInv
  <2> QED
    BY <1>7, <2>1, <2>2, <2>3 DEF ReconfigSlave
<1>8. CASE Found
  <2>1. pc = "lost" /\ NextSlave /\ UNCHANGED <<state, al, addr, mapped, dropped, doubled>>
    BY <1>8 DEF Found, busVars
  <2>2. \A j \in Own' : Ahead(j)' => Ahead(j)
    BY <2>1, <1>1 DEF NextSlave, Ahead, Asleep, TypeOK, Own, Single
  <2>3. \A j \in Own' :
           Ahead(j)' /\ state'[j] \in {SAFE_OP, SAFE_OP + ERROR} => al'[j] \in Ready
    BY <2>1, <2>2, AheadFrame, SameAddresses
  <2> QED
    BY <2>1, <2>3, SameAddresses DEF MapInv
<1>12. CASE RecoverSlave
  <2>1. /\ ~Asleep /\ pc \notin {"slave", "safeop"}
        /\ UNCHANGED <<state, al, mapped, dropped>>
        /\ NextSlave \/ (pc' \in Recovering /\ UNCHANGED slave)
    BY <1>12 DEF RecoverSlave, Recover, ClearTemp, SetTemp, Identify, Assign, Recovering,
                 busVars, Asleep
  <2>2. \A j \in Own' : Ahead(j)' => Ahead(j) /\ j # slave
    BY <2>1, <1>1 DEF NextSlave, Ahead, Asleep, Recovering, TypeOK, Own, Single
  <2>3. ASSUME AddrInv', \A j \in Own' : j = slave \/ j \in Own, doubled \subseteq doubled'
        PROVE  MapInv'
    <3>1. \A j \in Own' :
             Ahead(j)' /\ state'[j] \in {SAFE_OP, SAFE_OP + ERROR} => al'[j] \in Ready
      BY <2>1, <2>2, <2>3, AheadFrame
    <3>2. \A j \in Single' : al'[j] \in Ready => j \in mapped' \cup dropped'
      BY <2>1, <2>3 DEF MapInv, Single
    <3> QED
      BY <2>3, <3>1, <3>2 DEF MapInv
  <2>4. CASE Recover \/ Identify
    <3>1. UNCHANGED <<addr, doubled>>
      BY <2>4 DEF Recover, Identify, busVars
    <3> QED
      BY <2>3, <3>1, SameAddresses DEF MapInv
  <2>5. ASSUME UNCHANGED doubled,
               \A j \in SlaveId : addr'[j] \in {addr[j], 0, EC_TEMPNODE}
        PROVE  MapInv'
    <3>1. AddrInv'
      BY <2>5 DEF MapInv, AddrInv
    <3>2. \A j \in Own' : j \in Own
      <4>1. TAKE j \in Own'
      <4>2. j \in SlaveId \ doubled /\ addr'[j] = j /\ j # 0 /\ j # EC_TEMPNODE
        BY <2>5, CheckAssumption DEF Own, Single, SlaveId, EC_TEMPNODE
      <4> QED
        BY <4>2, <2>5 DEF Own, Single
    <3> QED
      BY <2>3, <2>5, <3>1, <3>2
  <2>6. CASE \/ ClearTemp("clear", pc' = "temp" /\ UNCHANGED slave)
             \/ ClearTemp("undo", NextSlave)
    BY <2>5, <2>6 DEF ClearTemp, WriteAddress
  <2>7. CASE SetTemp
    BY <2>5, <2>7 DEF SetTemp, TypeOK
  <2>8. CASE Assign
    <3>1. PICK arrived \in BOOLEAN :
            /\ WriteAddress(EC_TEMPNODE, slave, arrived)
            /\ doubled' = IF Reached(EC_TEMPNODE, arrived) \subseteq {slave} THEN doubled
                          ELSE doubled \cup Reached(EC_TEMPNODE, arrived) \cup {slave}
      BY <2>8 DEF Assign
    <3>2. \A j \in SlaveId :
             addr'[j] = IF j \in Reached(EC_TEMPNODE, arrived) THEN slave ELSE addr[j]
      BY <3>1 DEF WriteAddress
    <3>3. doubled \subseteq doubled'
      BY <3>1
    <3>4. \A j \in Reached(EC_TEMPNODE, arrived) :
             j = slave \/ (j \in doubled' /\ slave \in doubled')
      BY <3>1
    <3>5. AddrInv'
      BY <3>2, <3>3, <3>4 DEF MapInv, AddrInv
    <3>6. \A j \in Own' : j = slave \/ j \in Own
      BY <3>2, <3>3 DEF Own, Single
    <3> QED
      BY <2>3, <3>3, <3>5, <3>6
  <2> QED
    BY <1>12, <2>4, <2>6, <2>7, <2>8 DEF RecoverSlave
<1>9. CASE Bus
  <2>1. ASSUME NEW k \in SlaveId, FallBack(k)
        PROVE  MapInv'
    <3>1. /\ UNCHANGED <<pc, slave, state, addr, mapped, dropped, doubled>>
          /\ al[k] \in Ready /\ al'[k] \in Ready
          /\ \A j \in SlaveId : j # k => al'[j] = al[j]
      BY <2>1 DEF FallBack, threadVars, TypeOK, Ready
    <3>2. al[k] # SAFE_OP
      BY <2>1 DEF FallBack, SAFE_OP, OPERATIONAL
    <3>3. k \in Single => k \in mapped \cup dropped
      BY <3>1, <3>2 DEF MapInv
    <3>4. \A j \in Single : al'[j] \in Ready =>
             j \in mapped' \cup dropped' \/ (pc' = "safeop" /\ j = slave' /\ al'[j] = SAFE_OP)
      BY <3>1, <3>3 DEF MapInv, Single
    <3>5. \A j \in Own' :
             Ahead(j)' /\ state'[j] \in {SAFE_OP, SAFE_OP + ERROR} => al'[j] \in Ready
      BY <3>1, SameAddresses DEF MapInv, Ahead, Asleep, TypeOK, Own, Single
    <3> QED
      BY <3>1, <3>4, <3>5, SameAddresses DEF MapInv
  <2>2. ASSUME NEW n \in 0 .. NumSlaves, Cut(n)
        PROVE  MapInv'
    BY <2>2, SameAddresses DEF Cut, threadVars, MapInv, Ahead, Asleep
  <2>3. ASSUME NEW n \in SlaveId, NEW off \in SUBSET SlaveId, Restore(n, off)
        PROVE  MapInv'
    <3>1. /\ UNCHANGED <<pc, slave, state, dropped, doubled>>
          /\ mapped' = mapped \ off
          /\ \A j \in SlaveId : /\ al'[j] = IF j \in off THEN INIT ELSE al[j]
                                /\ addr'[j] = IF j \in off THEN 0 ELSE addr[j]
      BY <2>3 DEF Restore, threadVars
    <3>2. INIT \notin Ready
      BY DEF Ready, INIT, SAFE_OP, OPERATIONAL, ERROR
    <3>5. AddrInv'
      BY <3>1 DEF MapInv, AddrInv
    <3>6. Single' = Single /\ \A j \in Own' : j \in Own
      BY <3>1, CheckAssumption DEF Own, Single, SlaveId
    <3>3. \A j \in Single : al'[j] \in Ready =>
             j \in mapped' \cup dropped' \/ (pc' = "safeop" /\ j = slave' /\ al'[j] = SAFE_OP)
      BY <3>1, <3>2 DEF MapInv, Single
    <3>4. \A j \in Own' :
             Ahead(j)' /\ state'[j] \in {SAFE_OP, SAFE_OP + ERROR} => al'[j] \in Ready
      <4>1. TAKE j \in Own'
      <4>2. j \in Own /\ j \in SlaveId /\ j # 0 /\ addr'[j] = j
        BY <3>6, CheckAssumption DEF Own, Single, SlaveId
      <4>3. j \notin off
        BY <3>1, <4>2
      <4> QED
        BY <3>1, <4>2, <4>3 DEF MapInv, Ahead, Asleep
    <3> QED
      BY <3>3, <3>4, <3>5, <3>6 DEF MapInv
  <2>4. linked + 1 .. NumSlaves \subseteq SlaveId
    BY CheckAssumption DEF TypeOK, SlaveId
  <2>5. \A n \in SlaveId : linked + 1 .. n \subseteq SlaveId
    BY <2>4, CheckAssumption DEF TypeOK, SlaveId
  <2>6. CASE \E n \in SlaveId : \E off \in SUBSET (linked + 1 .. n) : Restore(n, off)
    BY <2>3, <2>5, <2>6
  <2> QED
    BY <1>9, <2>1, <2>2, <2>6 DEF Bus
<1>10. CASE Exchange
  BY <1>10, SameAddresses DEF Exchange, threadVars, busVars, MapInv, Ahead, Asleep
<1>11. CASE UNCHANGED vars
  BY <1>11, SameAddresses DEF vars, MapInv, Ahead, Asleep
<1> QED
  BY <1>2, <1>3, <1>4, <1>5, <1>6, <1>7, <1>8, <1>9, <1>10, <1>11, <1>12
     DEF Next, Thread

\* The invariant of the FMMUs holds in every reachable state.
THEOREM ReadyMapped == Safety => []MapInv
<1>1. Init => MapInv
  BY DEF Init, MapInv, AddrInv, Own, Single, Ahead, Asleep
<1> QED
  BY <1>1, TypeCorrect, MapStep, PTL DEF Safety

\* No slave that lost power is taken to OP before its FMMUs are programmed again,
\* but one that missed them and those that share an address.
THEOREM OperationalMapped == Safety => []InOpMapped
<1>1. OPERATIONAL \in Ready /\ OPERATIONAL # SAFE_OP
  BY DEF Ready, OPERATIONAL, SAFE_OP
<1>2. MapInv => InOpMapped
  BY <1>1 DEF MapInv, Single, InOpMapped
<1> QED
  BY <1>2, ReadyMapped, PTL

=============================================================================
