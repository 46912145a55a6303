----------------------------- MODULE EcatCheck -----------------------------
(***************************************************************************)
(* The supervision thread ecatcheck: when an exchange came back short it   *)
(* reads the AL state of every slave and brings each one back towards OP,  *)
(* one state per pass, every frame of it racing against slaves that fall   *)
(* back, are cut off or return without power, and against the main         *)
(* thread's exchanges.  AL states are the numbers of SOEM, 16 being the    *)
(* error flag; the slaves form a line, so a cut takes all behind it away.  *)
(*                                                                         *)
(* A frame that is lost was lost on its way out or on its way back: the    *)
(* thread cannot tell.  Where the difference matters, arrived and answered *)
(* are chosen apart.                                                       *)
(*                                                                         *)
(* The thread looks at the globals inOP, wkc and expectedWKC.  main.cpp    *)
(* never sets inOP and counts in locals of the same names; Wired says      *)
(* whether the loop sets the globals, as SOEM's sample programs do.        *)
(***************************************************************************)
EXTENDS Integers, FiniteSetsExt

EC_TEMPNODE == 65535   \* the address of a slave that is being identified

CONSTANTS
    NumSlaves,   \* ec_slavecount, all of group 0
    Wired,       \* the cyclic loop sets the thread's globals (FALSE in main.cpp)
    MaxFault,    \* bound: cuts, falls, refusals, a thread that cannot be created
    MaxLost      \* bound: frames lost

ASSUME CheckAssumption ==
    /\ NumSlaves \in 1 .. 199                  \* below EC_MAXSLAVE
    /\ Wired \in BOOLEAN
    /\ MaxFault \in Nat
    /\ MaxLost \in Nat

SlaveId == 1 .. NumSlaves

NONE == 0
INIT == 1
PRE_OP == 2
BOOT == 3
SAFE_OP == 4
OPERATIONAL == 8
ERROR == 16      \* EC_STATE_ERROR when read, EC_STATE_ACK when written

VARIABLES
    pc,          \* the thread: "new", "failed", "sleep", "slave", "lost", in
                 \* ec_reconfig_slave "init", "sm", "preop", "safe", "safeop", and in
                 \* ec_recover_slave "clear", "temp", "identity", "assign", "undo"
    slave,       \* the slave of the loop
    docheck,     \* ec_group[0].docheckstate
    state,       \* state[k]: ec_slave[k].state
    islost,      \* the slaves with ec_slave[k].islost
    low,         \* the globals say wkc < expectedWKC
    linked,      \* slaves 1 .. linked are reached by frames
    al,          \* al[k]: the AL status of slave k
    addr,        \* addr[k]: the station address of slave k; k itself stands for
                 \* ec_slave[k].configadr, 0 is a slave that has none
    mapped,      \* the slaves whose FMMUs are programmed
    dropped,     \* history: slaves that missed the last programming of their FMMUs
    doubled,     \* history: slaves that got the address of another, and those others
    faults, lostFrames

busVars == <<linked, al, addr, mapped, dropped, doubled>>
threadVars == <<pc, slave, docheck, state, islost>>
vars == <<pc, slave, docheck, state, islost, low,
          linked, al, addr, mapped, dropped, doubled, faults, lostFrames>>

Init ==
    /\ pc = "new" /\ slave = 1
    /\ docheck = FALSE
    /\ state = [k \in SlaveId |-> OPERATIONAL]
    /\ islost = {}
    /\ low = FALSE
    /\ linked = NumSlaves
    /\ al = [k \in SlaveId |-> OPERATIONAL]
    /\ addr = [k \in SlaveId |-> k]
    /\ mapped = SlaveId /\ dropped = {} /\ doubled = {}
    /\ faults = 0 /\ lostFrames = 0

----------------------------------------------------------------------------
(* Frames and slaves.                                                      *)

\* A frame comes back or is lost.
Frame(ok) == /\ ok \/ lostFrames < MaxLost
             /\ lostFrames' = IF ok THEN lostFrames ELSE lostFrames + 1

\* Something goes wrong on the bus.
Fault(bad) == /\ ~bad \/ faults < MaxFault
              /\ faults' = IF bad THEN faults + 1 ELSE faults

\* The slaves a frame sent to address a reaches, if it arrives.
Reached(a, arrived) == {k \in SlaveId : arrived /\ k <= linked /\ addr[k] = a}

\* What reading the AL status at address a yields: every slave it reaches puts its
\* own in, the last one stays; no answer leaves zero.
AlStatus(a, ok) ==
    IF Reached(a, ok) = {} THEN NONE ELSE al[Max(Reached(a, ok))]

\* How a slave in status a follows a request: INIT always; with the error flag
\* set nothing without ACK; upwards one state at a time, unless it refuses.
AlControl(a, request, refuse) ==
    LET now  == a % ERROR
        want == request % ERROR
    IN IF want = INIT THEN INIT
       ELSE IF a >= ERROR /\ request < ERROR THEN a
       ELSE IF want <= now \/ (want = 2 * now /\ ~refuse) THEN want
       ELSE now + ERROR

\* A write of the AL control register of the slaves at address a, some of which
\* may refuse.
WriteState(a, request, arrived, refusing) ==
    /\ Fault(refusing # {})
    /\ al' = [k \in SlaveId |-> IF k \in Reached(a, arrived)
                               THEN AlControl(al[k], request, k \in refusing)
                               ELSE al[k]]

\* ec_writestate, and such a write whose result is not looked at: it is all the same
\* whether a frame that arrives is answered.
WriteSent(a, request) ==
    \E ok \in BOOLEAN : \E refusing \in SUBSET Reached(a, ok) :
        Frame(ok) /\ WriteState(a, request, ok, refusing)

\* A write of the station address of the slaves at address a.
WriteAddress(a, new, arrived) ==
    addr' = [k \in SlaveId |-> IF k \in Reached(a, arrived) THEN new ELSE addr[k]]

----------------------------------------------------------------------------
(* The thread.                                                             *)

\* thread_create: pthread_create reports errors with positive numbers, so the test
\* for a negative one never fails, and main does not look at the result.
ThreadCreate ==
    /\ pc = "new"
    /\ \E bad \in BOOLEAN : Fault(bad) /\ pc' = IF bad THEN "failed" ELSE "sleep"
    /\ UNCHANGED <<slave, docheck, state, islost, low, busVars, lostFrames>>

\* The AL states of the slaves ORed together by a broadcast, where this makes one
\* of the states again: that of all, or BOOT of INIT and PRE_OP.
Together ==
    LET all == {al[k] : k \in SlaveId}
    IN IF all = {INIT, PRE_OP} THEN {BOOT}
       ELSE {a \in all : all = {a} /\ a < ERROR}

\* ec_readstate: one broadcast serves when every slave answers it, none with the
\* error flag, and the OR is a state; otherwise every slave is read by its address.
ReadState(all, ok) ==
    IF all /\ linked = NumSlaves /\ Together # {}
    THEN \E a \in Together : state' = [k \in SlaveId |-> a]
    ELSE state' = [k \in SlaveId |-> AlStatus(k, ok)]

\* The condition of the loop, and the beginning of a pass.
Wake ==
    /\ pc = "sleep"
    /\ Wired /\ (low \/ docheck)
    /\ docheck' = FALSE
    /\ \E all, ok \in BOOLEAN : Frame(all /\ ok) /\ ReadState(all, ok)
    /\ pc' = "slave" /\ slave' = 1
    /\ UNCHANGED <<islost, low, busVars, faults>>

\* A slave in SAFE_OP is asked for OP.
Advance(k) ==
    /\ pc = "slave" /\ slave = k
    /\ state[k] = SAFE_OP
    /\ docheck' = TRUE
    /\ state' = [state EXCEPT ![k] = OPERATIONAL]
    /\ WriteSent(k, OPERATIONAL)
    /\ pc' = "lost"
    /\ UNCHANGED <<slave, islost, low, linked, addr, mapped, dropped, doubled>>

\* Mutant: a slave whose error is acknowledged is not checked again.
AcknowledgeOnce(k) ==
    /\ pc = "slave" /\ slave = k
    /\ state[k] = SAFE_OP + ERROR
    /\ WriteSent(k, SAFE_OP + ERROR)
    /\ pc' = "lost"
    /\ UNCHANGED <<slave, docheck, state, islost, low, linked, addr, mapped, dropped, doubled>>

\* A slave in SAFE_OP with an error gets it acknowledged.
Acknowledge(k) ==
    /\ pc = "slave" /\ slave = k
    /\ state[k] = SAFE_OP + ERROR
    /\ docheck' = TRUE
    /\ WriteSent(k, SAFE_OP + ERROR)
    /\ pc' = "lost"
    /\ UNCHANGED <<slave, state, islost, low, linked, addr, mapped, dropped, doubled>>

\* Any other slave that answers is configured again: ec_reconfig_slave first asks
\* for INIT and gives up when nobody is heard to take the request.
Reconfigure(k) ==
    /\ pc = "slave" /\ slave = k
    /\ state[k] \notin {OPERATIONAL, SAFE_OP + ERROR, SAFE_OP, NONE}
    /\ docheck' = TRUE
    /\ \E arrived, answered \in BOOLEAN :
          /\ answered => arrived
          /\ Frame(answered)
          /\ WriteState(k, INIT, arrived, {})
          /\ pc' = IF Reached(k, answered) # {} THEN "init" ELSE "lost"
    /\ UNCHANGED <<slave, state, islost, low, linked, addr, mapped, dropped, doubled>>

\* A slave that was not heard is asked once more before it counts as lost.
Recheck(k) ==
    /\ pc = "slave" /\ slave = k
    /\ state[k] = NONE /\ k \notin islost
    /\ docheck' = TRUE
    /\ \E ok \in BOOLEAN :
          /\ Frame(ok)
          /\ state' = [state EXCEPT ![k] = AlStatus(k, ok)]
          /\ islost' = IF AlStatus(k, ok) = NONE THEN islost \cup {k} ELSE islost
    /\ pc' = "lost"
    /\ UNCHANGED <<slave, low, busVars, faults>>

\* A slave in OP, and one already known as lost, is passed over.
Pass(k) ==
    /\ pc = "slave" /\ slave = k
    /\ state[k] = OPERATIONAL \/ (state[k] = NONE /\ k \in islost)
    /\ docheck' = (docheck \/ state[k] # OPERATIONAL)
    /\ pc' = "lost"
    /\ UNCHANGED <<slave, state, islost, low, busVars, faults, lostFrames>>

\* ec_reconfig_slave returns the state it read last: any but NONE is a success.
Return(read) ==
    /\ pc' = "lost"
    /\ islost' = IF read % ERROR # NONE THEN islost \ {slave} ELSE islost

\* ec_statecheck inside ec_reconfig_slave, which goes on when the slave got there.
StateCheck(at, want, next) ==
    /\ pc = at
    /\ \E ok \in BOOLEAN :
          LET read == AlStatus(slave, ok) IN
          /\ Frame(ok)
          /\ state' = [state EXCEPT ![slave] = read]
          /\ IF read % ERROR = want THEN pc' = next /\ UNCHANGED islost
                                    ELSE Return(read)
    /\ UNCHANGED <<slave, docheck, low, busVars, faults>>

\* A request inside ec_reconfig_slave, whose result is not looked at.
Request(at, request, next) ==
    /\ pc = at
    /\ WriteSent(slave, request)
    /\ pc' = next
    /\ UNCHANGED <<slave, docheck, state, islost, low, linked, addr, mapped, dropped, doubled>>

\* Mutant: the FMMUs are not programmed.
ProgramFmmuOmitted ==
    /\ pc = "safeop"
    /\ \E ok \in BOOLEAN :
          LET read == AlStatus(slave, ok) IN
          /\ Frame(ok)
          /\ state' = [state EXCEPT ![slave] = read]
          /\ Return(read)
    /\ UNCHANGED <<slave, docheck, low, busVars, faults>>

\* The last state check of ec_reconfig_slave, then the FMMUs, whatever it read and
\* whether or not they arrive.
ProgramFmmu ==
    /\ pc = "safeop"
    /\ \E ok, fmmu \in BOOLEAN :
          LET read == AlStatus(slave, ok) IN
          /\ Frame(ok /\ fmmu)
          /\ state' = [state EXCEPT ![slave] = read]
          /\ Return(read)
          /\ mapped' = mapped \cup Reached(slave, fmmu)
          /\ dropped' = IF Reached(slave, fmmu) = {}
                        THEN dropped \cup {slave} ELSE dropped \ Reached(slave, fmmu)
    /\ UNCHANGED <<slave, docheck, low, linked, al, addr, doubled, faults>>

\* Mutant: the loop runs one slave too far.
NextSlaveOneMore ==
    IF slave <= NumSlaves THEN pc' = "slave" /\ slave' = slave + 1
                          ELSE pc' = "sleep" /\ slave' = 1

\* The loop goes on with the next slave, or the thread sleeps.
NextSlave ==
    IF slave < NumSlaves THEN pc' = "slave" /\ slave' = slave + 1
                         ELSE pc' = "sleep" /\ slave' = 1

\* Mutant: a slave is taken for recovered although nobody answered at its place.
RecoverBlind ==
    /\ pc = "lost"
    /\ slave \in islost /\ state[slave] = NONE
    /\ \E ok \in BOOLEAN :
          /\ Frame(ok)
          /\ islost' = islost \ {slave}
    /\ NextSlave
    /\ UNCHANGED <<docheck, state, low, busVars, faults>>

\* ec_recover_slave reads the address of whatever is at the position of a lost slave.
\* Its own is a success, none at all is worth a try, no answer and any other
\* address, EC_TEMPNODE included, are a failure.
Recover ==
    /\ pc = "lost"
    /\ slave \in islost /\ state[slave] = NONE
    /\ \E ok \in BOOLEAN :
          LET readadr == IF ok /\ slave <= linked THEN addr[slave] ELSE 65534 IN
          /\ Frame(ok)
          /\ islost' = IF readadr = slave THEN islost \ {slave} ELSE islost
          /\ IF readadr = 0 THEN pc' = "clear" /\ UNCHANGED slave ELSE NextSlave
    /\ UNCHANGED <<docheck, state, low, busVars, faults>>

\* Slaves that are still at EC_TEMPNODE are to lose it; the result is not looked at.
ClearTemp(at, next) ==
    /\ pc = at
    /\ \E ok \in BOOLEAN : Frame(ok) /\ WriteAddress(EC_TEMPNODE, 0, ok)
    /\ next
    /\ UNCHANGED <<docheck, state, islost, low, linked, al, mapped, dropped, doubled, faults>>

\* The slave at the position gets EC_TEMPNODE, which is undone when no answer comes.
SetTemp ==
    /\ pc = "temp"
    /\ \E arrived, answered \in BOOLEAN :
          LET here == arrived /\ slave <= linked IN
          /\ answered => arrived
          /\ Frame(answered)
          /\ addr' = IF here THEN [addr EXCEPT ![slave] = EC_TEMPNODE] ELSE addr
          /\ pc' = IF here /\ answered THEN "identity" ELSE "undo"
    /\ UNCHANGED <<slave, docheck, state, islost, low, linked, al, mapped, dropped,
                   doubled, faults>>

\* The identity at EC_TEMPNODE is compared with the one configured: a slave of the
\* line that is alone there shows its own, among several it may be another's.
Identify ==
    /\ pc = "identity"
    /\ \E ok, same \in BOOLEAN :
          /\ Frame(ok)
          /\ Reached(EC_TEMPNODE, ok) = {slave} => same
          /\ Reached(EC_TEMPNODE, ok) = {} => ~same
          /\ pc' = IF same THEN "assign" ELSE "undo"
    /\ UNCHANGED <<slave, docheck, state, islost, low, busVars, faults>>

\* What is at EC_TEMPNODE gets the configured address.  ecatcheck takes any result
\* but 0 for a success, EC_NOFRAME (-1) included; EC_TIMEOUTMON leaves no time for a
\* second try.
Assign ==
    /\ pc = "assign"
    /\ \E arrived, answered \in BOOLEAN :
          LET given == Reached(EC_TEMPNODE, arrived) IN
          /\ answered => arrived
          /\ Frame(answered)
          /\ WriteAddress(EC_TEMPNODE, slave, arrived)
          /\ doubled' = IF given \subseteq {slave} THEN doubled
                        ELSE doubled \cup given \cup {slave}
          /\ islost' = IF answered /\ given = {} THEN islost ELSE islost \ {slave}
    /\ NextSlave
    /\ UNCHANGED <<docheck, state, low, linked, al, mapped, dropped, faults>>

\* A lost slave that was heard again is found.
Found ==
    /\ pc = "lost"
    /\ slave \notin islost \/ state[slave] # NONE
    /\ islost' = islost \ {slave}
    /\ NextSlave
    /\ UNCHANGED <<docheck, state, low, busVars, faults, lostFrames>>

RecoverSlave ==
    \/ Recover
    \/ ClearTemp("clear", pc' = "temp" /\ UNCHANGED slave)
    \/ SetTemp
    \/ Identify
    \/ Assign
    \/ ClearTemp("undo", NextSlave)

ReconfigSlave ==
    \/ StateCheck("init", INIT, "sm")
    \/ Request("sm", PRE_OP, "preop")
    \/ StateCheck("preop", PRE_OP, "safe")
    \/ Request("safe", SAFE_OP, "safeop")
    \/ ProgramFmmu

Thread ==
    \/ ThreadCreate
    \/ Wake
    \/ \E k \in SlaveId : \/ Acknowledge(k) \/ Advance(k) \/ Reconfigure(k)
                          \/ Recheck(k) \/ Pass(k)
    \/ ReconfigSlave
    \/ RecoverSlave
    \/ Found

----------------------------------------------------------------------------
(* The main thread's exchanges and the bus.                                *)

\* An exchange is short unless every slave takes part in OP with its FMMUs.
Exchange ==
    /\ Wired
    /\ \E ok \in BOOLEAN :
          /\ Frame(ok)
          /\ low' = ~(ok /\ linked = NumSlaves
                         /\ \A k \in SlaveId : k \in mapped /\ al[k] = OPERATIONAL)
    /\ UNCHANGED <<threadVars, busVars, faults>>

\* A slave falls back to SAFE_OP with the error flag set (watchdog, local fault).
FallBack(k) ==
    /\ Fault(TRUE)
    /\ al[k] = OPERATIONAL
    /\ al' = [al EXCEPT ![k] = SAFE_OP + ERROR]
    /\ UNCHANGED <<threadVars, low, linked, addr, mapped, dropped, doubled, lostFrames>>

Cut(n) ==
    /\ Fault(TRUE)
    /\ n < linked
    /\ linked' = n
    /\ UNCHANGED <<threadVars, low, al, addr, mapped, dropped, doubled, lostFrames>>

\* The line is closed again up to slave n; those in off have lost power meanwhile:
\* they are in INIT, without address and FMMUs.
Restore(n, off) ==
    /\ linked < n
    /\ linked' = n
    /\ al' = [k \in SlaveId |-> IF k \in off THEN INIT ELSE al[k]]
    /\ addr' = [k \in SlaveId |-> IF k \in off THEN 0 ELSE addr[k]]
    /\ mapped' = mapped \ off
    /\ UNCHANGED <<threadVars, low, dropped, doubled, faults, lostFrames>>

Bus ==
    \/ \E k \in SlaveId : FallBack(k)
    \/ \E n \in 0 .. NumSlaves : Cut(n)
    \/ \E n \in SlaveId : \E off \in SUBSET (linked + 1 .. n) : Restore(n, off)

Next == Thread \/ Exchange \/ Bus

Safety == Init /\ [][Next]_vars

\* Both threads are scheduled.
Spec == Safety /\ WF_vars(Thread) /\ WF_vars(Exchange)

----------------------------------------------------------------------------
(* Properties.                                                             *)

AlStates == {INIT, PRE_OP, SAFE_OP, OPERATIONAL,
             INIT + ERROR, PRE_OP + ERROR, SAFE_OP + ERROR}

\* The types of the thread and of the bus; a slave never reports OP with an error.
\* BOOT is in no slave, but ec_readstate may store it.
TypeOK ==
    /\ pc \in {"new", "failed", "sleep", "slave", "lost",
               "init", "sm", "preop", "safe", "safeop",
               "clear", "temp", "identity", "assign", "undo"}
    /\ slave \in SlaveId
    /\ docheck \in BOOLEAN /\ low \in BOOLEAN
    /\ state \in [SlaveId -> AlStates \cup {NONE, BOOT}]
    /\ al \in [SlaveId -> AlStates]
    /\ linked \in 0 .. NumSlaves
    /\ addr \in [SlaveId -> SlaveId \cup {0, EC_TEMPNODE}]
    /\ islost \subseteq SlaveId /\ mapped \subseteq SlaveId
    /\ dropped \subseteq SlaveId /\ doubled \subseteq SlaveId
    /\ faults \in 0 .. MaxFault /\ lostFrames \in 0 .. MaxLost

\* "OK : all slaves resumed OPERATIONAL": the thread goes to sleep without asking
\* for another check only when it holds every slave for operational and none for
\* lost, and a slave it holds for lost is one it hears nothing of.
NothingLeftBehind ==
    pc = "sleep" =>
        /\ ~docheck => islost = {} /\ \A k \in SlaveId : state[k] = OPERATIONAL
        /\ \A k \in islost : state[k] = NONE

\* A slave that lost power is never taken to OP before its FMMUs are programmed
\* again, however its return interleaves with a pass that still acts on what it
\* read before.  Two cases are excepted: a slave the programming did not reach, and
\* slaves that share an address, which get each other's requests.
InOpMapped ==
    \A k \in SlaveId \ doubled : al[k] = OPERATIONAL => k \in mapped \cup dropped

\* Slaves that fell back, were cut off, lost power or refused a state return to
\* operation by themselves once the line is closed for good: the thread handles
\* slave errors in OP.  That takes a slave that still has its address: when all have
\* lost power, the broadcast of ec_readstate hides it.  Three kinds of slave need not
\* return: one left at EC_TEMPNODE by a lost frame of ec_recover_slave, which only the
\* recovery of another slave clears, although it was reported as recovered; slaves
\* that share an address; and one whose FMMUs were not reached.
Restored ==
    <>[](/\ linked = NumSlaves /\ pc # "failed"
         /\ \E k \in SlaveId \ doubled : addr[k] = k)
    => <>[](\A k \in SlaveId \ (dropped \cup doubled) :
               \/ addr[k] = EC_TEMPNODE
               \/ al[k] = OPERATIONAL /\ k \in mapped)

=============================================================================
