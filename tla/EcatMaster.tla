----------------------------- MODULE EcatMaster -----------------------------
(***************************************************************************)
(* The master's main thread and the slaves it talks to: main and slaveinfo *)
(* bring the bus up (detect, configure, SAFE_OP, shared memory, OP), then  *)
(* the cyclic loop exchanges process data and uses an exchange only when   *)
(* its working counter is complete.                                        *)
(*                                                                         *)
(* Slaves may be unplugged, come back (with or without having lost power)  *)
(* and fall out of OP at any moment; frames may be lost.  slaveinfo        *)
(* reports its failures on the console only: main goes on after each.      *)
(***************************************************************************)
EXTENDS Integers, FiniteSets, FiniteSetsExt

CONSTANTS
    Slave,       \* the slaves that can be on the bus
    Outputs,     \* the slaves with output process data
    Inputs,      \* the slaves with input process data
    MaxChk,      \* the initial value of chk (40)
    MaxFault     \* bound: unplugging, coming back and falling out of OP

ASSUME MasterAssumption ==
    /\ IsFiniteSet(Slave)
    /\ Outputs \subseteq Slave
    /\ Inputs \subseteq Slave
    /\ MaxChk \in Nat
    /\ MaxFault \in Nat

EC_NOFRAME == -1

VARIABLES
    pc,          \* main: "prepare", "nic", "detect", "configure", "memory", "request",
                 \* "wait", "cyclic", "copy", "crashed", "exit"
    socket,      \* ec_init has bound the socket
    configured,  \* the slaves ec_config found (ec_slavecount of them)
    counted,     \* those whose process data is mapped into the images
    state0,      \* ec_slave[0].state
    chk,         \* tries left
    wkc,         \* working counter of the last exchange
    pEcm,        \* TRUE once pEcm points to the shared memory
    present,     \* the slaves that answer
    al,          \* al[k]: the AL state of slave k
    err,         \* the slaves with the error flag set
    asked,       \* the slaves that have been asked for OP and follow
    mapped,      \* the slaves whose FMMUs are programmed
    gave,        \* history: what each slave added to the last working counter
    faults       \* faults so far

slaveVars == <<present, al, err, asked, mapped>>
mainVars  == <<pc, socket, configured, counted, state0, chk, wkc, pEcm>>
vars == <<pc, socket, configured, counted, state0, chk, wkc, pEcm,
          present, al, err, asked, mapped, gave, faults>>

Init ==
    /\ pc = "prepare"
    /\ socket = FALSE
    /\ configured = {}
    /\ counted = {}
    /\ state0 = "none"
    /\ chk = 0
    /\ wkc = 0
    /\ pEcm = FALSE
    /\ present \in SUBSET Slave
    /\ al \in [Slave -> {"INIT", "OP"}]     \* OP: left over by an earlier master
    /\ err = {}
    /\ asked = {}
    /\ mapped = {k \in Slave : al[k] = "OP"}
    /\ gave = [k \in Slave |-> 0]
    /\ faults = 0

----------------------------------------------------------------------------
(* What the frames see.                                                    *)

\* ec_statecheck(0, ...): a broadcast read returns the OR of the AL states of
\* the slaves that answer; the number of answers is not looked at.
Broadcast ==
    LET seen == {al[k] : k \in present} IN
    CASE present = {}                              -> "none"
      [] Cardinality(seen) = 1 /\ present \cap err = {} -> CHOOSE s \in seen : TRUE
      [] OTHER                                     -> "mixed"

\* The result of the check; nothing is read when its frames are lost.
StateCheck(lost) == IF lost \/ ~socket THEN "none" ELSE Broadcast

\* What slave k adds to the working counter of a process data frame: 2 for its
\* outputs, which it takes in OP only, 1 for its inputs.
Adds(k) ==
    IF k \notin present \cap mapped THEN 0
    ELSE (IF k \in Outputs /\ al[k] = "OP" THEN 2 ELSE 0)
       + (IF k \in Inputs /\ al[k] \in {"SAFEOP", "OP"} THEN 1 ELSE 0)

\* Mutant: outputs and inputs are counted alike.
ExpectedWKCUnweighted ==
    Cardinality(counted \cap Outputs) + Cardinality(counted \cap Inputs)

\* expectedWKC = (outputsWKC * 2) + inputsWKC, over the slaves counted.
ExpectedWKC ==
    2 * Cardinality(counted \cap Outputs) + Cardinality(counted \cap Inputs)

\* Mutant: a missing frame is reported as a working counter of 0.
ReceivedZero(lost) ==
    IF lost \/ ~socket \/ counted \cap (Outputs \cup Inputs) = {}
    THEN 0
    ELSE MapThenSumSet(Adds, Slave)

\* ec_receive_processdata: without process data to send no frame comes back.
Received(lost) ==
    IF lost \/ ~socket \/ counted \cap (Outputs \cup Inputs) = {}
    THEN EC_NOFRAME
    ELSE MapThenSumSet(Adds, Slave)

----------------------------------------------------------------------------
(* main up to slaveinfo, and slaveinfo.                                    *)

\* Only the CPU affinity is needed to go on; whether scheduling and memory were set
\* up, and the supervision thread created, is not looked at.
Prepare ==
    /\ pc = "prepare"
    /\ pc' \in {"nic", "exit"}
    /\ UNCHANGED <<socket, configured, counted, state0, chk, wkc, pEcm, slaveVars, gave, faults>>

\* ec_init: without the socket slaveinfo returns.
InitNic ==
    /\ pc = "nic"
    /\ socket' \in BOOLEAN
    /\ pc' = IF socket' THEN "detect" ELSE "request"
    /\ UNCHANGED <<configured, counted, state0, chk, wkc, pEcm, slaveVars, gave, faults>>

\* ec_config_init resets all slaves to INIT, counts those that answer, and gives these
\* their defaults, INIT again and no FMMU.  The frames of the reset and of the count
\* may be lost apart; with no slave counted slaveinfo returns.
DetectSlaves ==
    /\ pc = "detect"
    /\ \E reset, counts \in BOOLEAN :
          /\ counts => present # {}
          /\ configured' = IF counts THEN present ELSE configured
          /\ al' = [k \in Slave |-> IF (reset \/ counts) /\ k \in present THEN "INIT" ELSE al[k]]
          /\ err' = IF reset \/ counts THEN err \ present ELSE err
          /\ mapped' = IF counts THEN mapped \ present ELSE mapped
          /\ pc' = IF counts THEN "configure" ELSE "request"
    /\ UNCHANGED <<socket, counted, state0, chk, wkc, pEcm, present, asked, gave, faults>>

\* ec_config_map reads the mapping of the slaves that still answer, programs their
\* FMMUs and asks them for SAFE_OP, which a slave may refuse.
ConfigureSlaves ==
    /\ pc = "configure"
    /\ counted' = configured \cap present
    /\ mapped' = mapped \cup counted'
    /\ \E refuse \in SUBSET (configured \cap present) :
          /\ al' = [k \in Slave |-> IF k \notin configured \cap present THEN al[k]
                                    ELSE IF k \in refuse THEN "PREOP" ELSE "SAFEOP"]
          /\ err' = err \cup refuse
    /\ pc' = "memory"
    /\ UNCHANGED <<socket, configured, state0, chk, wkc, pEcm, present, asked, gave, faults>>

\* The check for SAFE_OP changes nothing but ec_slave[0].state; the shared memory
\* is created in any case.
CreateMemory ==
    /\ pc = "memory"
    /\ \E lost \in BOOLEAN : state0' = StateCheck(lost)
    /\ pEcm' = TRUE
    /\ pc' = "request"
    /\ UNCHANGED <<socket, configured, counted, chk, wkc, slaveVars, gave, faults>>

----------------------------------------------------------------------------
(* main.                                                                   *)

\* ec_writestate(0) asks every slave for OP; one that is not in SAFE_OP refuses.
RequestOp ==
    /\ pc = "request"
    /\ \/ /\ socket
          /\ asked' = {k \in present \ err : al[k] = "SAFEOP"}
          /\ err' = err \cup {k \in present : al[k] \in {"INIT", "PREOP"}}
       \/ UNCHANGED <<asked, err>>            \* the frame is lost
    /\ state0' = "OP"
    /\ chk' = MaxChk
    /\ pc' = "wait"
    /\ UNCHANGED <<socket, configured, counted, wkc, pEcm, present, al, mapped, gave, faults>>

\* Mutant: the tries are not counted.
WaitOpForever ==
    /\ pc = "wait"
    /\ \E lost \in BOOLEAN : state0' = StateCheck(lost)
    /\ pc' = IF state0' = "OP" THEN "cyclic" ELSE "wait"
    /\ UNCHANGED <<socket, configured, counted, chk, wkc, pEcm, slaveVars, gave, faults>>

\* Mutant: the last try is not recognised.
WaitOpNoLimit ==
    /\ pc = "wait"
    /\ \E lost \in BOOLEAN : state0' = StateCheck(lost)
    /\ pc' = IF state0' = "OP" THEN "cyclic" ELSE "wait"
    /\ chk' = chk - 1
    /\ UNCHANGED <<socket, configured, counted, wkc, pEcm, slaveVars, gave, faults>>

\* One turn of "while (chk-- && state != OP)" and what follows it.
WaitOp ==
    /\ pc = "wait"
    /\ \E lost \in BOOLEAN : state0' = StateCheck(lost)
    /\ \/ /\ state0' = "OP"
          /\ pc' = "cyclic"
          /\ UNCHANGED chk
       \/ /\ state0' # "OP"
          /\ chk > 0
          /\ chk' = chk - 1
          /\ UNCHANGED pc
       \/ /\ state0' # "OP"
          /\ chk = 0
          /\ pc' = "exit"                     \* return -1
          /\ UNCHANGED chk
    /\ UNCHANGED <<socket, configured, counted, wkc, pEcm, slaveVars, gave, faults>>

\* Mutant: a counter that is complete is taken for one that is not.
ExchangeStrict(lost) ==
    /\ pc = "cyclic"
    /\ wkc' = Received(lost)
    /\ gave' = IF wkc' = EC_NOFRAME THEN [k \in Slave |-> 0]
                                    ELSE [k \in Slave |-> Adds(k)]
    /\ pc' = IF wkc' <= ExpectedWKC THEN "cyclic" ELSE "copy"
    /\ UNCHANGED <<socket, configured, counted, state0, chk, pEcm, slaveVars, faults>>

\* ec_send_processdata, ec_receive_processdata and the test of the counter.
Exchange(lost) ==
    /\ pc = "cyclic"
    /\ wkc' = Received(lost)
    /\ gave' = IF wkc' = EC_NOFRAME THEN [k \in Slave |-> 0]
                                    ELSE [k \in Slave |-> Adds(k)]
    /\ pc' = IF wkc' < ExpectedWKC THEN "cyclic" ELSE "copy"
    /\ UNCHANGED <<socket, configured, counted, state0, chk, pEcm, slaveVars, faults>>

\* The copies and the signals go through pEcm.
Copy ==
    /\ pc = "copy"
    /\ pc' = IF pEcm THEN "cyclic" ELSE "crashed"
    /\ UNCHANGED <<socket, configured, counted, state0, chk, wkc, pEcm, slaveVars, gave, faults>>

Startup == Prepare \/ InitNic \/ DetectSlaves \/ ConfigureSlaves \/ CreateMemory \/ RequestOp

Main == Startup \/ WaitOp \/ (\E lost \in BOOLEAN : Exchange(lost)) \/ Copy

----------------------------------------------------------------------------
(* The slaves.                                                             *)

\* A slave that was asked for OP enters it.
EnterOp(k) ==
    /\ k \in asked \cap present
    /\ al' = [al EXCEPT ![k] = "OP"]
    /\ asked' = asked \ {k}
    /\ UNCHANGED <<mainVars, present, err, mapped, gave, faults>>

Fault == faults < MaxFault /\ faults' = faults + 1

\* A slave falls back to SAFE_OP with the error flag set (watchdog, local fault).
FallBack(k) ==
    /\ Fault
    /\ k \in present
    /\ al[k] = "OP"
    /\ al' = [al EXCEPT ![k] = "SAFEOP"]
    /\ err' = err \cup {k}
    /\ UNCHANGED <<mainVars, present, asked, mapped, gave>>

Unplug(k) ==
    /\ Fault
    /\ k \in present
    /\ present' = present \ {k}
    /\ asked' = asked \ {k}
    /\ UNCHANGED <<mainVars, al, err, mapped, gave>>

\* A slave comes back: as it was, or in INIT and unconfigured after a power loss.
ComeBack(k) ==
    /\ Fault
    /\ k \notin present
    /\ present' = present \cup {k}
    /\ \/ UNCHANGED <<al, err, mapped>>
       \/ /\ al' = [al EXCEPT ![k] = "INIT"]
          /\ err' = err \ {k}
          /\ mapped' = mapped \ {k}
    /\ UNCHANGED <<mainVars, asked, gave>>

Slaves == \E k \in Slave : EnterOp(k) \/ FallBack(k) \/ Unplug(k) \/ ComeBack(k)

Next == Main \/ Slaves

\* The main thread runs; of infinitely many exchanges not all are lost.
Fairness ==
    /\ WF_vars(Startup \/ WaitOp \/ Copy)
    /\ SF_vars(Exchange(FALSE))

Safety == Init /\ [][Next]_vars
Spec == Safety /\ Fairness

----------------------------------------------------------------------------
(* Properties.                                                             *)

\* The types of the main thread and of the bus.
TypeOK ==
    /\ pc \in {"prepare", "nic", "detect", "configure", "memory", "request", "wait",
               "cyclic", "copy", "crashed", "exit"}
    /\ socket \in BOOLEAN
    /\ counted \subseteq configured /\ configured \subseteq Slave
    /\ state0 \in {"none", "mixed", "INIT", "PREOP", "SAFEOP", "OP"}
    /\ chk \in 0 .. MaxChk
    /\ wkc \in Int /\ wkc >= EC_NOFRAME
    /\ pEcm \in BOOLEAN
    /\ present \subseteq Slave /\ err \subseteq Slave
    /\ asked \subseteq Slave /\ mapped \subseteq Slave
    /\ al \in [Slave -> {"INIT", "PREOP", "SAFEOP", "OP"}]
    /\ gave \in [Slave -> 0 .. 3]
    /\ faults \in 0 .. MaxFault

\* What slave k adds when it takes part completely.
Share(k) == (IF k \in Outputs THEN 2 ELSE 0) + (IF k \in Inputs THEN 1 ELSE 0)

\* An image is copied, and the clients are signalled, only when every slave with
\* mapped data took part in the exchange with all of it: one mapped slave cannot
\* stand in for another in the working counter.  (A slave that was not there when
\* the master counted, and that still carries the mapping of an earlier master,
\* can: nothing tells its share from theirs.)
CopiesCompleteExchange ==
    pc = "copy" /\ (\A k \in Slave \ counted : gave[k] = 0) =>
        \A k \in counted : gave[k] = Share(k)

\* The cyclic loop never uses pEcm before slaveinfo has set it, although main goes
\* on after every failure of slaveinfo and slaves left in OP by an earlier master
\* let it pass the wait for OP.
SharedMemoryUsedOnceCreated == pc # "crashed"

\* Why: until slaveinfo is through, nothing is mapped unless it is about to create
\* the shared memory, and without mapped data no exchange is ever complete.
MemoryInv ==
    /\ pc = "copy" => pEcm
    /\ pc \in {"prepare", "nic", "detect", "configure"} => ~pEcm /\ counted = {}
    /\ pEcm \/ counted = {} \/ pc = "memory"
    /\ SharedMemoryUsedOnceCreated

\* main gets to its loop or gives up.
StartupEnds == <>(pc \in {"cyclic", "copy", "exit"})

\* The slaves with mapped data all answer, programmed and in OP.
BusWhole == \A k \in counted : k \in present \cap mapped /\ al[k] = "OP"

\* After disturbances the cycle goes on by itself as soon as every slave is back
\* in OP for good: incomplete exchanges leave nothing behind that stops it.
CycleResumes ==
    <>[](BusWhole /\ socket /\ counted \cap (Outputs \cup Inputs) # {}
            /\ pc \in {"cyclic", "copy"})
        => []<>(pc = "copy")

\* "Operational state reached for all slaves": when main leaves the wait for OP,
\* every slave it configured is in OP.
AllSlavesOperational ==
    [][pc = "wait" /\ pc' = "cyclic" =>
         \A k \in configured : k \in present /\ al[k] = "OP"]_vars

=============================================================================
