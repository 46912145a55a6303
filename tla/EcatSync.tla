------------------------------ MODULE EcatSync ------------------------------
(***************************************************************************)
(* The cycle hand-over between the EtherCAT master and the threads of its  *)
(* client processes.                                                       *)
(*                                                                         *)
(* The master's cyclic loop (main.cpp) exchanges process data with the     *)
(* slaves; when the working counter is complete it copies the images and   *)
(* calls updateSempahore, which visits the EC_SEM_NUM named semaphores and *)
(* posts each one it has just read as zero.  A client thread calls         *)
(* EcatConfig::wait, which finds (or appends) the calling thread in the    *)
(* process-wide vector threadId and does sem_wait on the semaphore of that *)
(* position.  No lock protects threadId, and sem_getvalue / sem_post are   *)
(* two steps: every read and write below is an action of its own.          *)
(*                                                                         *)
(* The vector is its buffer (a function on the positions ever written) and *)
(* its size.  Racing calls of push_back are undefined behaviour; the       *)
(* outcomes modelled are a lost update, two increments that leave a hole,  *)
(* and an abort of the process (a double free of the outgrown buffer).     *)
(***************************************************************************)
EXTENDS Integers, FiniteSets

CONSTANTS
    Thread,      \* the client threads
    Proc,        \* the client processes
    ProcOf,      \* ProcOf[t]: the process of thread t
    EC_SEM_NUM   \* number of semaphores (ecat_type.h)

ASSUME SyncAssumption ==
    /\ EC_SEM_NUM \in Nat \ {0}
    /\ ProcOf \in [Thread -> Proc]
    /\ IsFiniteSet(Thread)

Slot == 0 .. EC_SEM_NUM - 1

VARIABLES
    mpc,       \* the master: "exchange", "copy", "getvalue", "post"
    slot,      \* the semaphore updateSempahore is at
    sem,       \* value of each semaphore
    buffer,    \* buffer[p]: the positions of threadId written so far
    size,      \* size[p]: threadId.size()
    tpc,       \* each thread: "run", "push", "write", "size", "blocked", "dead"
    tpos,      \* the position push_back found free
    tslot,     \* the argument of waitForSignal
    taken,     \* history: signals taken from a slot since the last image copy
    carried    \* history: threads blocked since before the last image copy

masterVars == <<mpc, slot>>
tableVars  == <<buffer, size>>
threadVars == <<tpc, tpos, tslot>>
histVars   == <<taken, carried>>
vars == <<mpc, slot, sem, buffer, size, tpc, tpos, tslot, taken, carried>>

Init ==
    /\ mpc = "exchange"
    /\ slot = 0
    /\ sem = [s \in Slot |-> 1]            \* sem_open(..., 1)
    /\ buffer = [p \in Proc |-> [i \in {} |-> 0]]
    /\ size = [p \in Proc |-> 0]
    /\ tpc = [t \in Thread |-> "run"]
    /\ tpos = [t \in Thread |-> 0]
    /\ tslot = [t \in Thread |-> 0]
    /\ taken = [s \in Slot |-> 0]
    /\ carried = {}

Blocked(t) == tpc[t] = "blocked"

----------------------------------------------------------------------------
(* The master's cyclic loop.                                               *)

\* ec_send_processdata, ec_receive_processdata and the working counter test:
\* an incomplete exchange goes straight to the next one.
Exchange ==
    /\ mpc = "exchange"
    /\ mpc' \in {"exchange", "copy"}
    /\ UNCHANGED <<slot, sem, tableVars, threadVars, histVars>>

\* The two memcpy calls; a new image starts a new count of signals taken.
CopyImages ==
    /\ mpc = "copy"
    /\ mpc' = "getvalue"
    /\ slot' = 0
    /\ taken' = [s \in Slot |-> 0]
    /\ carried' = {t \in Thread : Blocked(t)}
    /\ UNCHANGED <<sem, tableVars, threadVars>>

\* Mutant: the loop stops before the last semaphore.
NextSlotShort ==
    IF slot + 2 < EC_SEM_NUM
    THEN mpc' = "getvalue" /\ slot' = slot + 1
    ELSE mpc' = "exchange" /\ slot' = 0

\* The loop of updateSempahore goes on to the next semaphore, or returns.
NextSlot ==
    IF slot + 1 < EC_SEM_NUM
    THEN mpc' = "getvalue" /\ slot' = slot + 1
    ELSE mpc' = "exchange" /\ slot' = 0

\* Mutant: the value read is not tested.
SemGetValueUntested ==
    /\ mpc = "getvalue"
    /\ mpc' = "post"
    /\ UNCHANGED <<slot, sem, tableVars, threadVars, histVars>>

\* Mutant: the value is tested against 0 instead of 1.
SemGetValueOffByOne ==
    /\ mpc = "getvalue"
    /\ IF sem[slot] < 0
       THEN mpc' = "post" /\ UNCHANGED slot
       ELSE NextSlot
    /\ UNCHANGED <<sem, tableVars, threadVars, histVars>>

\* sem_getvalue: only a semaphore read as zero is going to be posted.
SemGetValue ==
    /\ mpc = "getvalue"
    /\ IF sem[slot] < 1
       THEN mpc' = "post" /\ UNCHANGED slot
       ELSE NextSlot
    /\ UNCHANGED <<sem, tableVars, threadVars, histVars>>

\* Mutant: a semaphore is posted until it is found set.
SemPostAgain ==
    /\ mpc = "post"
    /\ sem' = [sem EXCEPT ![slot] = @ + 1]
    /\ mpc' = "getvalue"
    /\ UNCHANGED <<slot, tableVars, threadVars, histVars>>

\* sem_post
SemPost ==
    /\ mpc = "post"
    /\ sem' = [sem EXCEPT ![slot] = @ + 1]
    /\ NextSlot
    /\ UNCHANGED <<tableVars, threadVars, histVars>>

Master == Exchange \/ CopyImages \/ SemGetValue \/ SemPost

----------------------------------------------------------------------------
(* EcatConfig::wait, called by thread t.                                   *)

\* The positions of threadId that hold t.
Positions(t) ==
    LET p == ProcOf[t]
    IN {i \in DOMAIN buffer[p] : i < size[p] /\ buffer[p][i] = t}

\* Another thread of the process is inside push_back.
Pushing(t) == \E u \in Thread \ {t} : ProcOf[u] = ProcOf[t] /\ tpc[u] = "write"

\* std::find meets t: waitForSignal at the first position that holds it.
Find(t) ==
    /\ tpc[t] = "run"
    /\ \E i \in Positions(t) :
          /\ \A j \in Positions(t) : i <= j
          /\ tslot' = [tslot EXCEPT ![t] = i]
    /\ tpc' = [tpc EXCEPT ![t] = "blocked"]
    /\ UNCHANGED <<masterVars, sem, tableVars, tpos, histVars>>

\* std::find does not meet t: it is not in the vector, or the vector's buffer
\* is being replaced while it is read.
Missed(t) == Positions(t) = {} \/ Pushing(t)

\* "Too many threads.": wait() returns at once, without having blocked.
Refuse(t) ==
    /\ tpc[t] = "run"
    /\ Missed(t)
    /\ size[ProcOf[t]] >= EC_SEM_NUM
    /\ UNCHANGED vars

\* The size test lets t append itself.
Admit(t) ==
    /\ tpc[t] = "run"
    /\ Missed(t)
    /\ size[ProcOf[t]] < EC_SEM_NUM
    /\ tpc' = [tpc EXCEPT ![t] = "push"]
    /\ UNCHANGED <<masterVars, sem, tableVars, tpos, tslot, histVars>>

\* push_back reads where the vector ends ...
PushRead(t) ==
    /\ tpc[t] = "push"
    /\ tpos' = [tpos EXCEPT ![t] = size[ProcOf[t]]]
    /\ tpc' = [tpc EXCEPT ![t] = "write"]
    /\ UNCHANGED <<masterVars, sem, tableVars, tslot, histVars>>

\* ... stores t there and moves the end: from the value it read, or, where the
\* increment is done in memory, from what it has become.
PushWrite(t) ==
    LET p == ProcOf[t] IN
    /\ tpc[t] = "write"
    /\ buffer' = [buffer EXCEPT ![p] =
                    [i \in DOMAIN @ \cup {tpos[t]} |->
                        IF i = tpos[t] THEN t ELSE @[i]]]
    /\ \E end \in {tpos[t], size[p]} : size' = [size EXCEPT ![p] = end + 1]
    /\ tpc' = [tpc EXCEPT ![t] = "size"]
    /\ UNCHANGED <<masterVars, sem, tpos, tslot, histVars>>

\* Two push_backs that both replaced the buffer free it twice: the process dies.
PushAbort(t) ==
    /\ tpc[t] = "write"
    /\ size[ProcOf[t]] # tpos[t]
    /\ tpc' = [u \in Thread |-> IF ProcOf[u] = ProcOf[t] THEN "dead" ELSE tpc[u]]
    /\ UNCHANGED <<masterVars, sem, tableVars, tpos, tslot, histVars>>

\* waitForSignal(threadId.size() - 1)
UseLast(t) ==
    /\ tpc[t] = "size"
    /\ tslot' = [tslot EXCEPT ![t] = size[ProcOf[t]] - 1]
    /\ tpc' = [tpc EXCEPT ![t] = "blocked"]
    /\ UNCHANGED <<masterVars, sem, tableVars, tpos, histVars>>

\* Mutant: sem_wait does not block.
SemWaitNoBlock(t) ==
    /\ Blocked(t)
    /\ tslot[t] \in Slot
    /\ sem' = [sem EXCEPT ![tslot[t]] = @ - 1]
    /\ taken' = [taken EXCEPT ![tslot[t]] = @ + 1]
    /\ tpc' = [tpc EXCEPT ![t] = "run"]
    /\ carried' = carried \ {t}
    /\ UNCHANGED <<masterVars, tableVars, tpos, tslot>>

\* sem_wait returns: wait() returns to its caller.
SemWait(t) ==
    /\ Blocked(t)
    /\ tslot[t] \in Slot
    /\ sem[tslot[t]] > 0
    /\ sem' = [sem EXCEPT ![tslot[t]] = @ - 1]
    /\ taken' = [taken EXCEPT ![tslot[t]] = @ + 1]
    /\ tpc' = [tpc EXCEPT ![t] = "run"]
    /\ carried' = carried \ {t}
    /\ UNCHANGED <<masterVars, tableVars, tpos, tslot>>

\* A signal handler interrupts sem_wait, whose result is not looked at: wait()
\* returns without a signal.
SemInterrupted(t) ==
    /\ Blocked(t)
    /\ tslot[t] \in Slot
    /\ tpc' = [tpc EXCEPT ![t] = "run"]
    /\ carried' = carried \ {t}
    /\ UNCHANGED <<masterVars, sem, tableVars, tpos, tslot, taken>>

\* sem_mutex has no such element: what lies behind the array is not a semaphore.
SemOutOfRange(t) ==
    /\ Blocked(t)
    /\ tslot[t] \notin Slot
    /\ tpc' = [u \in Thread |-> IF ProcOf[u] = ProcOf[t] THEN "dead" ELSE tpc[u]]
    /\ UNCHANGED <<masterVars, sem, tableVars, tpos, tslot, histVars>>

Client(t) ==
    \/ Find(t) \/ Refuse(t) \/ Admit(t)
    \/ PushRead(t) \/ PushWrite(t) \/ PushAbort(t) \/ UseLast(t)
    \/ SemWait(t) \/ SemInterrupted(t) \/ SemOutOfRange(t)

Next == Master \/ \E t \in Thread : Client(t)

\* The master thread runs, but nothing promises that an exchange is complete;
\* a client inside wait() runs when it can; calling wait() again is up to the
\* application.
Fairness ==
    /\ WF_vars(CopyImages \/ SemGetValue \/ SemPost)
    /\ \A t \in Thread :
          WF_vars(PushRead(t) \/ PushWrite(t) \/ UseLast(t) \/ SemWait(t))

Safety == Init /\ [][Next]_vars
Spec == Safety /\ Fairness

----------------------------------------------------------------------------
(* Properties.                                                             *)

\* Every variable of the hand-over has its type; in particular a semaphore is
\* never negative and the thread table never holds anything but threads.
TypeOK ==
    /\ mpc \in {"exchange", "copy", "getvalue", "post"}
    /\ slot \in Slot
    /\ sem \in [Slot -> Nat]
    /\ size \in [Proc -> Nat]
    /\ DOMAIN buffer = Proc
    /\ \A p \in Proc :
          /\ DOMAIN buffer[p] \subseteq Nat
          /\ \A i \in DOMAIN buffer[p] : buffer[p][i] \in Thread
    /\ tpc \in [Thread -> {"run", "push", "write", "size", "blocked", "dead"}]
    /\ tpos \in [Thread -> Nat]
    /\ tslot \in [Thread -> Nat]
    /\ taken \in [Slot -> Nat]
    /\ carried \subseteq Thread

\* updateSempahore reads a semaphore and posts it in two steps while clients
\* take it: its value still never exceeds 1, so signals do not pile up for a
\* client that is late.
SemBinary == \A s \in Slot : sem[s] <= 1

\* One image's signals release at most two waits of a slot: the signal left over
\* from the image before, and its own.  A thread all of whose waits end with a
\* signal thus runs at most two periods on the same inputs.  Waits that end
\* without one are not bounded: a thread refused with "Too many threads" and one
\* whose sem_wait is interrupted return at once and may come back any number of
\* times within an image.
AtMostTwice == \A s \in Slot : taken[s] <= 2

\* The slots updateSempahore has been through since the last image copy.
Visited ==
    IF mpc \in {"exchange", "copy"} THEN Slot ELSE 0 .. slot - 1

\* When updateSempahore has passed a slot, the current image has released a
\* wait there, or a signal for it is ready: no interleaving of the test and
\* the post with sem_wait loses a cycle's signal.
Announced == \A s \in Visited : sem[s] = 1 \/ taken[s] >= 1

\* A semaphore about to be posted is still zero: the master is the only poster
\* and a wait cannot take from zero.
PostsZero == mpc = "post" => sem[slot] = 0

\* What is left of the two signals of an image: one is still to come for a slot
\* updateSempahore has not reached.
Budget ==
    \A s \in Slot : taken[s] + sem[s] <= IF s \in Visited THEN 2 ELSE 1

\* The inductive invariant behind SemBinary, AtMostTwice and Announced.
HandOverInv == SemBinary /\ PostsZero /\ Budget /\ Announced

\* As long as complete exchanges keep coming, a thread blocked in wait() is
\* released, unless at some moment another thread is blocked on the same
\* semaphore.  A thread that only used it before, or that never called wait(),
\* does not excuse a wait that does not end.
SoleWaiterReleased ==
    []<>(mpc = "copy") =>
        \A t \in Thread :
            (Blocked(t) /\ tslot[t] \in Slot)
                ~> \/ ~Blocked(t)
                   \/ \E u \in Thread \ {t} : Blocked(u) /\ tslot[u] = tslot[t]

\* The slots the current image has still to signal.
Unvisited == Slot \ Visited

Signals == INSTANCE BinarySignal WITH signal <- sem, pending <- Unvisited

\* The test and the post of updateSempahore, taken apart, implement the atomic
\* "set the signal" of BinarySignal, once for each slot and image.
ImplementsSignals == Signals!Spec

\* updateSempahore tells the other processes that this cycle's data can be used:
\* every thread that was waiting when the image was copied finds a signal.
NotifiesAll ==
    mpc = "exchange" =>
        \A s \in Slot :
            Cardinality({t \in carried : Blocked(t) /\ tslot[t] = s}) <= sem[s]

\* The size test of wait() keeps every thread within the semaphore array.
SlotInRange == \A t \in Thread : Blocked(t) => tslot[t] \in Slot

=============================================================================
