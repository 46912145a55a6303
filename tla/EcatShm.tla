------------------------------ MODULE EcatShm -------------------------------
(***************************************************************************)
(* The named objects the master and its clients share, and how they are    *)
(* created, replaced and attached to.                                      *)
(*                                                                         *)
(* A name ("ecm0", "pd_input0", "pd_output0", "sync0_i") leads to at most  *)
(* one object; remove/unlink frees the name but not the object, which      *)
(* lives on for the processes that hold it; the next open_or_create makes  *)
(* a new object.  The objects a name has led to are numbered 1, 2, ...     *)
(* and content[n][k] is what the k-th one holds:                           *)
(*   a semaphore: its value;                                               *)
(*   an image:    0 while its size is zero, 1 once truncated to its size;  *)
(*   the bus:     0 empty, 1 EcatBus constructed, 2 slave tables written.  *)
(*                                                                         *)
(* The master (slaveinfo, createSharedMemory, createPdDataMemoryProvider,  *)
(* then the cyclic loop) may be stopped by a signal between any two steps  *)
(* and started again; nothing is removed when it stops.  A client attaches *)
(* (EcatConfig's constructor), waits for signals and may end at any time.  *)
(***************************************************************************)
EXTENDS Integers, Sequences

CONSTANTS
    Client,        \* the client processes, each with one thread
    EC_SEM_NUM,    \* number of semaphores
    MaxStart,      \* bound: how often the master is started
    MaxAttach      \* bound: how often each client is started

ASSUME ShmAssumption ==
    /\ EC_SEM_NUM \in Nat \ {0}
    /\ MaxStart \in Nat
    /\ MaxAttach \in Nat

Slot == 0 .. EC_SEM_NUM - 1

Sync(s) == <<"sync", s>>
Image(i) == <<"image", i>>         \* 0: pd_input, 1: pd_output
Ecm == <<"ecm", 0>>
Name == {Sync(s) : s \in Slot} \cup {Image(0), Image(1), Ecm}

VARIABLES
    name,      \* name[n]: the object n leads to, 0 when there is none
    content,   \* content[n]: what the objects of name n hold
    mpc,       \* the master's control point
    at,        \* the semaphore or the image the master is at
    mh,        \* mh[n]: the object the master holds for n, 0 for none
    epoch,     \* how often the master has been started
    cpc,       \* each client's control point
    cat,       \* the semaphore or image it is at; the slot it waits on
    again,     \* TRUE in the second call of getPdDataMemoryProvider
    ch,        \* ch[c][n]: the object c holds for n
    tries,     \* how often c has been started
    since,     \* history: the epoch of the running master c began to attach to
    warned,    \* c printed "Ec-Master is not running."
    quiet      \* history: no client process has lived since the master's start

shmVars    == <<name, content>>
masterVars == <<mpc, at, mh, epoch>>
clientVars == <<cpc, cat, again, ch, tries, since, warned>>
vars == <<name, content, mpc, at, mh, epoch,
          cpc, cat, again, ch, tries, since, warned, quiet>>

NoHandles == [n \in Name |-> 0]

Init ==
    /\ name = NoHandles
    /\ content = [n \in Name |-> <<>>]
    /\ mpc = "off"
    /\ at = 0
    /\ mh = NoHandles
    /\ epoch = 0
    /\ cpc = [c \in Client |-> "off"]
    /\ cat = [c \in Client |-> 0]
    /\ again = [c \in Client |-> FALSE]
    /\ ch = [c \in Client |-> NoHandles]
    /\ tries = [c \in Client |-> 0]
    /\ since = [c \in Client |-> 0]
    /\ warned = [c \in Client |-> FALSE]
    /\ quiet = FALSE

\* The master is in its cyclic loop.
Running == mpc \in {"run", "getvalue", "post"}

----------------------------------------------------------------------------
(* Names and objects.                                                      *)

\* What a new object of name n holds: a semaphore is created with value 1.
Fresh(n) == IF n[1] = "sync" THEN 1 ELSE 0

\* The object that opening n gives.
Opened(n) == IF name[n] = 0 THEN Len(content[n]) + 1 ELSE name[n]

\* open_or_create, sem_open(O_CREAT)
OpenOrCreate(n) ==
    /\ name' = [name EXCEPT ![n] = Opened(n)]
    /\ content' = IF name[n] = 0
                  THEN [content EXCEPT ![n] = Append(@, Fresh(n))]
                  ELSE content

\* shared_memory_object::remove, sem_unlink
Remove(n) ==
    /\ name' = [name EXCEPT ![n] = 0]
    /\ UNCHANGED content

----------------------------------------------------------------------------
(* The master.                                                             *)

Start ==
    /\ mpc = "off"
    /\ epoch < MaxStart
    /\ epoch' = epoch + 1
    /\ mpc' = "removeEcm"
    /\ at' = 0
    /\ quiet' = (\A c \in Client : cpc[c] \in {"off", "failed"})
    /\ UNCHANGED <<shmVars, mh, clientVars>>

\* SIGINT, SIGTERM or a crash: the process ends, the named objects stay.
Stop ==
    /\ mpc # "off"
    /\ mpc' = "off"
    /\ at' = 0
    /\ mh' = NoHandles
    /\ UNCHANGED <<shmVars, epoch, clientVars, quiet>>

RemoveEcm ==
    /\ mpc = "removeEcm"
    /\ Remove(Ecm)
    /\ mpc' = "openEcm"
    /\ UNCHANGED <<at, mh, epoch, clientVars, quiet>>

OpenEcm ==
    /\ mpc = "openEcm"
    /\ OpenOrCreate(Ecm)
    /\ mh' = [mh EXCEPT ![Ecm] = Opened(Ecm)]
    /\ mpc' = "construct"
    /\ UNCHANGED <<at, epoch, clientVars, quiet>>

\* find_or_construct
Construct ==
    /\ mpc = "construct"
    /\ content' = [content EXCEPT ![Ecm][mh[Ecm]] = IF @ = 0 THEN 1 ELSE @]
    /\ mpc' = "semOpen"
    /\ UNCHANGED <<name, at, mh, epoch, clientVars, quiet>>

\* SEM_FAILED makes createSharedMemory return false, which slaveinfo does not
\* look at: it goes on without this semaphore and the later ones.
SemOpen ==
    /\ mpc = "semOpen"
    /\ \/ /\ OpenOrCreate(Sync(at))
          /\ mh' = [mh EXCEPT ![Sync(at)] = Opened(Sync(at))]
          /\ mpc' = "semTest"
          /\ UNCHANGED at
       \/ /\ mpc' = "removeImage"
          /\ at' = 0
          /\ UNCHANGED <<shmVars, mh>>
    /\ UNCHANGED <<epoch, clientVars, quiet>>

\* The value of the semaphore the master is at.
Value == content[Sync(at)][mh[Sync(at)]]

\* Mutant: a semaphore left at another value is not replaced.
SemTestKeeps ==
    /\ mpc = "semTest"
    /\ mpc' = "semCheck"
    /\ UNCHANGED <<shmVars, at, mh, epoch, clientVars, quiet>>

SemTest ==
    /\ mpc = "semTest"
    /\ mpc' = IF Value # 1 THEN "semUnlink" ELSE "semCheck"
    /\ UNCHANGED <<shmVars, at, mh, epoch, clientVars, quiet>>

\* sem_destroy has no effect on a named semaphore; sem_unlink frees its name.
SemUnlink ==
    /\ mpc = "semUnlink"
    /\ Remove(Sync(at))
    /\ mpc' = "semReopen"
    /\ UNCHANGED <<at, mh, epoch, clientVars, quiet>>

SemReopen ==
    /\ mpc = "semReopen"
    /\ OpenOrCreate(Sync(at))
    /\ mh' = [mh EXCEPT ![Sync(at)] = Opened(Sync(at))]
    /\ mpc' = "semCheck"
    /\ UNCHANGED <<at, epoch, clientVars, quiet>>

\* The second test: a value other than 1 also ends createSharedMemory, and the
\* later semaphores stay unopened.
SemCheck ==
    /\ mpc = "semCheck"
    /\ IF Value = 1 /\ at + 1 < EC_SEM_NUM
       THEN mpc' = "semOpen" /\ at' = at + 1
       ELSE mpc' = "removeImage" /\ at' = 0
    /\ UNCHANGED <<shmVars, mh, epoch, clientVars, quiet>>

\* Each step of createPdDataMemoryProvider is done for the input image, then for
\* the output image.
InThenOut(next) ==
    IF at = 0
    THEN at' = 1 /\ UNCHANGED mpc
    ELSE at' = 0 /\ mpc' = next

RemoveImage ==
    /\ mpc = "removeImage"
    /\ Remove(Image(at))
    /\ InThenOut("openImage")
    /\ UNCHANGED <<mh, epoch, clientVars, quiet>>

\* Mutant: the image is opened first and its name removed afterwards.
OpenImageRemoves ==
    /\ mpc = "openImage"
    /\ content' = [content EXCEPT ![Image(at)] = Append(@, 0)]
    /\ name' = [name EXCEPT ![Image(at)] = 0]
    /\ mh' = [mh EXCEPT ![Image(at)] = Len(content[Image(at)]) + 1]
    /\ InThenOut("truncate")
    /\ UNCHANGED <<epoch, clientVars, quiet>>

OpenImage ==
    /\ mpc = "openImage"
    /\ OpenOrCreate(Image(at))
    /\ mh' = [mh EXCEPT ![Image(at)] = Opened(Image(at))]
    /\ InThenOut("truncate")
    /\ UNCHANGED <<epoch, clientVars, quiet>>

\* Mutant: only the input image is given its size.
TruncateInput ==
    /\ mpc = "truncate"
    /\ content' = [content EXCEPT ![Image(0)][mh[Image(0)]] = 1]
    /\ InThenOut("fill")
    /\ UNCHANGED <<name, mh, epoch, clientVars, quiet>>

Truncate ==
    /\ mpc = "truncate"
    /\ content' = [content EXCEPT ![Image(at)][mh[Image(at)]] = 1]
    /\ InThenOut("fill")
    /\ UNCHANGED <<name, mh, epoch, clientVars, quiet>>

\* Mutant: the cyclic loop starts before the slave tables are written.
FillTablesLate ==
    /\ mpc = "fill"
    /\ mpc' = "run"
    /\ UNCHANGED <<shmVars, at, mh, epoch, clientVars, quiet>>

\* The rest of slaveinfo writes the slave tables; main then goes operational.
FillTables ==
    /\ mpc = "fill"
    /\ content' = [content EXCEPT ![Ecm][mh[Ecm]] = 2]
    /\ mpc' = "run"
    /\ UNCHANGED <<name, at, mh, epoch, clientVars, quiet>>

\* A complete exchange: the images are copied and updateSempahore starts.
Cycle ==
    /\ mpc = "run"
    /\ mpc' = "getvalue"
    /\ at' = 0
    /\ UNCHANGED <<shmVars, mh, epoch, clientVars, quiet>>

NextSlot ==
    IF at + 1 < EC_SEM_NUM
    THEN mpc' = "getvalue" /\ at' = at + 1
    ELSE mpc' = "run" /\ at' = 0

\* Mutant: the value read is not tested.
SemGetValueUntested ==
    /\ mpc = "getvalue"
    /\ mh[Sync(at)] # 0
    /\ mpc' = "post"
    /\ UNCHANGED <<shmVars, at, mh, epoch, clientVars, quiet>>

\* Mutant: the value is tested against 0 instead of 1.
SemGetValueOffByOne ==
    /\ mpc = "getvalue"
    /\ mh[Sync(at)] # 0
    /\ IF Value < 0
       THEN mpc' = "post" /\ UNCHANGED at
       ELSE NextSlot
    /\ UNCHANGED <<shmVars, mh, epoch, clientVars, quiet>>

SemGetValue ==
    /\ mpc = "getvalue"
    /\ mh[Sync(at)] # 0
    /\ IF Value < 1
       THEN mpc' = "post" /\ UNCHANGED at
       ELSE NextSlot
    /\ UNCHANGED <<shmVars, mh, epoch, clientVars, quiet>>

\* sem_mutex[at] is SEM_FAILED or was never assigned: sem_getvalue reads through
\* a null or a garbage pointer and the process dies.
SemGarbage ==
    /\ mpc = "getvalue"
    /\ mh[Sync(at)] = 0
    /\ mpc' = "off"
    /\ at' = 0
    /\ mh' = NoHandles
    /\ UNCHANGED <<shmVars, epoch, clientVars, quiet>>

SemPost ==
    /\ mpc = "post"
    /\ content' = [content EXCEPT ![Sync(at)][mh[Sync(at)]] = @ + 1]
    /\ NextSlot
    /\ UNCHANGED <<name, mh, epoch, clientVars, quiet>>

MasterStep ==
    \/ RemoveEcm \/ OpenEcm \/ Construct
    \/ SemOpen \/ SemTest \/ SemUnlink \/ SemReopen \/ SemCheck
    \/ RemoveImage \/ OpenImage \/ Truncate \/ FillTables
    \/ Cycle \/ SemGetValue \/ SemGarbage \/ SemPost

----------------------------------------------------------------------------
(* A client.                                                               *)

GoTo(c, pc) == cpc' = [cpc EXCEPT ![c] = pc]

Begin(c) ==
    /\ cpc[c] = "off"
    /\ tries[c] < MaxAttach
    /\ tries' = [tries EXCEPT ![c] = @ + 1]
    /\ since' = [since EXCEPT ![c] = IF Running THEN epoch ELSE 0]
    /\ cat' = [cat EXCEPT ![c] = 0]
    /\ again' = [again EXCEPT ![c] = FALSE]
    /\ ch' = [ch EXCEPT ![c] = NoHandles]
    /\ warned' = [warned EXCEPT ![c] = FALSE]
    /\ quiet' = FALSE
    /\ GoTo(c, "openImage")
    /\ UNCHANGED <<shmVars, masterVars>>

\* The client ends, blocked or not: by itself, or by exit(1) when sem_open fails.
End(c) ==
    /\ cpc[c] \notin {"off", "failed"}
    /\ GoTo(c, "off")
    /\ UNCHANGED <<shmVars, masterVars, cat, again, ch, tries, since, warned, quiet>>

ClientInThenOut(c, next) ==
    IF cat[c] = 0
    THEN cat' = [cat EXCEPT ![c] = 1] /\ UNCHANGED cpc
    ELSE cat' = [cat EXCEPT ![c] = 0] /\ GoTo(c, next)

ClientOpenImage(c) ==
    /\ cpc[c] = "openImage"
    /\ OpenOrCreate(Image(cat[c]))
    /\ ch' = [ch EXCEPT ![c][Image(cat[c])] = Opened(Image(cat[c]))]
    /\ ClientInThenOut(c, "map")
    /\ UNCHANGED <<masterVars, again, tries, since, warned, quiet>>

\* mapped_region maps the whole object; an object of size zero cannot be mapped
\* and the exception ends the process.
ClientMap(c) ==
    /\ cpc[c] = "map"
    /\ IF content[Image(cat[c])][ch[c][Image(cat[c])]] = 0
       THEN GoTo(c, "failed") /\ UNCHANGED cat
       ELSE ClientInThenOut(c, IF again[c] THEN "attached" ELSE "openEcm")
    /\ UNCHANGED <<shmVars, masterVars, again, ch, tries, since, warned, quiet>>

ClientOpenEcm(c) ==
    /\ cpc[c] = "openEcm"
    /\ OpenOrCreate(Ecm)
    /\ ch' = [ch EXCEPT ![c][Ecm] = Opened(Ecm)]
    /\ GoTo(c, "find")
    /\ UNCHANGED <<masterVars, cat, again, tries, since, warned, quiet>>

\* find: an EcatBus that is missing is announced and constructed.
ClientFind(c) ==
    /\ cpc[c] = "find"
    /\ IF content[Ecm][ch[c][Ecm]] > 0
       THEN GoTo(c, "semOpen") /\ UNCHANGED warned
       ELSE GoTo(c, "construct") /\ warned' = [warned EXCEPT ![c] = TRUE]
    /\ UNCHANGED <<shmVars, masterVars, cat, again, ch, tries, since, quiet>>

\* construct throws when somebody else has constructed it meanwhile.
ClientConstruct(c) ==
    /\ cpc[c] = "construct"
    /\ IF content[Ecm][ch[c][Ecm]] = 0
       THEN /\ content' = [content EXCEPT ![Ecm][ch[c][Ecm]] = 1]
            /\ GoTo(c, "semOpen")
       ELSE GoTo(c, "failed") /\ UNCHANGED content
    /\ UNCHANGED <<name, masterVars, cat, again, ch, tries, since, warned, quiet>>

\* The semaphores, then getPdDataMemoryProvider once more.
ClientSemOpen(c) ==
    /\ cpc[c] = "semOpen"
    /\ OpenOrCreate(Sync(cat[c]))
    /\ ch' = [ch EXCEPT ![c][Sync(cat[c])] = Opened(Sync(cat[c]))]
    /\ IF cat[c] + 1 < EC_SEM_NUM
       THEN cat' = [cat EXCEPT ![c] = @ + 1] /\ UNCHANGED <<cpc, again>>
       ELSE /\ cat' = [cat EXCEPT ![c] = 0]
            /\ again' = [again EXCEPT ![c] = TRUE]
            /\ GoTo(c, "openImage")
    /\ UNCHANGED <<masterVars, tries, since, warned, quiet>>

\* waitForSignal(s), directly or from wait()
ClientWait(c) ==
    /\ cpc[c] = "attached"
    /\ \E s \in Slot : cat' = [cat EXCEPT ![c] = s]
    /\ GoTo(c, "blocked")
    /\ UNCHANGED <<shmVars, masterVars, again, ch, tries, since, warned, quiet>>

\* Mutant: sem_wait does not block.
ClientTakeNoBlock(c) ==
    LET n == Sync(cat[c])  k == ch[c][n] IN
    /\ cpc[c] = "blocked"
    /\ content' = [content EXCEPT ![n][k] = @ - 1]
    /\ GoTo(c, "attached")
    /\ UNCHANGED <<name, masterVars, cat, again, ch, tries, since, warned, quiet>>

\* sem_wait takes the signal and wait() returns.
ClientTake(c) ==
    LET n == Sync(cat[c])  k == ch[c][n] IN
    /\ cpc[c] = "blocked"
    /\ content[n][k] > 0
    /\ content' = [content EXCEPT ![n][k] = @ - 1]
    /\ GoTo(c, "attached")
    /\ UNCHANGED <<name, masterVars, cat, again, ch, tries, since, warned, quiet>>

ClientStep(c) ==
    \/ ClientOpenImage(c) \/ ClientMap(c) \/ ClientOpenEcm(c) \/ ClientFind(c)
    \/ ClientConstruct(c) \/ ClientSemOpen(c) \/ ClientTake(c)

Next ==
    \/ Start \/ Stop \/ MasterStep
    \/ \E c \in Client : Begin(c) \/ End(c) \/ ClientWait(c) \/ ClientStep(c)

\* The processes run; nobody is obliged to start, stop or call wait(), and
\* nothing promises that an exchange with the slaves is complete.
Fairness ==
    /\ WF_vars(MasterStep /\ ~Cycle)
    /\ \A c \in Client : WF_vars(ClientStep(c))

Safety == Init /\ [][Next]_vars
Spec == Safety /\ Fairness

----------------------------------------------------------------------------
(* Properties.                                                             *)

\* The types: names and handles lead to objects that have been created.
TypeOK ==
    /\ content \in [Name -> Seq(Nat)]
    /\ name \in [Name -> Nat]
    /\ mh \in [Name -> Nat]
    /\ \A n \in Name : name[n] <= Len(content[n]) /\ mh[n] <= Len(content[n])
    /\ mpc \in {"off", "removeEcm", "openEcm", "construct", "semOpen", "semTest",
                "semUnlink", "semReopen", "semCheck", "removeImage", "openImage",
                "truncate", "fill", "run", "getvalue", "post"}
    /\ at \in Slot \cup {0, 1}
    /\ epoch \in 0 .. MaxStart
    /\ cpc \in [Client -> {"off", "openImage", "map", "openEcm", "find",
                           "construct", "semOpen", "attached", "blocked", "failed"}]
    /\ cat \in [Client -> Slot \cup {0, 1}]
    /\ again \in [Client -> BOOLEAN]
    /\ ch \in [Client -> [Name -> Nat]]
    /\ \A c \in Client : \A n \in Name : ch[c][n] <= Len(content[n])
    /\ tries \in [Client -> 0 .. MaxAttach]
    /\ since \in [Client -> 0 .. MaxStart]
    /\ warned \in [Client -> BOOLEAN]
    /\ quiet \in BOOLEAN

\* While the master runs, the names lead to the bus and the images it holds,
\* whatever clients opened and created during its start: a later client cannot
\* be given another object.
MasterOwnsNames ==
    Running => \A n \in {Ecm, Image(0), Image(1)} : name[n] = mh[n]

\* The master c began to attach to is still the one that runs.
SameMaster(c) == Running /\ since[c] = epoch

\* A client that began to attach while this master was running shares every
\* object with it and finds the slave tables written.
LateClientShares ==
    \A c \in Client :
        SameMaster(c) /\ cpc[c] \in {"attached", "blocked"} =>
            /\ \A n \in Name : mh[n] # 0 => ch[c][n] = mh[n]
            /\ content[Ecm][ch[c][Ecm]] = 2

\* A client that attaches to a running master neither fails on an object of size
\* zero nor is told that the master is not running.
LateClientAttaches ==
    \A c \in Client : SameMaster(c) => cpc[c] # "failed" /\ ~warned[c]

\* A master started when no client lives has one signal in every semaphore it
\* opened, whatever the clients of earlier masters left in them when they died.
CleanStart ==
    quiet /\ mpc = "run" =>
        \A s \in Slot : mh[Sync(s)] # 0 => content[Sync(s)][mh[Sync(s)]] = 1

\* A semaphore never holds more than one signal, restarts included.
SemBinary ==
    \A s \in Slot : \A k \in 1 .. Len(content[Sync(s)]) : content[Sync(s)][k] <= 1

\* As long as complete exchanges keep coming, a client blocked on a semaphore of
\* the running master it attached to is released, unless it ends, the master
\* stops, or another client takes the signals of that slot.
LateClientReleased ==
    []<>(mpc = "getvalue") =>
      \A c \in Client :
        (cpc[c] = "blocked" /\ SameMaster(c))
            ~> \/ cpc[c] # "blocked"
               \/ ~SameMaster(c)
               \/ \E d \in Client \ {c} : cpc[d] = "blocked" /\ cat[d] = cat[c]

=============================================================================
