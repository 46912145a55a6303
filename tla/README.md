# A TLA+ model of rocos-soem

rocos-soem is an EtherCAT master process (`src/src/main.cpp`, on top of the
vendored SOEM library) and a client library (`EcatConfig`) that lets robot
control processes read and write the process data through POSIX shared memory,
in step with the bus cycle. This directory holds TLA+ modules of its core, the
TLC configurations that check them, and proofs checked by TLAPS.

## The system

| Part | State | Operations | Talks to |
|---|---|---|---|
| `main`, `slaveinfo` | `ec_slave[]`, `ec_group[]`, `chk`, `wkc`, `pEcm` | bring the bus up, request OP, exchange, copy, signal | slaves (frames), shared memory |
| `EcatConfigMaster` | named objects `ecm`, `pd_input`, `pd_output`, `sync_0..9` and its handles | `createSharedMemory`, `createPdDataMemoryProvider`, `updateSempahore` | clients (shared objects) |
| `EcatConfig` | handles, `threadId` | constructor, `wait`, `waitForSignal`, variable access | master (shared objects) |
| `si_map_sdo`, `si_PDOassign` | slave tables in `EcatBus` | walk the CoE dictionary, publish name, offset, size | slaves (SDO uploads), clients |
| `ecatcheck` | `inOP`, `docheckstate`, `islost` | acknowledge, advance, reconfigure, recover slaves | shares `ec_slave[]` with `main`; never active, `inOP` is never set |
| accessors of `EcatConfig` | none of their own | get, set and find variables by id, by name, through pointers | images in shared memory |
| `EcatProcess` | `IOmap`, socket, EEPROM control | `getSlaveInfo`: list variables by CoE or by SII | slaves; compiled in, never instantiated |
| SOEM | process image layout, frame indices | `ec_config`, `ec_statecheck`, `ec_send/receive_processdata`, mailbox | slaves |
| slaves | AL state, FMMUs, dictionary | follow or refuse requests, vanish, return | master |

What is hard here: the master and any number of client threads share semaphores
and memory without locks; either side may be stopped and started at any time and
names outlive processes; frames and SDO answers get lost and the code goes on
with zeros; failures of the start-up are printed and then ignored. `PROJECT.json`
lists these places as hazards with the properties that watch them.

## Modules

**`EcatSync`**: the cycle hand-over. The master is a program counter over
`Exchange`, `CopyImages`, and per semaphore `SemGetValue` and `SemPost`
(`updateSempahore`). A client thread in `EcatConfig::wait` goes through `Find` or
`Refuse`/`Admit`, `PushRead`, `PushWrite`, `UseLast` and `SemWait`
(`waitForSignal`). `threadId` has no lock: the vector is its buffer and its size,
and `push_back` is a read and a write. Racing calls are undefined behaviour; the
outcomes allowed are a lost update, a hole, and an abort (`PushAbort`). A slot
outside the array kills the process (`SemOutOfRange`). A refused thread, and one whose
`sem_wait` is interrupted (`SemInterrupted`), return without a signal. `taken` and `carried` are
history variables that only properties read.

**`BinarySignal`**: what the hand-over promises: each image sets each slot's
signal once, atomically; a set signal is taken by one reader. `EcatSync` implements
it with `signal <- sem` and `pending <- ` the slots not yet visited; the step that
implements `Raise` is `SemPost`, or the `SemGetValue` that finds the signal set.

**`EcatShm`**: names, objects and who holds which. A name leads to at most one
object; `remove`/`sem_unlink` frees the name only. Master: one action per call of
`createSharedMemory` and `createPdDataMemoryProvider`, `FillTables` for the rest of
`slaveinfo` (one step: no property looks inside), then the cycle. `Stop` may happen
between any two steps (SIGINT, SIGTERM, crash). A failed `sem_open` or a second
failed test ends `createSharedMemory` early, unnoticed, and the cycle then uses an
unset pointer (`SemGarbage`). Clients: one action per call of the constructor, which
calls `getPdDataMemoryProvider` twice.

**`ImageLayout`**: the process image as SOEM lays it out (`ecx_map_sm`,
`ecx_config_map_group`): byte oriented slaves on whole bytes, slaves of less than eight
bits packed, outputs before inputs. `PdoMap` and `EcatProcess` instantiate it with the
PDOs SOEM saw. `Totals` has the one operator they share, the sum a loop leaves behind.

**`PdoMap`**: `MapSlave`, SOEM's own reading of each slave (`ecx_map_coe_soe`, or `ecx_map_sii` when
that gives no bits), of which it lays out the images (`laid`): it may miss the type of a sync manager
and single entries, and with counts and indices whole parts. Then `Reassign`, the two unchecked
`ec_SDOwrite`s that give slave 1 other PDOs, and the walk of `si_map_sdo` and `si_PDOassign` over every
slave, each SDO upload answered or lost. A dictionary is a record of sync
manager types and of assigned PDOs with entries `[bits, obj]`. An upload of a PDO's index
and of its entry count is one read, as losing either has the same effect. `overrun` records
a store behind `ecatBus->slaves` or behind a variable table.

**`EcatMaster`**: `main` and `slaveinfo` with the slaves, from `Prepare` (the set-up before
the thread is created, which may end `main`) to the cyclic loop. Slaves have an AL state, an
error flag, programmed FMMUs; they may be absent, left in OP by an earlier master,
unplugged, come back with or without power loss, fall back to SAFE_OP, refuse SAFE_OP.
The process data is one frame that is lost as a whole. `ec_statecheck(0)` returns what
the slaves that answer agree on. There is no recovery action, as the code has none that
can run.

**`EcatCheck`**: the thread `ecatcheck`. `Wake` is the condition and `ec_readstate`; then
one action for each branch (`Acknowledge`, `Advance`, `Reconfigure`, `Recheck`, `Pass`), the
steps of `ec_reconfig_slave` (`StateCheck`, `Request`, `ProgramFmmu`), and `Recover` or
`Found` at the end of the loop body. The slaves are a line, so a cut takes away all behind
it; a slave that lost power returns in INIT, without address and FMMUs. `ec_recover_slave` goes frame by
frame (`Recover`, `ClearTemp`, `SetTemp`, `Identify`, `Assign`): a slave is given `EC_TEMPNODE` and then its
own address, and a frame lost in between leaves it at `EC_TEMPNODE`, or later gives one address to two
slaves. A lost frame is lost on its way out or back, which matters where the code looks at the answer.
`ec_readstate` stores BOOT for all when the states of all slaves OR to it. `Wired` says whether the cyclic loop sets `inOP`, `wkc` and
`expectedWKC`: it is FALSE in `main.cpp`, and TRUE shows what the thread does once it is
connected.

**`EcatImage`**: what is in the images. `Exchange`, `CopyIn`, `CopyOut` (byte by byte, as
`memcpy` without a lock may be seen), then the signal of `BinarySignal`; the control thread
takes the signal (`Wait`), loads the bytes of the variables it reads and stores those it
writes. A byte carries the number of the exchange it stems from, so mixing and age are
visible. `GetBytes`, `SetByName`, `VarPtr`, `FindVarPtrByName` are the accessors: which bytes
a call touches, for ids, names, several variables of one name and missing ones.

**`EcatProcess`**: `getSlaveInfo` and the destructor. CoE slaves are walked as in `PdoMap`,
but every entry is printed; slaves without CoE by the `do`-`while` loop of `si_siiPDO` over the
PDO sections of the EEPROM, with its word count (`Consumed`, `More`), the limit `EC_MAXEEPDO`,
inactive PDOs and fillers. A section is its length word and the PDOs that the bytes behind it
read as, those that belong to it and whatever follows, as the loop looks at the length only
after a PDO; padding and empty sections are then at the edge. What SOEM mapped from the same
data (`Mapped`, for the EEPROM its own loop, up to `LastPdo`, all uploads answered) is the reference.
`Begin` may fail with a socket open, as `bind` comes after `socket`. `eep` is `eep_pdi`: who controls the EEPROM; a read takes it unless SOEM has
the bytes buffered.

`EcatImage` uses the abstract signal rather than `EcatSync`: the refinement proved in
`EcatSyncProofs` is what allows that.

The `MC*` modules give the constants values. Operators whose comment starts with "Mutant"
are wrong variants of the definition that follows them; no specification uses them. They
show that the properties can fail.

## Runs

| Run | Instance | Result |
|---|---|---|
| `sync` | 3 threads in 2 processes, 2 semaphores | `SemBinary`, `AtMostTwice`, `Announced`, `ImplementsSignals`, `SoleWaiterReleased` hold |
| `sync_two_clients` | 2 processes with 1 thread | `NotifiesAll` fails: one cycle wakes one of them |
| `sync_thread_limit` | 3 threads of 1 process, 2 semaphores | `SlotInRange` fails: registration race |
| `shm` | master started twice, client started twice, 2 semaphores | all seven properties hold |
| `pdo` | 3 slaves, 4 dictionaries, slave 1 reassigned or not, 2 losses of SOEM's uploads or the walk's | `OffsetsAgree`, `InsideImage`, `NoOverlap` hold |
| `pdo_overflow` | 1 slave with 26 outputs, the real limit of 25 | `WithinTable` fails |
| `master` | drive, output module, input module, 2 faults, `chk` from 2 | all five properties hold |
| `master_operational` | the same, 1 fault | `AllSlavesOperational` fails: an unplugged slave is not missed |
| `check` | 2 slaves in a line, 3 faults, 3 lost frames, `Wired` | `NothingLeftBehind`, `InOpMapped`, `Restored` hold |
| `check_dormant` | the same with 2 lost frames, `Wired` FALSE as in `main.cpp` | `Restored` fails: the thread never acts |
| `image` | 3 input bytes, 2 output bytes of the same name, 6 exchanges, 3 overruns | `TornOnlyWhenLate`, `SplitOnlyWhenLate`, `ReactionTime` hold |
| `process` | 2 slaves of 4 kinds, limit of 4 PDOs, 2 calls, 2 lost uploads | `ListingRight`, `ListingComplete`, `EepromGivenBack`, `SocketClosed` hold |

*Bounds.* Two semaphores distinguish the first, the last and the neighbours of the loop
of `updateSempahore`; the code has ten, which the proofs cover. Three threads are the
fewest that exceed two slots. One restart is what makes an object old; the second start
of the client meets what the first left. Two lost uploads can lie in one slave or in two, or one
in SOEM's reading and one in the walk (a count SOEM loses is as many losses as there are entries below
it); the slave behind the misread ones shows whether they move it;
the four dictionaries cover several PDOs, fillers, the numbering workaround, bit oriented
slaves and variables that cross bytes. `chk` starts at 40 in the code; 2 shows the first,
a middle and the last try. Two faults unplug a slave and bring it back. In `check` three
faults let a slave fall back or vanish while the thread still handles an earlier fault, and three lost
frames leave one slave at `EC_TEMPNODE`, keep it there when the other is recovered, and still fail one
frame of that recovery; in
`image` six exchanges with three overruns are more than one overrun takes to fade, and the
three bounds are tight: each is violated when lowered by one. In `process` the limit of 4
stands for `EC_MAXEEPDO` (512); one slave has more PDOs than the three it keeps, and its output
section is empty; the others have one and two words of padding. There is no state
constraint: counters are bounded by the guards of the actions that increase them
(`MaxStart`, `MaxAttach`, `MaxLost`, `MaxFault`, `MaxCycle`, `MaxLate`, `MaxCalls`).

*Deadlock* is checked where the system never ends (`EcatSync`), and not where it may:
the master exits, the walk finishes, processes stop.

*Fairness.* `EcatSync` and `EcatShm`: weak fairness of each process for the steps it
takes once started (the threads are scheduled), none for a complete exchange, for starting
or stopping, or for calling `wait()`. `sem_wait` gets weak fairness only: with two waiters
on a semaphore one may starve, which is why `SoleWaiterReleased` and `LateClientReleased`
exclude that case. Both assume in their premise that complete exchanges keep coming.
`EcatMaster`: weak fairness of the main thread's steps, and strong fairness of an exchange
that is not lost, that is, a bus does not lose every frame for ever; `StartupEnds` does not
need it. `EcatCheck`: weak fairness of the thread and of the exchanges, both of which are
loops of scheduled threads; none for the bus, so `Restored` assumes that the line is closed
for good. `EcatProcess`: weak fairness of a call once begun, as every upload and every
EEPROM read has a timeout.

Properties name their limits in their premises, and each limit is a weakness of the code:

- `CopiesCompleteExchange`: the working counter cannot tell a counted slave from an uncounted
  one that still carries an earlier master's mapping;
- `OffsetsAgree`: sums of `Ibytes` skip bit oriented slaves; a lost entry moves the later
  variables of its slave (`shifted`);
- `SameLayout` (`OffsetsAgree`, `InsideImage`, `NoOverlap`) excepts two kinds of slave, whose variables the
  code publishes at wrong places, outside the image perhaps: one that numbers its types from 0 and whose
  answer for SM2 was lost (`mistyped`), and one whose PDOs do not begin what SOEM laid out (`Moved`),
  because SOEM lost some of its uploads or `main` gave slave 1 others. The slaves behind them are included;
- `InsideImage`, `NoOverlap`: variables of at least a byte, and the ranges published for them. Variables of
  less than a byte are published at a byte of others, with size 0, and a variable behind one of odd bits is
  published at its first byte, which also holds bits of the one before;
- `AtMostTwice` counts waits that a signal ended. Nothing bounds the steps of a thread that `wait()`
  refuses, nor of one whose `sem_wait` is interrupted;
- `InOpMapped`, `Restored`: FMMUs whose programming was lost are not noticed (`dropped`), nor two slaves that
  were given one address (`doubled`);
- `Restored`: a slave left at `EC_TEMPNODE` counts as recovered, since `ecatcheck` takes the result -1 of
  `ec_recover_slave` for a success, and stays there until another slave is recovered; and when every slave
  loses power at once, the broadcast of `ec_readstate` hides that they have no address, so the premise asks
  for one that still has its own;
- `SocketClosed`: a call whose `bind` failed leaves its socket open;
- `TornOnlyWhenLate`, `SplitOnlyWhenLate`, `ReactionTime`: the only protection of the images is
  that the control thread is done before the next copy (`late` counts when it is not);
- `Sound` (`EcatProcess`): lost uploads, data that does not start on a byte, and dictionaries SOEM reads differently (types 0 at SM2 and SM3, more than eight sync
  managers, nothing mapped);
- `EepromGivenBack`: the reads of the general section after `ec_siifind` leave the EEPROM with
  the master.

## Proofs

`EcatSyncProofs` proves, for every finite set of threads, every assignment to processes and
every number of semaphores (`SyncAssumption`, the only assumption):

- `TypeCorrect`: `Safety => []TypeOK`;
- `HandOver`: `Safety => []HandOverInv`, the inductive invariant. `SemBinary` alone is not
  inductive: a post could raise a 1. `PostsZero` says that a semaphore read as zero is still
  zero when it is posted, because the master is the only poster. `AtMostTwice` needs the
  number of signals still available as well as those taken: `Budget` bounds their sum, by 2
  for a visited slot and by 1 for one to come; waits that end without a signal take none. `Announced` is inductive with `PostsZero`;
- `SemaphoresBinary`, `ImageTakenAtMostTwice`, `EveryImageAnnounced`: its consequences;
- `Refinement`: `Safety => ImplementsSignals`, every step a step of `BinarySignal` or a stutter.

`NextSlotPasses` and `VisitedSlots` are the facts about the loop they rest on;
`HandOverFrame` disposes of the client actions that touch no semaphore.

`EcatMasterProofs` proves, for every finite set of slaves and every bound (`MasterAssumption`):

- `MemoryCreatedBeforeUse`: `Safety => []SharedMemoryUsedOnceCreated`. `slaveinfo` may fail anywhere
  and `main` goes on with `pEcm` null; slaves left in OP by an earlier master then let it into the
  cyclic loop. What saves it is arithmetic: nothing is mapped, so no frame is sent, `EC_NOFRAME` is
  -1, and -1 is less than the expected counter of 0 (`NothingMapped`). `MemoryInv` is the inductive
  invariant: unless the memory is about to be created, either `pEcm` is set or nothing is counted;
- `TypeCorrect`: `Safety => []TypeOK`, which needs `MemoryInv`;
- `CompleteExchange`: `Safety => []CopiesCompleteExchange`. The counter is a sum over all slaves and
  is only compared with another sum, so that it is enough has to be argued: each slave gives at most
  its share (`SumOverSlaves`, `ExpectedGrows`), hence a missing one cannot be made up for by the
  others (`CompleteCounter`).

`EcatCheckProofs` proves, for a line of any length and any number of faults and lost frames
(`CheckAssumption`):

- `TypeCorrect`: `Safety => []TypeOK`, with BOOT in the table and `EC_TEMPNODE` among the addresses;
- `NoSlaveLeftBehind`: `Safety => []NothingLeftBehind`. The property speaks of the sleeping thread
  only; `PassInv` says it of the slaves already behind the loop, that a slave that gets more than
  passed over has asked for another pass, and that one inside `ec_recover_slave` was not heard;
- `OperationalMapped`: `Safety => []InOpMapped`. A slave may lose power and return between any two
  steps of a pass that acts on what it read before. `MapInv` has what the branches rely on, for the
  slaves that share no address (`Single`): one in SAFE_OP or OP has been through `ProgramFmmu`, or is about
  to; and where the table holds SAFE_OP for a slave ahead of the loop that still has its address (`Own`), the
  slave really is that far. `AddrInv` says that a slave with another's address is known as doubled, so that
  a request to an address of a `Single` slave reaches no other.

`EcatShmProofs` proves, for every set of clients, number of semaphores, of starts and of attaches
(`ShmAssumption`):

- `HandlesHeld` and `TypeCorrect`: every name and every handle leads to an object that exists, the
  program counters agree with the handles that are set (`Typing`), and with it `TypeOK`;
- `RunningMasterOwnsNames`: `[]MasterOwnsNames`, from `OwnInv`: from the moment the master has opened
  a name until it ends, the name leads to its object, but for the semaphore it is replacing. This is
  where a client that opens, or creates, between `remove` and `open` has to be excluded;
- `AttachedClientShares`, `LateClientNotRefused`: `[]LateClientShares`, `[]LateClientAttaches`. They
  need `WrittenInv` (the tables of a running master are written, its images sized), `EpochInv` (which
  master a client began with) and `ShareInv` (what such a client has opened is what the names lead to);
- `SemaphoresBinary`: `[]SemBinary`, restarts included. `PostsZero` again: the
  only poster of a semaphore is the running master, and it posts what it has read as zero;
- `StartsClean`: `[]CleanStart`, from `QuietInv`: without live clients nobody but the master touches
  what it opened, and a semaphore that fails the test is replaced by a new one.

`EcatImageProofs` proves, for images of any size and accesses of any bytes in any order
(`ImageAssumption` and `AccessAssumption`: the images are not empty, a step reads and writes at least
one byte, inside the images):

- `AccessesInside` and `TypeCorrect`: `TypeOK` with `PhaseInv`, what the program counters say of the
  loops;
- `TornBounded`: `Spec => []TornOnlyWhenLate`. A count of mixed steps is not inductive, as a step that
  will turn out mixed is not counted yet. `TornInv` adds the step going on that can still become
  mixed and the one a set signal will start in the middle of a copy: each of them has an overrun
  of its own. `InputInv` says how far the copy is;
- `SplitBounded`: `Spec => [](WritesAll => SplitOnlyWhenLate)`, from `UniformInv` (between its writes the
  thread leaves the outputs of one step) and `SplitInv`;
- `ReactionBounded`: `Spec => [](WritesAll => ReactionTime)`. `AgeInv` follows the age of the data from the
  signal through the step into shared memory, relative to the exchange that is `Due`; `SentInv` takes
  it from there into the frame.

`WritesAll`, that each step writes every output byte, is no assumption of the model: a byte that no
step writes keeps its first value, and then is neither of the same step as the others nor recent. The
step of the run `image` writes all of them.

`EcatProcessProofs` proves, for any slaves, dictionaries and EEPROM contents (`ProcessAssumption`; of a
section it asks that the bytes behind it go on until the loop ends. Words are counted in natural
numbers: the wrap of the 16 bit counter behind 64K words, more than an EEPROM has, is not modelled):

- `WalksInside` and `TypeCorrect`: `Safety => []TypeOK`, which includes that the walk over a PDO section
  ends below `EC_MAXEEPDO`. `SectionInv` says that a turn of the loop begins only with one of the PDOs
  SOEM reads, and what `c` is then (`SectionWalk`);
- `SectionsGiveBack`: `Safety => []EepromGivenBack`, from `EepromInv`: only the slave whose section is
  being read is without its EEPROM, and then `eectl` remembers to give it back;
- `ListedRight` and `ListedCompletely`: `Safety => []ListingRight` and `Safety => []ListingComplete`.
  Neither says anything of the places inside the loops, where a slave is half printed. `ListInv` does:
  `Left` names for every place the entries still to come, from each of the nested loops on, and `Covers`
  says that what is printed lists exactly the entries before them, and that `bo` is the sum of their bits.
  An entry printed moves it from the one to the other (`CoversMore`); everything else a loop goes past,
  an unused sync manager, one beyond the eight, an inactive PDO, has no entries in the image (`PdosStep`,
  `CoeEntries`, `SectionStep`). `BugInv` is needed for the types: behind the first sync manager,
  unless an upload was lost, the workaround is on exactly if SOEM has it on.

`PdoMapProofs` proves, for any number of slaves, any dictionaries and any number of losses, of SOEM's
uploads and the walk's, under the premises the properties name (`PdoAssumption`; of the dictionaries it asks that SM2 does not have the type of SM3 or the other way
round, `Conforms`: `si_PDOassign` chooses the table by the sync manager and the offset by the type):

- `Invariance`: `Spec => []Inv`, the inductive invariant. `Typed` and `CursorInv` place the cursor of
  the three nested loops in the dictionary and say when `bitoffset` starts at 0; `Placed` is about the
  tables; `Walked` about the walk of a slave with `SameLayout`: it is never ahead of the image, and behind
  it only if something was lost; `Collected` and `Otherwise` give PDOs whatever SOEM missed
  (`CollectedType`, `OtherwiseType`), which is all the walk needs to know of the other slaves;
- `TypeCorrect`: `[]TypeOK`;
- `Inside` and `Apart`: `[]InsideImage` and `[]NoOverlap`. The variables of such a table are in order, each
  behind the one before and at or before the cursor. They hold with lost entries, as these only move
  the walk back, and the image has room for what lies behind (`NextEntryGoesOn`, `BasesInImage`);
- `Agreement`: `[]OffsetsAgree`. The walk adds up single entries, slave by slave the sums of bytes; the
  layout adds up whole slaves. `BasesAddUp` and `EndsAddUp` bring the sums over the slaves together,
  `Positions` and `BitsWalked` those inside a slave: the bits before an entry of the image are those of
  the PDOs before its own and of the entries before it.

`FoldTheorems` has the lemmas these rest on. The sums of the model are folds of the community modules,
defined by recursion. The library's induction theorems take an operator, which the provers cannot
instantiate; `Induction` and `SubsetInduction` take a set instead, the set of arguments for which the
claim holds, and that is enough for sums, maxima and sequences: `FoldExists` and `MaxIn` for sets,
`RecursionExists` for functions over 0..n, `TotalRuns` (a total is the last of the running totals),
`RunningTotalUnique`, `PartialTotals`, `RunningTotalGrows` and `TotalType` for sums over sequences,
`TotalConcat` for a sum in two parts, `Flattened`, `FlattenCons` and `FlattenConcat` for sequences put one
behind the other.

Only model-checked: liveness under fairness, which is out of the prover's reach (`SoleWaiterReleased`,
`LateClientReleased`, `StartupEnds`, `CycleResumes`, `Restored`, `SocketClosed`). Every invariant that a
passing run checks is proved, two of them under `WritesAll`.

## Not modelled

- `getInstance`: an unsynchronised `std::map`, and what a race may do to it; two instances of one id
  would behave as two processes.
- SOEM's frame layer and mailbox: a frame or an upload is answered or lost, never late.
  Distributed clocks; EtherCAT states other than those the master asks for.
- Console output: `si_sdo`, `SDO2string`, `dtype2string`, `print_message`. `si_siiPDO` and
  `si_map_sii` of `main.cpp` have no caller and are the code modelled in `EcatProcess`; the
  accessors and waits of `EcatConfigMaster` have none either and are those of `EcatConfig`.
- The fields of `EcatBus` that `main` neither reads nor writes (cycle times, requested and current
  state) and the accessors that return one field. `findSlaveByName`, `findSlaveIdByName`,
  `findSlaveInputVarByName` and `findSlaveInputVarIdByName` compare the address of an array with
  that of a string and never find anything.
- The real-time set-up, whose result is ignored, and the flags; the sleep at the end of a cycle.
- Complete access and SoE in SOEM's mapping; in `EcatProcess`, lost uploads of SOEM's own.
- Image sizes of zero and the size of `IOmap`; the descriptor closed twice by `EcatProcess`, which `Destroy`
  leaves closed, and what becomes of a socket that could not be bound.
- A second master started beside a running one; what a client that outlived its master reads.

## Plan

`NicDrv`: frame indices, buffers and late frames, and with it what a process data frame that comes
after its timeout does.
