--------------------------- MODULE EcatShmProofs ----------------------------
(***************************************************************************)
(* Proofs about the named objects, for every set of clients, every number  *)
(* of semaphores and every number of starts.                               *)
(***************************************************************************)
EXTENDS EcatShm, SequenceTheorems, TLAPS

----------------------------------------------------------------------------
(* Names and objects.                                                      *)

\* The names differ, and say what a new object holds.
LEMMA Names ==
    /\ Ecm \in Name /\ Fresh(Ecm) = 0
    /\ \A i \in {0, 1} : Image(i) \in Name /\ Fresh(Image(i)) = 0 /\ Image(i) # Ecm
    /\ \A s \in Slot : Sync(s) \in Name /\ Fresh(Sync(s)) = 1 /\ Sync(s) # Ecm
    /\ Image(0) # Image(1)
    /\ \A s \in Slot, i \in {0, 1} : Sync(s) # Image(i)
    /\ \A s, t \in Slot : s # t => Sync(s) # Sync(t)
    /\ \A n \in Name : Fresh(n) \in {0, 1}
  BY DEF Name, Ecm, Image, Sync, Fresh

\* The names lead to objects that have been created.
Memory ==
    /\ content \in [Name -> Seq(Nat)]
    /\ name \in [Name -> Nat]
    /\ \A n \in Name : name[n] <= Len(content[n])

\* Opening a name leads to a new object or to the one it had, and changes nothing
\* that existed.
LEMMA Opening ==
    ASSUME Memory, NEW n \in Name, OpenOrCreate(n)
    PROVE  /\ Memory'
           /\ Opened(n) \in Nat \ {0} /\ Opened(n) <= Len(content'[n])
           /\ name'[n] = Opened(n)
           /\ \A m \in Name : name[m] # 0 => name'[m] = name[m]
           /\ \A m \in Name : m # n => name'[m] = name[m] /\ content'[m] = content[m]
           /\ \A m \in Name :
                /\ Len(content[m]) <= Len(content'[m])
                /\ \A k \in 1 .. Len(content[m]) : content'[m][k] = content[m][k]
                /\ \A k \in 1 .. Len(content'[m]) :
                      k \in 1 .. Len(content[m]) \/ content'[m][k] = Fresh(m)
           /\ name[n] = 0 => content'[n][Opened(n)] = Fresh(n)
<1>1. content[n] \in Seq(Nat) /\ Fresh(n) \in Nat /\ name[n] \in Nat /\ name[n] <= Len(content[n])
  <2>1. Fresh(n) \in {0, 1}
    BY Names
  <2> QED
    BY <2>1 DEF Memory
<1>2. CASE name[n] = 0
  <2> DEFINE longer == Append(content[n], Fresh(n))
  <2>1. /\ longer \in Seq(Nat)
        /\ Len(longer) = Len(content[n]) + 1
        /\ \A k \in 1 .. Len(content[n]) : longer[k] = content[n][k]
        /\ longer[Len(content[n]) + 1] = Fresh(n)
    BY <1>1, AppendProperties
  <2>2. /\ content' = [content EXCEPT ![n] = longer]
        /\ name' = [name EXCEPT ![n] = Len(content[n]) + 1]
        /\ Opened(n) = Len(content[n]) + 1
    BY <1>2 DEF OpenOrCreate, Opened
  <2> HIDE DEF longer
  <2>3. \A m \in Name : Len(content[m]) \in Nat
    BY DEF Memory
  <2>4. /\ content'[n] = longer /\ name'[n] = Len(content[n]) + 1
        /\ \A m \in Name : m # n => name'[m] = name[m] /\ content'[m] = content[m]
        /\ content' \in [Name -> Seq(Nat)] /\ name' \in [Name -> Nat]
    BY <2>1, <2>2, <2>3 DEF Memory
  <2>5. Memory'
    <3>1. \A m \in Name : m # n => name'[m] <= Len(content'[m])
      BY <2>4 DEF Memory
    <3>2. name'[n] <= Len(content'[n])
      BY <2>1, <2>3, <2>4
    <3> QED
      BY <2>4, <3>1, <3>2 DEF Memory
  <2>6. ASSUME NEW m \in Name
        PROVE  /\ Len(content[m]) <= Len(content'[m])
               /\ \A k \in 1 .. Len(content[m]) : content'[m][k] = content[m][k]
               /\ \A k \in 1 .. Len(content'[m]) :
                     k \in 1 .. Len(content[m]) \/ content'[m][k] = Fresh(m)
    <3>1. CASE m = n
      <4>1. Len(content'[n]) = Len(content[n]) + 1
        BY <2>1, <2>4
      <4>2. \A k \in 1 .. Len(content[n]) : content'[n][k] = content[n][k]
        BY <2>1, <2>4
      <4>3. \A k \in 1 .. Len(content[n]) + 1 :
               k \in 1 .. Len(content[n]) \/ k = Len(content[n]) + 1
        BY <2>3
      <4> QED
        BY <2>1, <2>3, <2>4, <3>1, <4>1, <4>2, <4>3
    <3>2. CASE m # n
      BY <2>3, <2>4, <3>2
    <3> QED
      BY <3>1, <3>2
  <2> QED
    BY <1>2, <2>1, <2>2, <2>3, <2>4, <2>5, <2>6
<1>3. CASE name[n] # 0
  <2>1. UNCHANGED content /\ name' = [name EXCEPT ![n] = name[n]] /\ Opened(n) = name[n]
    BY <1>3 DEF OpenOrCreate, Opened
  <2>2. UNCHANGED name
    BY <2>1 DEF Memory
  <2> QED
    BY <1>1, <1>3, <2>1, <2>2 DEF Memory
<1> QED
  BY <1>2, <1>3

\* Somebody writes v into the k-th object of that name.
Stores(n, k, v) == content' = [content EXCEPT ![n][k] = v]

\* That object, and no other, is changed.
Stored(n, k, v) ==
    /\ content' \in [Name -> Seq(Nat)]
    /\ \A m \in Name : Len(content'[m]) = Len(content[m])
    /\ content'[n][k] = v
    /\ \A m \in Name : \A j \in 1 .. Len(content[m]) :
          m # n \/ j # k => content'[m][j] = content[m][j]

\* Writing into an object changes that object only.
LEMMA Storing ==
    ASSUME content \in [Name -> Seq(Nat)], NEW n \in Name, NEW k \in 1 .. Len(content[n]),
           NEW v \in Nat, Stores(n, k, v)
    PROVE  Stored(n, k, v)
<1>1. content[n] \in Seq(Nat)
  OBVIOUS
<1>2. /\ [content[n] EXCEPT ![k] = v] \in Seq(Nat)
      /\ Len([content[n] EXCEPT ![k] = v]) = Len(content[n])
      /\ [content[n] EXCEPT ![k] = v][k] = v
      /\ \A j \in 1 .. Len(content[n]) : j # k => [content[n] EXCEPT ![k] = v][j] = content[n][j]
  BY <1>1, ExceptSeq
<1>3. /\ content'[n] = [content[n] EXCEPT ![k] = v]
      /\ \A m \in Name : m # n => content'[m] = content[m]
      /\ content' \in [Name -> Seq(Nat)]
  BY <1>2 DEF Stores
<1> QED
  BY <1>2, <1>3 DEF Stored

----------------------------------------------------------------------------
(* Where the master and the clients are, and what they hold there.         *)

\* The control points from OpenEcm's end on.
AfterEcm == mpc \notin {"off", "removeEcm", "openEcm"}

\* The master has opened image i.
ImageOpened(i) ==
    \/ mpc \in {"truncate", "fill", "run", "getvalue", "post"}
    \/ mpc = "openImage" /\ i < at

\* What the master is at, and that it holds the objects it is about to use.
MasterOK ==
    /\ mh \in [Name -> Nat]
    /\ \A n \in Name : mh[n] <= Len(content[n])
    /\ mpc \in {"off", "removeEcm", "openEcm", "construct", "semOpen", "semTest",
                "semUnlink", "semReopen", "semCheck", "removeImage", "openImage",
                "truncate", "fill", "run", "getvalue", "post"}
    /\ epoch \in 0 .. MaxStart
    /\ mpc \in {"off", "removeEcm", "openEcm", "construct", "fill", "run"} => at = 0
    /\ mpc \in {"semOpen", "semTest", "semUnlink", "semReopen", "semCheck",
                "getvalue", "post"} => at \in Slot
    /\ mpc \in {"removeImage", "openImage", "truncate"} => at \in {0, 1}
    /\ AfterEcm => mh[Ecm] # 0
    /\ \A i \in {0, 1} : ImageOpened(i) => mh[Image(i)] # 0
    /\ mpc \in {"semTest", "semUnlink", "semReopen", "semCheck", "post"}
          => mh[Sync(at)] # 0

Live(c) == cpc[c] \notin {"off", "failed"}

ClientTypes ==
    /\ cpc \in [Client -> {"off", "openImage", "map", "openEcm", "find",
                           "construct", "semOpen", "attached", "blocked", "failed"}]
    /\ cat \in [Client -> Slot \cup {0, 1}]
    /\ again \in [Client -> BOOLEAN]
    /\ ch \in [Client -> [Name -> Nat]]
    /\ tries \in [Client -> 0 .. MaxAttach]
    /\ since \in [Client -> 0 .. MaxStart]
    /\ warned \in [Client -> BOOLEAN]

\* What client c is at, and that it holds the objects it has opened.
ClientOK(c) ==
    /\ cpc[c] \in {"openImage", "map"} => cat[c] \in {0, 1}
    /\ cpc[c] \in {"semOpen", "blocked"} => cat[c] \in Slot
    /\ cpc[c] \in {"openEcm", "find", "construct"} => cat[c] = 0
    /\ cpc[c] \in {"attached", "blocked"} => again[c]
    /\ cpc[c] \in {"openEcm", "find", "construct", "semOpen"} => ~again[c]
    /\ \A n \in Name : ch[c][n] <= Len(content[n])
    /\ Live(c) =>
          /\ \A i \in {0, 1} :
                again[c] \/ cpc[c] # "openImage" \/ i < cat[c] => ch[c][Image(i)] # 0
          /\ again[c] \/ cpc[c] \in {"find", "construct", "semOpen"} => ch[c][Ecm] # 0
          /\ \A s \in Slot :
                again[c] \/ (cpc[c] = "semOpen" /\ s < cat[c]) => ch[c][Sync(s)] # 0

\* The types, and what everybody holds.
Typing ==
    /\ Memory
    /\ MasterOK
    /\ ClientTypes /\ \A c \in Client : ClientOK(c)
    /\ quiet \in BOOLEAN

\* Objects are never lost.
Grows == \A n \in Name : Len(content[n]) <= Len(content'[n])

\* What the clients hold is not affected by new objects.
LEMMA ClientFrame ==
    ASSUME Typing, Memory', Grows, UNCHANGED clientVars
    PROVE  ClientTypes' /\ \A c \in Client : ClientOK(c)'
<1>1. ClientTypes'
  BY DEF Typing, ClientTypes, clientVars
<1>2. \A n \in Name : Len(content[n]) \in Nat /\ Len(content'[n]) \in Nat
  BY DEF Typing, Memory
<1>3. ASSUME NEW c \in Client
      PROVE  ClientOK(c)'
  <2>1. \A n \in Name : ch[c][n] \in Nat /\ ch[c][n] <= Len(content[n])
    BY DEF Typing, ClientTypes, ClientOK
  <2>2. \A n \in Name : ch'[c][n] <= Len(content'[n])
    BY <1>2, <2>1 DEF Grows, clientVars
  <2> QED
    BY <2>2 DEF Typing, ClientOK, Live, clientVars
<1> QED
  BY <1>1, <1>3

\* Nor is what the master holds.
LEMMA MasterFrame ==
    ASSUME Typing, Memory', Grows, UNCHANGED masterVars
    PROVE  MasterOK'
<1>1. \A n \in Name : Len(content[n]) \in Nat /\ Len(content'[n]) \in Nat
  BY DEF Typing, Memory
<1>2. \A n \in Name : mh'[n] <= Len(content'[n])
  BY <1>1 DEF Typing, MasterOK, Grows, masterVars
<1> QED
  BY <1>2 DEF Typing, MasterOK, AfterEcm, ImageOpened, masterVars

\* A step of client c concerns the other clients only through new objects.
LEMMA OtherClients ==
    ASSUME Typing, Memory', Grows, NEW c \in Client, ClientTypes', ClientOK(c)',
           \A d \in Client : d # c =>
              cpc'[d] = cpc[d] /\ cat'[d] = cat[d] /\ again'[d] = again[d] /\ ch'[d] = ch[d]
    PROVE  \A d \in Client : ClientOK(d)'
<1>1. \A n \in Name : Len(content[n]) \in Nat /\ Len(content'[n]) \in Nat
  BY DEF Typing, Memory
<1>2. ASSUME NEW d \in Client, d # c
      PROVE  ClientOK(d)'
  <2>1. \A n \in Name : ch[d][n] \in Nat /\ ch[d][n] <= Len(content[n])
    BY DEF Typing, ClientTypes, ClientOK
  <2>2. \A n \in Name : ch'[d][n] <= Len(content'[n])
    BY <1>1, <1>2, <2>1 DEF Grows
  <2> QED
    BY <1>2, <2>2 DEF Typing, ClientOK, Live
<1> QED
  BY <1>2

\* The loops of the master stay in their arrays.
LEMMA MasterLoops ==
    /\ at \in Slot /\ NextSlot => mpc' \in {"getvalue", "run"} /\
          (IF mpc' = "run" THEN at' = 0 ELSE at' \in Slot)
    /\ \A next : at \in {0, 1} /\ InThenOut(next) =>
          \/ at = 0 /\ at' = 1 /\ mpc' = mpc
          \/ at = 1 /\ at' = 0 /\ mpc' = next
    /\ 0 \in Slot
  BY ShmAssumption DEF NextSlot, InThenOut, Slot

\* The master opens a name.
LEMMA MasterOpens ==
    ASSUME Typing, NEW n \in Name, OpenOrCreate(n), mh' = [mh EXCEPT ![n] = Opened(n)]
    PROVE  /\ Memory' /\ Grows
           /\ mh' \in [Name -> Nat]
           /\ \A m \in Name : mh'[m] <= Len(content'[m])
           /\ mh'[n] # 0
           /\ \A m \in Name : m # n => mh'[m] = mh[m]
<1>1. Memory
  BY DEF Typing
<1>2. Memory' /\ Grows /\ Opened(n) \in Nat \ {0} /\ Opened(n) <= Len(content'[n])
  BY <1>1, Opening DEF Grows
<1>3. \A m \in Name : m # n => content'[m] = content[m]
  BY <1>1, Opening
<1>4. mh \in [Name -> Nat] /\ \A m \in Name : mh[m] <= Len(content[m])
  BY DEF Typing, MasterOK
<1>5. /\ mh' \in [Name -> Nat] /\ mh'[n] = Opened(n)
      /\ \A m \in Name : m # n => mh'[m] = mh[m]
  BY <1>2, <1>4
<1> QED
  BY <1>2, <1>3, <1>4, <1>5

\* The master removes a name.
LEMMA MasterRemoves ==
    ASSUME Typing, NEW n \in Name, Remove(n)
    PROVE  Memory' /\ Grows /\ UNCHANGED content
           /\ name'[n] = 0 /\ \A m \in Name : m # n => name'[m] = name[m]
<1>1. /\ UNCHANGED content /\ name' \in [Name -> Nat]
      /\ name'[n] = 0 /\ \A m \in Name : m # n => name'[m] = name[m]
  BY DEF Typing, Memory, Remove
<1>2. /\ content \in [Name -> Seq(Nat)]
      /\ \A m \in Name : Len(content[m]) \in Nat /\ name[m] <= Len(content[m])
  BY DEF Typing, Memory
<1>3. Memory'
  <2>1. ASSUME NEW m \in Name PROVE name'[m] <= Len(content[m])
    <3>1. CASE m = n
      <4>1. name'[m] = 0 /\ Len(content[m]) \in Nat
        BY <1>1, <1>2, <3>1
      <4> QED
        BY <4>1
    <3>2. CASE m # n
      <4>1. name'[m] = name[m] /\ name[m] <= Len(content[m])
        BY <1>1, <1>2, <3>2
      <4> QED
        BY <4>1
    <3> QED
      BY <3>1, <3>2
  <2> QED
    BY <1>1, <1>2, <2>1 DEF Memory
<1>4. Grows
  BY <1>1, <1>2 DEF Grows
<1> QED
  BY <1>1, <1>3, <1>4

\* Somebody writes into an object.
LEMMA Writes ==
    ASSUME Typing, NEW n \in Name, NEW k \in 1 .. Len(content[n]), NEW v \in Nat,
           content' = [content EXCEPT ![n][k] = v], UNCHANGED name
    PROVE  /\ Memory' /\ Grows
           /\ content'[n][k] = v
           /\ \A m \in Name : \A j \in 1 .. Len(content[m]) :
                 m # n \/ j # k => content'[m][j] = content[m][j]
<1>1. \A m \in Name : Len(content[m]) \in Nat
  BY DEF Typing, Memory
<1> QED
  BY <1>1, Storing DEF Stores, Stored, Typing, Memory, Grows

\* What the master holds for a name is one of its objects.
LEMMA MasterHandle ==
    ASSUME Typing, NEW n \in Name, mh[n] # 0
    PROVE  mh[n] \in 1 .. Len(content[n]) /\ content[n][mh[n]] \in Nat
<1>1. mh[n] \in Nat /\ mh[n] <= Len(content[n]) /\ content[n] \in Seq(Nat)
  BY DEF Typing, Memory, MasterOK
<1> QED
  BY <1>1

\* The typing is kept by the master's steps, its start and its end.
LEMMA MasterTyping ==
    ASSUME Typing, Start \/ Stop \/ MasterStep
    PROVE  Typing' /\ Grows
<1>1. Memory /\ MasterOK /\ quiet \in BOOLEAN
  BY DEF Typing
<1>2. UNCHANGED shmVars => Memory' /\ Grows
  <2>1. \A n \in Name : Len(content[n]) \in Nat
    BY <1>1 DEF Memory
  <2> QED
    BY <1>1, <2>1 DEF Memory, Grows, shmVars
<1>3. UNCHANGED <<shmVars, mh>> => \A n \in Name : mh'[n] <= Len(content'[n])
  BY <1>1 DEF MasterOK, shmVars
<1>4. \A n \in Name : NoHandles[n] = 0 /\ 0 <= Len(content[n])
  BY <1>1 DEF NoHandles, Memory
<1>5. NoHandles \in [Name -> Nat]
  BY DEF NoHandles
<1> USE DEF AfterEcm, ImageOpened
<1>6. CASE Start
  <2>1. epoch' \in 0 .. MaxStart
    BY <1>1, <1>6, ShmAssumption DEF Start, MasterOK
  <2>2. Memory' /\ Grows /\ \A n \in Name : mh'[n] <= Len(content'[n])
    BY <1>2, <1>3, <1>6 DEF Start
  <2>3. MasterOK'
    BY <1>1, <1>6, <2>1, <2>2 DEF Start, MasterOK
  <2> QED
    BY <1>6, <2>2, <2>3, ClientFrame DEF Start, Typing
<1>7. CASE Stop
  <2>1. Memory' /\ Grows /\ \A n \in Name : mh'[n] <= Len(content'[n])
    BY <1>2, <1>4, <1>7 DEF Stop, shmVars
  <2>2. MasterOK'
    BY <1>1, <1>5, <1>7, <2>1 DEF Stop, MasterOK
  <2> QED
    BY <1>1, <1>7, <2>1, <2>2, ClientFrame DEF Stop, Typing
<1>8. ASSUME MasterStep
      PROVE  Memory' /\ Grows /\ MasterOK' /\ UNCHANGED <<clientVars, quiet>>
  <2> USE Names
  <2>1. CASE RemoveEcm
    <3>1. Memory' /\ Grows /\ UNCHANGED content
      BY <2>1, MasterRemoves DEF RemoveEcm
    <3> QED
      BY <1>1, <2>1, <3>1 DEF RemoveEcm, MasterOK
  <2>2. CASE OpenEcm
    <3>1. /\ Memory' /\ Grows /\ mh' \in [Name -> Nat] /\ mh'[Ecm] # 0
          /\ \A m \in Name : mh'[m] <= Len(content'[m])
          /\ \A m \in Name : m # Ecm => mh'[m] = mh[m]
      BY <2>2, MasterOpens DEF OpenEcm
    <3> QED
      BY <1>1, <2>2, <3>1 DEF OpenEcm, MasterOK
  <2>3. CASE Construct
    <3>1. mh[Ecm] \in 1 .. Len(content[Ecm]) /\ content[Ecm][mh[Ecm]] \in Nat
      BY <1>1, <2>3, MasterHandle DEF Construct, MasterOK
    <3>2. PICK v \in Nat : content' = [content EXCEPT ![Ecm][mh[Ecm]] = v]
      BY <2>3, <3>1 DEF Construct
    <3>3. Memory' /\ Grows
      <4>1. UNCHANGED name
        BY <2>3 DEF Construct
      <4> QED
        BY <3>1, <3>2, <4>1, Writes
    <3>4. MasterOK'
      <4>1. \A n \in Name : mh'[n] <= Len(content'[n])
        BY <1>1, <2>3, <3>1, <3>2, Storing DEF Stores, Stored, Construct, MasterOK, Memory
      <4> QED
        BY <1>1, <2>3, <4>1, MasterLoops DEF Construct, MasterOK
    <3> QED
      BY <2>3, <3>3, <3>4 DEF Construct
  <2>4. CASE SemOpen
    <3>1. at \in Slot
      BY <1>1, <2>4 DEF SemOpen, MasterOK
    <3>2. CASE /\ OpenOrCreate(Sync(at)) /\ mh' = [mh EXCEPT ![Sync(at)] = Opened(Sync(at))]
               /\ mpc' = "semTest" /\ UNCHANGED at
      <4>1. /\ Memory' /\ Grows /\ mh' \in [Name -> Nat] /\ mh'[Sync(at)] # 0
            /\ \A m \in Name : mh'[m] <= Len(content'[m])
            /\ \A m \in Name : m # Sync(at) => mh'[m] = mh[m]
        BY <3>1, <3>2, MasterOpens
      <4> QED
        BY <1>1, <2>4, <3>1, <3>2, <4>1 DEF SemOpen, MasterOK
    <3>3. CASE mpc' = "removeImage" /\ at' = 0 /\ UNCHANGED <<shmVars, mh>>
      BY <1>1, <1>2, <1>3, <2>4, <3>3 DEF SemOpen, MasterOK
    <3> QED
      BY <2>4, <3>2, <3>3 DEF SemOpen
  <2>5. CASE SemTest
    BY <1>1, <1>2, <1>3, <2>5 DEF SemTest, MasterOK
  <2>6. CASE SemUnlink
    <3>1. Memory' /\ Grows /\ UNCHANGED content
      BY <1>1, <2>6, MasterRemoves DEF SemUnlink, MasterOK
    <3> QED
      BY <1>1, <2>6, <3>1 DEF SemUnlink, MasterOK
  <2>7. CASE SemReopen
    <3>1. at \in Slot
      BY <1>1, <2>7 DEF SemReopen, MasterOK
    <3>2. /\ Memory' /\ Grows /\ mh' \in [Name -> Nat] /\ mh'[Sync(at)] # 0
          /\ \A m \in Name : mh'[m] <= Len(content'[m])
          /\ \A m \in Name : m # Sync(at) => mh'[m] = mh[m]
      BY <2>7, <3>1, MasterOpens DEF SemReopen
    <3> QED
      BY <1>1, <2>7, <3>1, <3>2 DEF SemReopen, MasterOK
  <2>8. CASE SemCheck
    <3>1. at \in Slot /\ (at + 1 < EC_SEM_NUM => at + 1 \in Slot)
      BY <1>1, <2>8, ShmAssumption DEF SemCheck, MasterOK, Slot
    <3> QED
      BY <1>1, <1>2, <1>3, <2>8, <3>1 DEF SemCheck, MasterOK
  <2>9. CASE RemoveImage
    <3>1. at \in {0, 1}
      BY <1>1, <2>9 DEF RemoveImage, MasterOK
    <3>2. Memory' /\ Grows /\ UNCHANGED content
      BY <2>9, <3>1, MasterRemoves DEF RemoveImage
    <3> QED
      BY <1>1, <2>9, <3>1, <3>2, MasterLoops DEF RemoveImage, MasterOK
  <2>10. CASE OpenImage
    <3>1. at \in {0, 1}
      BY <1>1, <2>10 DEF OpenImage, MasterOK
    <3>2. /\ Memory' /\ Grows /\ mh' \in [Name -> Nat] /\ mh'[Image(at)] # 0
          /\ \A m \in Name : mh'[m] <= Len(content'[m])
          /\ \A m \in Name : m # Image(at) => mh'[m] = mh[m]
      BY <2>10, <3>1, MasterOpens DEF OpenImage
    <3> QED
      BY <1>1, <2>10, <3>1, <3>2, MasterLoops DEF OpenImage, MasterOK
  <2>11. CASE Truncate
    <3>1. at \in {0, 1}
      BY <1>1, <2>11 DEF Truncate, MasterOK
    <3>2. mh[Image(at)] \in 1 .. Len(content[Image(at)])
      BY <1>1, <2>11, <3>1, MasterHandle DEF Truncate, MasterOK
    <3>3. Memory' /\ Grows
      BY <2>11, <3>1, <3>2, Writes DEF Truncate
    <3>4. \A n \in Name : mh'[n] <= Len(content'[n])
      BY <1>1, <2>11, <3>1, <3>2, Storing DEF Stores, Stored, Truncate, MasterOK, Memory
    <3> QED
      BY <1>1, <2>11, <3>1, <3>3, <3>4, MasterLoops DEF Truncate, MasterOK
  <2>12. CASE FillTables
    <3>1. mh[Ecm] \in 1 .. Len(content[Ecm])
      BY <1>1, <2>12, MasterHandle DEF FillTables, MasterOK
    <3>2. Memory' /\ Grows
      BY <2>12, <3>1, Writes DEF FillTables
    <3>3. \A n \in Name : mh'[n] <= Len(content'[n])
      BY <1>1, <2>12, <3>1, Storing DEF Stores, Stored, FillTables, MasterOK, Memory
    <3> QED
      BY <1>1, <2>12, <3>2, <3>3 DEF FillTables, MasterOK
  <2>13. CASE Cycle
    BY <1>1, <1>2, <1>3, <2>13, MasterLoops DEF Cycle, MasterOK
  <2>14. CASE SemGetValue
    <3>1. at \in Slot
      BY <1>1, <2>14 DEF SemGetValue, MasterOK
    <3>2. /\ mpc' \in {"getvalue", "post", "run"}
          /\ IF mpc' = "run" THEN at' = 0 ELSE at' \in Slot
          /\ mpc' = "post" => at' = at
      BY <2>14, <3>1, MasterLoops DEF SemGetValue
    <3> QED
      BY <1>1, <1>2, <1>3, <2>14, <3>1, <3>2 DEF SemGetValue, MasterOK
  <2>15. CASE SemGarbage
    <3>1. Memory' /\ Grows /\ \A n \in Name : mh'[n] <= Len(content'[n])
      BY <1>2, <1>4, <2>15 DEF SemGarbage, shmVars
    <3> QED
      BY <1>1, <1>5, <2>15, <3>1 DEF SemGarbage, MasterOK
  <2>16. CASE SemPost
    <3>1. at \in Slot
      BY <1>1, <2>16 DEF SemPost, MasterOK
    <3>2. /\ mh[Sync(at)] \in 1 .. Len(content[Sync(at)])
          /\ content[Sync(at)][mh[Sync(at)]] \in Nat
      BY <1>1, <2>16, <3>1, MasterHandle DEF SemPost, MasterOK
    <3>3. PICK v \in Nat : content' = [content EXCEPT ![Sync(at)][mh[Sync(at)]] = v]
      <4>1. content[Sync(at)][mh[Sync(at)]] + 1 \in Nat
        BY <3>2
      <4>2. content' = [content EXCEPT ![Sync(at)][mh[Sync(at)]] =
                           content[Sync(at)][mh[Sync(at)]] + 1]
        BY <2>16, Zenon DEF SemPost
      <4> QED
        BY <4>1, <4>2
    <3>4. Memory' /\ Grows
      <4>1. UNCHANGED name /\ Sync(at) \in Name
        BY <2>16, <3>1 DEF SemPost
      <4> QED
        BY <3>2, <3>3, <4>1, Writes
    <3>5. \A n \in Name : mh'[n] <= Len(content'[n])
      BY <1>1, <2>16, <3>1, <3>2, <3>3, Storing DEF Stores, Stored, SemPost, MasterOK, Memory
    <3> QED
      BY <1>1, <2>16, <3>1, <3>4, <3>5, MasterLoops DEF SemPost, MasterOK
  <2> QED
    BY <1>8, <2>1, <2>2, <2>3, <2>4, <2>5, <2>6, <2>7, <2>8, <2>9, <2>10, <2>11, <2>12,
       <2>13, <2>14, <2>15, <2>16 DEF MasterStep
<1>9. CASE MasterStep
  BY <1>1, <1>8, <1>9, ClientFrame DEF Typing
<1> QED
  BY <1>6, <1>7, <1>9

\* Client c keeps the handle of what it opens.
Holds(c, n) == ch' = [ch EXCEPT ![c][n] = Opened(n)]

\* Client c opens a name.
LEMMA ClientOpens ==
    ASSUME Typing, NEW c \in Client, NEW n \in Name, OpenOrCreate(n), Holds(c, n)
    PROVE  /\ Memory' /\ Grows
           /\ ch' \in [Client -> [Name -> Nat]]
           /\ \A m \in Name : ch'[c][m] <= Len(content'[m])
           /\ ch'[c][n] # 0
           /\ \A m \in Name : m # n => ch'[c][m] = ch[c][m]
           /\ \A d \in Client : d # c => ch'[d] = ch[d]
<1>1. Memory
  BY DEF Typing
<1>2. Memory' /\ Grows /\ Opened(n) \in Nat \ {0} /\ Opened(n) <= Len(content'[n])
  BY <1>1, Opening DEF Grows
<1>3. \A m \in Name : m # n => content'[m] = content[m]
  BY <1>1, Opening
<1>4. ch \in [Client -> [Name -> Nat]] /\ \A m \in Name : ch[c][m] <= Len(content[m])
  BY DEF Typing, ClientTypes, ClientOK
<1>5. /\ ch' \in [Client -> [Name -> Nat]] /\ ch'[c][n] = Opened(n)
      /\ \A m \in Name : m # n => ch'[c][m] = ch[c][m]
      /\ \A d \in Client : d # c => ch'[d] = ch[d]
  BY <1>2, <1>4 DEF Holds
<1> QED
  BY <1>2, <1>3, <1>4, <1>5

\* What client c holds for a name is one of its objects.
LEMMA ClientHandle ==
    ASSUME Typing, NEW c \in Client, NEW n \in Name, ch[c][n] # 0
    PROVE  ch[c][n] \in 1 .. Len(content[n]) /\ content[n][ch[c][n]] \in Nat
<1>1. ch[c][n] \in Nat /\ ch[c][n] <= Len(content[n]) /\ content[n] \in Seq(Nat)
  BY DEF Typing, Memory, ClientTypes, ClientOK
<1> QED
  BY <1>1

\* The loops of a client stay in their arrays.
LEMMA ClientLoops ==
    /\ \A c \in Client, next \in {"map", "attached", "openEcm"} :
          ClientTypes /\ cat[c] \in {0, 1} /\ ClientInThenOut(c, next) =>
             /\ \/ cat[c] = 0 /\ cat'[c] = 1 /\ cpc' = cpc
                \/ cat[c] = 1 /\ cat'[c] = 0 /\ cpc'[c] = next
             /\ \A d \in Client : d # c => cat'[d] = cat[d] /\ cpc'[d] = cpc[d]
             /\ cat' \in [Client -> Slot \cup {0, 1}]
             /\ cpc' \in [Client -> {"off", "openImage", "map", "openEcm", "find",
                           "construct", "semOpen", "attached", "blocked", "failed"}]
    /\ \A s \in Slot : s + 1 < EC_SEM_NUM => s + 1 \in Slot
    /\ \A s \in Slot : \A t \in Slot : ~(s + 1 < EC_SEM_NUM) => t < s \/ t = s
<1>1. ASSUME NEW c \in Client, NEW next \in {"map", "attached", "openEcm"},
             ClientTypes, cat[c] \in {0, 1}, ClientInThenOut(c, next)
      PROVE  /\ \/ cat[c] = 0 /\ cat'[c] = 1 /\ cpc' = cpc
                \/ cat[c] = 1 /\ cat'[c] = 0 /\ cpc'[c] = next
             /\ \A d \in Client : d # c => cat'[d] = cat[d] /\ cpc'[d] = cpc[d]
             /\ cat' \in [Client -> Slot \cup {0, 1}]
             /\ cpc' \in [Client -> {"off", "openImage", "map", "openEcm", "find",
                           "construct", "semOpen", "attached", "blocked", "failed"}]
  <2>1. CASE cat[c] = 0
    BY <1>1, <2>1 DEF ClientInThenOut, ClientTypes
  <2>2. CASE cat[c] = 1
    BY <1>1, <2>2 DEF ClientInThenOut, GoTo, ClientTypes
  <2> QED
    BY <1>1, <2>1, <2>2
<1>2. /\ \A s \in Slot : s + 1 < EC_SEM_NUM => s + 1 \in Slot
      /\ \A s \in Slot : \A t \in Slot : ~(s + 1 < EC_SEM_NUM) => t < s \/ t = s
  BY ShmAssumption DEF Slot
<1> QED
  BY <1>1, <1>2

\* A client's own step, its start and its end.
ClientAction(c) == Begin(c) \/ End(c) \/ ClientWait(c) \/ ClientStep(c)

\* The typing is kept by what a client does.
LEMMA ClientTyping ==
    ASSUME Typing, NEW c \in Client, ClientAction(c)
    PROVE  Typing' /\ Grows
<1>1. Memory /\ ClientTypes /\ ClientOK(c) /\ quiet \in BOOLEAN
  BY DEF Typing
<1>2. UNCHANGED shmVars => Memory' /\ Grows
  <2>1. \A n \in Name : Len(content[n]) \in Nat
    BY <1>1 DEF Memory
  <2> QED
    BY <1>1, <2>1 DEF Memory, Grows, shmVars
<1>3. \A n \in Name : ch[c][n] \in Nat /\ Len(content[n]) \in Nat
  BY <1>1 DEF ClientTypes, Memory
<1>4. 0 \in Slot
  BY MasterLoops
<1> USE Names
<1> SUFFICES /\ Memory' /\ Grows /\ UNCHANGED masterVars
             /\ ClientTypes' /\ ClientOK(c)' /\ quiet' \in BOOLEAN
             /\ \A d \in Client : d # c =>
                   cpc'[d] = cpc[d] /\ cat'[d] = cat[d] /\ again'[d] = again[d] /\ ch'[d] = ch[d]
  BY MasterFrame, OtherClients DEF Typing
<1>5. CASE Begin(c)
  <2>1. Memory' /\ Grows /\ UNCHANGED <<shmVars, masterVars>> /\ quiet' \in BOOLEAN
    BY <1>2, <1>5 DEF Begin
  <2>2. tries' \in [Client -> 0 .. MaxAttach]
    BY <1>1, <1>5, ShmAssumption DEF Begin, ClientTypes
  <2>3. since' \in [Client -> 0 .. MaxStart]
    <3>1. (IF Running THEN epoch ELSE 0) \in 0 .. MaxStart
      BY ShmAssumption DEF Typing, MasterOK
    <3> QED
      BY <1>1, <1>5, <3>1 DEF Begin, ClientTypes
  <2>4. NoHandles \in [Name -> Nat] /\ \A n \in Name : NoHandles[n] = 0
    BY DEF NoHandles
  <2>5. ClientTypes' /\ cpc'[c] = "openImage" /\ cat'[c] = 0 /\ ~again'[c] /\ ch'[c] = NoHandles
    BY <1>1, <1>5, <2>2, <2>3, <2>4 DEF Begin, GoTo, ClientTypes
  <2>6. \A n \in Name : ch'[c][n] <= Len(content'[n])
    BY <1>3, <2>1, <2>4, <2>5 DEF shmVars
  <2>7. ClientOK(c)'
    BY <2>5, <2>6 DEF ClientOK, Live
  <2> QED
    BY <1>1, <1>5, <2>1, <2>5, <2>7 DEF Begin, GoTo, ClientTypes
<1>6. CASE End(c)
  <2>1. Memory' /\ Grows /\ UNCHANGED <<shmVars, masterVars, quiet>>
    BY <1>2, <1>6 DEF End
  <2>2. ClientTypes' /\ cpc'[c] = "off" /\ UNCHANGED <<cat, again, ch>>
    BY <1>1, <1>6 DEF End, GoTo, ClientTypes
  <2>3. ClientOK(c)'
    BY <1>1, <2>1, <2>2 DEF ClientOK, Live, shmVars
  <2> QED
    BY <1>1, <1>6, <2>1, <2>2, <2>3 DEF End, GoTo, ClientTypes
<1>7. CASE ClientWait(c)
  <2>1. Memory' /\ Grows /\ UNCHANGED <<shmVars, masterVars, quiet>>
    BY <1>2, <1>7 DEF ClientWait
  <2>2. /\ ClientTypes' /\ cpc[c] = "attached" /\ cpc'[c] = "blocked" /\ cat'[c] \in Slot
        /\ UNCHANGED <<again, ch>>
    BY <1>1, <1>7 DEF ClientWait, GoTo, ClientTypes
  <2>3. ClientOK(c)'
    BY <1>1, <2>1, <2>2 DEF ClientOK, Live, shmVars
  <2> QED
    BY <1>1, <1>7, <2>1, <2>2, <2>3 DEF ClientWait, GoTo, ClientTypes
<1>8. CASE ClientOpenImage(c)
  <2>1. cat[c] \in {0, 1} /\ cpc[c] = "openImage"
    BY <1>1, <1>8 DEF ClientOpenImage, ClientOK
  <2>2. /\ Memory' /\ Grows /\ ch' \in [Client -> [Name -> Nat]]
        /\ \A m \in Name : ch'[c][m] <= Len(content'[m])
        /\ ch'[c][Image(cat[c])] # 0
        /\ \A m \in Name : m # Image(cat[c]) => ch'[c][m] = ch[c][m]
        /\ \A d \in Client : d # c => ch'[d] = ch[d]
    <3>1. Image(cat[c]) \in Name
      BY <2>1, Names
    <3>2. OpenOrCreate(Image(cat[c])) /\ Holds(c, Image(cat[c]))
      BY <1>8, Zenon DEF ClientOpenImage, Holds
    <3> QED
      BY <3>1, <3>2, ClientOpens
  <2>3. ClientInThenOut(c, "map") /\ UNCHANGED <<masterVars, again, tries, since, warned, quiet>>
    BY <1>8 DEF ClientOpenImage
  <2>4. ClientTypes'
    BY <1>1, <2>1, <2>2, <2>3, ClientLoops DEF ClientTypes
  <2>5. /\ \/ cat[c] = 0 /\ cat'[c] = 1 /\ cpc'[c] = "openImage"
           \/ cat[c] = 1 /\ cat'[c] = 0 /\ cpc'[c] = "map"
        /\ again'[c] = again[c]
    BY <1>1, <2>1, <2>3, ClientLoops
  <2>6. /\ again[c] => ch[c][Ecm] # 0 /\ \A s \in Slot : ch[c][Sync(s)] # 0
        /\ \A i \in {0, 1} : again[c] \/ i < cat[c] => ch[c][Image(i)] # 0
    BY <1>1, <2>1 DEF ClientOK, Live
  <2>7. /\ again[c] => ch'[c][Ecm] # 0 /\ \A s \in Slot : ch'[c][Sync(s)] # 0
        /\ \A i \in {0, 1} : again[c] \/ i < cat[c] \/ i = cat[c] => ch'[c][Image(i)] # 0
    <3>1. again[c] => ch'[c][Ecm] # 0
      BY <2>1, <2>2, <2>6, Names
    <3>2. again[c] => \A s \in Slot : ch'[c][Sync(s)] # 0
      BY <2>1, <2>2, <2>6, Names
    <3>3. ASSUME NEW i \in {0, 1}, again[c] \/ i < cat[c] \/ i = cat[c]
          PROVE  ch'[c][Image(i)] # 0
      <4>1. i # cat[c] => Image(i) # Image(cat[c]) /\ Image(i) \in Name
        BY <2>1, Names
      <4> QED
        BY <2>2, <2>6, <3>3, <4>1
    <3> QED
      BY <3>1, <3>2, <3>3
  <2>8. ClientOK(c)'
    BY <2>2, <2>5, <2>7 DEF ClientOK, Live
  <2> QED
    BY <1>1, <2>1, <2>2, <2>3, <2>4, <2>8, ClientLoops
<1>9. CASE ClientMap(c)
  <2>1. cat[c] \in {0, 1} /\ cpc[c] = "map"
    BY <1>1, <1>9 DEF ClientMap, ClientOK
  <2>2. Memory' /\ Grows /\ UNCHANGED <<shmVars, masterVars, again, ch, tries, since, warned, quiet>>
    BY <1>2, <1>9 DEF ClientMap
  <2>3. CASE GoTo(c, "failed") /\ UNCHANGED cat
    <3>1. ClientTypes' /\ cpc'[c] = "failed"
      BY <1>1, <2>2, <2>3 DEF GoTo, ClientTypes
    <3>2. ClientOK(c)'
      BY <1>1, <2>2, <2>3, <3>1 DEF ClientOK, Live, shmVars
    <3> QED
      BY <1>1, <2>2, <2>3, <3>1, <3>2 DEF GoTo, ClientTypes
  <2>4. CASE ClientInThenOut(c, IF again[c] THEN "attached" ELSE "openEcm")
    <3>1. PICK next \in {"attached", "openEcm"} :
             ClientInThenOut(c, next) /\ (again[c] <=> next = "attached")
      BY <2>4
    <3>2. ClientTypes'
      BY <1>1, <2>1, <2>2, <3>1, ClientLoops DEF ClientTypes
    <3>3. again[c] \in BOOLEAN
      BY <1>1 DEF ClientTypes
    <3>4. \/ cat[c] = 0 /\ cat'[c] = 1 /\ cpc'[c] = "map"
          \/ cat[c] = 1 /\ cat'[c] = 0 /\ cpc'[c] = next
      BY <1>1, <2>1, <3>1, ClientLoops
    <3>5. ClientOK(c)'
      BY <1>1, <2>1, <2>2, <3>1, <3>3, <3>4 DEF ClientOK, Live, shmVars
    <3> QED
      BY <1>1, <2>1, <2>2, <3>1, <3>2, <3>5, ClientLoops
  <2> QED
    BY <1>9, <2>3, <2>4 DEF ClientMap
<1>10. CASE ClientOpenEcm(c)
  <2>1. /\ Memory' /\ Grows /\ ch' \in [Client -> [Name -> Nat]]
        /\ \A m \in Name : ch'[c][m] <= Len(content'[m])
        /\ ch'[c][Ecm] # 0
        /\ \A m \in Name : m # Ecm => ch'[c][m] = ch[c][m]
        /\ \A d \in Client : d # c => ch'[d] = ch[d]
    <3>1. OpenOrCreate(Ecm) /\ Holds(c, Ecm)
      BY <1>10, Zenon DEF ClientOpenEcm, Holds
    <3> QED
      BY <3>1, Names, ClientOpens
  <2>2. /\ cpc[c] = "openEcm" /\ cpc' = [cpc EXCEPT ![c] = "find"]
        /\ UNCHANGED <<masterVars, cat, again, tries, since, warned, quiet>>
    BY <1>10 DEF ClientOpenEcm, GoTo
  <2>3. ClientTypes' /\ cpc'[c] = "find" /\ \A d \in Client : d # c => cpc'[d] = cpc[d]
    BY <1>1, <2>1, <2>2 DEF ClientTypes
  <2>4. ClientOK(c)'
    BY <1>1, <2>1, <2>2, <2>3 DEF ClientOK, Live
  <2> QED
    BY <1>1, <2>1, <2>2, <2>3, <2>4
<1>11. CASE ClientFind(c)
  <2>1. /\ Memory' /\ Grows /\ cpc[c] = "find"
        /\ UNCHANGED <<shmVars, masterVars, cat, again, ch, tries, since, quiet>>
    BY <1>2, <1>11 DEF ClientFind
  <2>2. ClientTypes' /\ cpc'[c] \in {"semOpen", "construct"}
    BY <1>1, <1>11, <2>1 DEF ClientFind, GoTo, ClientTypes
  <2>3. ClientOK(c)'
    BY <1>1, <1>4, <2>1, <2>2, Z3 DEF ClientOK, Live, shmVars, Slot
  <2> QED
    BY <1>1, <1>11, <2>1, <2>2, <2>3 DEF ClientFind, GoTo, ClientTypes
<1>12. CASE ClientConstruct(c)
  <2>1. cpc[c] = "construct" /\ UNCHANGED <<name, masterVars, cat, again, ch, tries, since, warned, quiet>>
    BY <1>12 DEF ClientConstruct
  <2>2. ch[c][Ecm] \in 1 .. Len(content[Ecm])
    BY <1>1, <2>1, ClientHandle DEF ClientOK, Live
  <2>3. Memory' /\ Grows /\ \A n \in Name : ch'[c][n] <= Len(content'[n])
    <3>1. CASE UNCHANGED content
      BY <1>1, <1>2, <2>1, <3>1 DEF ClientOK, shmVars
    <3>2. CASE content' = [content EXCEPT ![Ecm][ch[c][Ecm]] = 1]
      <4>1. Memory' /\ Grows
        BY <2>1, <2>2, <3>2, Writes
      <4>2. \A n \in Name : Len(content'[n]) = Len(content[n])
        BY <1>1, <2>2, <3>2, Storing DEF Stores, Stored, Memory
      <4> QED
        BY <1>1, <2>1, <4>1, <4>2 DEF ClientOK
    <3> QED
      BY <1>12, <3>1, <3>2 DEF ClientConstruct
  <2>4. ClientTypes' /\ cpc'[c] \in {"semOpen", "failed"}
    BY <1>1, <1>12, <2>1 DEF ClientConstruct, GoTo, ClientTypes
  <2>5. ClientOK(c)'
    BY <1>1, <1>4, <2>1, <2>3, <2>4, Z3 DEF ClientOK, Live, Slot
  <2> QED
    BY <1>1, <1>12, <2>1, <2>3, <2>4, <2>5 DEF ClientConstruct, GoTo, ClientTypes
<1>13. CASE ClientSemOpen(c)
  <2>1. cpc[c] = "semOpen" /\ cat[c] \in Slot /\ ~again[c]
    BY <1>1, <1>13 DEF ClientSemOpen, ClientOK
  <2>2. /\ Memory' /\ Grows /\ ch' \in [Client -> [Name -> Nat]]
        /\ \A m \in Name : ch'[c][m] <= Len(content'[m])
        /\ ch'[c][Sync(cat[c])] # 0
        /\ \A m \in Name : m # Sync(cat[c]) => ch'[c][m] = ch[c][m]
        /\ \A d \in Client : d # c => ch'[d] = ch[d]
    <3>1. OpenOrCreate(Sync(cat[c])) /\ Holds(c, Sync(cat[c]))
      BY <1>13, Zenon DEF ClientSemOpen, Holds
    <3> QED
      BY <2>1, <3>1, Names, ClientOpens
  <2>3. UNCHANGED <<masterVars, tries, since, warned, quiet>>
    BY <1>13 DEF ClientSemOpen
  <2>4. \A t \in Slot : t < cat[c] => ch[c][Sync(t)] # 0
    BY <1>1, <2>1 DEF ClientOK, Live
  <2>5. ch[c][Ecm] # 0 /\ \A i \in {0, 1} : ch[c][Image(i)] # 0
    BY <1>1, <2>1 DEF ClientOK, Live
  <2>6. CASE cat[c] + 1 < EC_SEM_NUM
    <3>1. cat' = [cat EXCEPT ![c] = cat[c] + 1] /\ UNCHANGED <<cpc, again>>
      BY <1>13, <2>6 DEF ClientSemOpen
    <3>2. cat[c] + 1 \in Slot
      BY <2>1, <2>6, ClientLoops
    <3>3. ClientTypes' /\ cat'[c] = cat[c] + 1 /\ \A d \in Client : d # c => cat'[d] = cat[d]
      BY <1>1, <2>2, <2>3, <3>1, <3>2 DEF ClientTypes
    <3>4. \A t \in Slot : t < cat'[c] => t < cat[c] \/ t = cat[c]
      BY <2>1, <3>3 DEF Slot
    <3>5. \A t \in Slot : t < cat'[c] => ch'[c][Sync(t)] # 0
      BY <2>1, <2>2, <2>4, <3>4
    <3>6. ClientOK(c)'
      BY <1>1, <2>1, <2>2, <2>5, <3>1, <3>2, <3>3, <3>5 DEF ClientOK, Live
    <3> QED
      BY <1>1, <2>2, <2>3, <3>1, <3>3, <3>6
  <2>7. CASE ~(cat[c] + 1 < EC_SEM_NUM)
    <3>1. /\ cat' = [cat EXCEPT ![c] = 0] /\ again' = [again EXCEPT ![c] = TRUE]
          /\ cpc' = [cpc EXCEPT ![c] = "openImage"]
      BY <1>13, <2>7 DEF ClientSemOpen, GoTo
    <3>2. /\ ClientTypes' /\ cat'[c] = 0 /\ again'[c] /\ cpc'[c] = "openImage"
          /\ \A d \in Client : d # c =>
                cat'[d] = cat[d] /\ again'[d] = again[d] /\ cpc'[d] = cpc[d]
      BY <1>1, <2>2, <2>3, <3>1 DEF ClientTypes
    <3>3. \A t \in Slot : ch'[c][Sync(t)] # 0
      BY <2>1, <2>2, <2>4, <2>7, ClientLoops
    <3>4. ClientOK(c)'
      BY <2>1, <2>2, <2>5, <3>2, <3>3 DEF ClientOK, Live
    <3> QED
      BY <1>1, <2>2, <2>3, <3>2, <3>4
  <2> QED
    BY <2>6, <2>7
<1>14. CASE ClientTake(c)
  <2>1. /\ cpc[c] = "blocked" /\ cat[c] \in Slot
        /\ UNCHANGED <<name, masterVars, cat, again, ch, tries, since, warned, quiet>>
    BY <1>1, <1>14 DEF ClientTake, ClientOK
  <2>2. /\ ch[c][Sync(cat[c])] \in 1 .. Len(content[Sync(cat[c])])
        /\ content[Sync(cat[c])][ch[c][Sync(cat[c])]] \in Nat
    BY <1>1, <2>1, ClientHandle DEF ClientOK, Live
  <2>3. PICK v \in Nat : content' = [content EXCEPT ![Sync(cat[c])][ch[c][Sync(cat[c])]] = v]
    <3>1. content[Sync(cat[c])][ch[c][Sync(cat[c])]] - 1 \in Nat
      BY <1>14, <2>2 DEF ClientTake
    <3>2. content' = [content EXCEPT ![Sync(cat[c])][ch[c][Sync(cat[c])]] =
                         content[Sync(cat[c])][ch[c][Sync(cat[c])]] - 1]
      BY <1>14, Zenon DEF ClientTake
    <3> QED
      BY <3>1, <3>2
  <2>4. Sync(cat[c]) \in Name /\ UNCHANGED name
    BY <2>1
  <2>5. Memory' /\ Grows /\ \A n \in Name : ch'[c][n] <= Len(content'[n])
    <3>1. Memory' /\ Grows
      BY <2>2, <2>3, <2>4, Writes
    <3>2. \A n \in Name : Len(content'[n]) = Len(content[n])
      BY <1>1, <2>2, <2>3, <2>4, Storing DEF Stores, Stored, Memory
    <3> QED
      BY <1>1, <2>1, <3>1, <3>2 DEF ClientOK
  <2>6. ClientTypes' /\ cpc'[c] = "attached"
    BY <1>1, <1>14, <2>1 DEF ClientTake, GoTo, ClientTypes
  <2>7. ClientOK(c)'
    BY <1>1, <2>1, <2>5, <2>6 DEF ClientOK, Live
  <2> QED
    BY <1>1, <1>14, <2>1, <2>5, <2>6, <2>7 DEF ClientTake, GoTo, ClientTypes
<1> QED
  BY <1>5, <1>6, <1>7, <1>8, <1>9, <1>10, <1>11, <1>12, <1>13, <1>14
     DEF ClientAction, ClientStep

\* Typing is inductive.
LEMMA TypingStep ==
    ASSUME Typing, [Next]_vars
    PROVE  Typing' /\ Grows
<1>1. CASE UNCHANGED vars
  <2>1. Typing'
    BY <1>1 DEF vars, Typing, Memory, MasterOK, AfterEcm, ImageOpened, ClientTypes,
                ClientOK, Live
  <2>2. \A n \in Name : Len(content[n]) \in Nat
    BY DEF Typing, Memory
  <2> QED
    BY <1>1, <2>1, <2>2 DEF vars, Grows
<1> QED
  BY <1>1, MasterTyping, ClientTyping DEF Next, ClientAction

\* Everybody holds what it uses.
THEOREM HandlesHeld == Safety => []Typing
<1>1. Init => Typing
  <2> SUFFICES ASSUME Init PROVE Typing
    OBVIOUS
  <2>1. \A n \in Name : content[n] = <<>> /\ Len(content[n]) = 0 /\ name[n] = 0 /\ mh[n] = 0
    BY DEF Init, NoHandles
  <2>2. Memory
    BY <2>1 DEF Init, Memory, NoHandles
  <2>3. MasterOK
    BY <2>1, ShmAssumption DEF Init, MasterOK, AfterEcm, ImageOpened, NoHandles
  <2>4. ClientTypes
    BY ShmAssumption DEF Init, ClientTypes, NoHandles, Slot
  <2>5. ASSUME NEW c \in Client
        PROVE  ClientOK(c)
    <3>1. cpc[c] = "off" /\ \A n \in Name : ch[c][n] = 0
      BY DEF Init, NoHandles
    <3>2. \A n \in Name : ch[c][n] <= Len(content[n])
      BY <2>1, <3>1
    <3> QED
      BY <3>1, <3>2 DEF ClientOK, Live
  <2> QED
    BY <2>2, <2>3, <2>4, <2>5 DEF Init, Typing
<1> QED
  BY <1>1, TypingStep, PTL DEF Safety

\* The types hold in every reachable state.
THEOREM TypeCorrect == Safety => []TypeOK
<1>1. Typing => TypeOK
  <2> SUFFICES ASSUME Typing PROVE TypeOK
    OBVIOUS
  <2>1. at \in Slot \cup {0, 1}
    BY DEF Typing, MasterOK
  <2> QED
    BY <2>1 DEF Typing, Memory, MasterOK, ClientTypes, ClientOK, TypeOK
<1> QED
  BY <1>1, HandlesHeld, PTL

----------------------------------------------------------------------------
(* The names of a running master.                                          *)

\* The names lead to what the master holds: a name it has opened is not removed
\* and not given another object, except that of the semaphore it replaces.
OwnInv ==
    /\ AfterEcm => name[Ecm] = mh[Ecm]
    /\ \A i \in {0, 1} : ImageOpened(i) => name[Image(i)] = mh[Image(i)]
    /\ \A s \in Slot : mh[Sync(s)] # 0 =>
          name[Sync(s)] = mh[Sync(s)] \/ (mpc = "semReopen" /\ s = at)

\* What a client does leaves the master alone, takes no name away and changes an
\* object only by constructing an empty bus or by taking a signal.
LEMMA ClientEffect ==
    ASSUME Typing, NEW c \in Client, ClientAction(c)
    PROVE  /\ UNCHANGED masterVars
           /\ \A n \in Name : name[n] # 0 => name'[n] = name[n]
           /\ \A n \in Name : \A k \in 1 .. Len(content[n]) :
                \/ content'[n][k] = content[n][k]
                \/ n = Ecm /\ content[n][k] = 0
                \/ /\ \E s \in Slot : n = Sync(s)
                   /\ content[n][k] > 0 /\ content'[n][k] = content[n][k] - 1
           /\ \A n \in Name : \A k \in 1 .. Len(content'[n]) :
                k \in 1 .. Len(content[n]) \/ content'[n][k] = Fresh(n)
<1> DEFINE Effect ==
           /\ \A n \in Name : name[n] # 0 => name'[n] = name[n]
           /\ \A n \in Name : \A k \in 1 .. Len(content[n]) :
                \/ content'[n][k] = content[n][k]
                \/ n = Ecm /\ content[n][k] = 0
                \/ /\ \E s \in Slot : n = Sync(s)
                   /\ content[n][k] > 0 /\ content'[n][k] = content[n][k] - 1
           /\ \A n \in Name : \A k \in 1 .. Len(content'[n]) :
                k \in 1 .. Len(content[n]) \/ content'[n][k] = Fresh(n)
<1>1. Memory /\ ClientOK(c)
  BY DEF Typing
<1>2. UNCHANGED shmVars => Effect
  BY DEF shmVars
<1>3. ASSUME NEW n \in Name, OpenOrCreate(n)
      PROVE  Effect
  BY <1>1, <1>3, Opening
<1>4. CASE Begin(c) \/ End(c) \/ ClientWait(c) \/ ClientMap(c) \/ ClientFind(c)
  <2>1. UNCHANGED <<shmVars, masterVars>>
    BY <1>4 DEF Begin, End, ClientWait, ClientMap, ClientFind
  <2> QED
    BY <1>2, <2>1
<1>5. CASE ClientOpenImage(c)
  <2>1. Image(cat[c]) \in Name
    BY <1>1, <1>5, Names DEF ClientOpenImage, ClientOK
  <2> QED
    BY <1>3, <1>5, <2>1 DEF ClientOpenImage
<1>6. CASE ClientOpenEcm(c)
  BY <1>3, <1>6, Names DEF ClientOpenEcm
<1>7. CASE ClientSemOpen(c)
  <2>1. Sync(cat[c]) \in Name
    BY <1>1, <1>7, Names DEF ClientSemOpen, ClientOK
  <2> QED
    BY <1>3, <1>7, <2>1 DEF ClientSemOpen
<1>8. CASE ClientConstruct(c)
  <2>1. UNCHANGED <<name, masterVars>>
    BY <1>8 DEF ClientConstruct
  <2>2. Ecm \in Name /\ ch[c][Ecm] \in 1 .. Len(content[Ecm])
    BY <1>1, <1>8, Names, ClientHandle DEF ClientConstruct, ClientOK, Live
  <2>3. CASE UNCHANGED content
    BY <1>2, <2>1, <2>3 DEF shmVars
  <2>4. CASE /\ content[Ecm][ch[c][Ecm]] = 0
             /\ content' = [content EXCEPT ![Ecm][ch[c][Ecm]] = 1]
    BY <1>1, <2>1, <2>2, <2>4, Storing DEF Stores, Stored, Memory
  <2> QED
    BY <1>8, <2>1, <2>3, <2>4 DEF ClientConstruct
<1>9. CASE ClientTake(c)
  <2> DEFINE n == Sync(cat[c])
             k == ch[c][n]
             v == content[n][k] - 1
  <2>1. UNCHANGED <<name, masterVars>> /\ cat[c] \in Slot /\ n \in Name
    BY <1>1, <1>9, Names DEF ClientTake, ClientOK
  <2>2. k \in 1 .. Len(content[n]) /\ content[n][k] \in Nat
    BY <1>1, <1>9, <2>1, ClientHandle DEF ClientTake, ClientOK, Live
  <2>3. content[n][k] > 0 /\ v \in Nat
    BY <1>9, <2>2 DEF ClientTake
  <2>4. content' = [content EXCEPT ![n][k] = v]
    BY <1>9, Zenon DEF ClientTake
  <2> HIDE DEF n, k, v
  <2>5. /\ content'[n][k] = v
        /\ \A m \in Name : Len(content'[m]) = Len(content[m])
        /\ \A m \in Name : \A j \in 1 .. Len(content[m]) :
              m # n \/ j # k => content'[m][j] = content[m][j]
    BY <1>1, <2>1, <2>2, <2>3, <2>4, Storing DEF Stores, Stored, Memory
  <2>6. n = Sync(cat[c]) /\ v = content[n][k] - 1
    BY DEF n, k, v
  <2> QED
    BY <2>1, <2>3, <2>5, <2>6
<1> QED
  BY <1>4, <1>5, <1>6, <1>7, <1>8, <1>9 DEF ClientAction, ClientStep

\* What is held by the master stays named, whatever the clients do.
LEMMA OwnFrame ==
    ASSUME Typing, OwnInv, UNCHANGED masterVars,
           \A n \in Name : name[n] # 0 => name'[n] = name[n]
    PROVE  OwnInv'
<1>1. \A i \in {0, 1} : ImageOpened(i) => mh[Image(i)] # 0
  BY DEF Typing, MasterOK
<1>2. AfterEcm => mh[Ecm] # 0
  BY DEF Typing, MasterOK
<1> QED
  BY <1>1, <1>2, Names DEF OwnInv, AfterEcm, ImageOpened, masterVars

\* OwnInv is inductive, given the types.
LEMMA OwnStep ==
    ASSUME Typing, Typing', OwnInv, [Next]_vars
    PROVE  OwnInv'
<1>1. MasterOK /\ MasterOK' /\ Memory
  BY DEF Typing
<1>2. CASE UNCHANGED vars
  BY <1>2, OwnFrame DEF vars, masterVars
<1>3. ASSUME NEW c \in Client, ClientAction(c)
      PROVE  OwnInv'
  BY <1>3, ClientEffect, OwnFrame
<1>4. CASE Start \/ Stop \/ SemGarbage
  <2>1. /\ mpc' \in {"off", "removeEcm"}
        /\ mh' = NoHandles \/ (mpc = "off" /\ UNCHANGED <<name, mh>>)
    BY <1>4 DEF Start, Stop, SemGarbage, shmVars
  <2>2. \A s \in Slot : NoHandles[Sync(s)] = 0
    BY Names DEF NoHandles
  <2> QED
    BY <2>1, <2>2 DEF OwnInv, AfterEcm, ImageOpened
<1> USE Names DEF AfterEcm, ImageOpened
<1>5. CASE RemoveEcm
  BY <1>5, MasterRemoves DEF RemoveEcm, OwnInv
<1>6. CASE OpenEcm
  <2>1. name'[Ecm] = Opened(Ecm) /\ \A n \in Name : n # Ecm => name'[n] = name[n]
    BY <1>1, <1>6, Opening DEF OpenEcm
  <2>2. mh'[Ecm] = Opened(Ecm) /\ \A n \in Name : n # Ecm => mh'[n] = mh[n]
    BY <1>1, <1>6 DEF OpenEcm, MasterOK
  <2> QED
    BY <1>6, <2>1, <2>2 DEF OpenEcm, OwnInv
<1>7. CASE Construct \/ SemTest \/ SemCheck \/ Truncate \/ FillTables
           \/ Cycle \/ SemGetValue \/ SemPost
  <2>1. UNCHANGED <<name, mh>> /\ mpc # "semReopen" /\ AfterEcm
    BY <1>7 DEF Construct, SemTest, SemCheck, Truncate, FillTables, Cycle,
                SemGetValue, SemPost, shmVars
  <2>2. \A i \in {0, 1} : ImageOpened(i)' => ImageOpened(i)
    BY <1>1, <1>7 DEF Construct, SemTest, SemCheck, Truncate, FillTables, Cycle,
                SemGetValue, SemPost, InThenOut, NextSlot, MasterOK
  <2> QED
    BY <2>1, <2>2 DEF OwnInv
<1>8. CASE SemOpen \/ SemReopen
  <2>1. at \in Slot
    BY <1>1, <1>8 DEF SemOpen, SemReopen, MasterOK
  <2>2. /\ mpc \in {"semOpen", "semReopen"}
        /\ mpc' \in {"semTest", "semCheck", "removeImage"}
    BY <1>8 DEF SemOpen, SemReopen
  <2>3. CASE OpenOrCreate(Sync(at)) /\ mh' = [mh EXCEPT ![Sync(at)] = Opened(Sync(at))]
    <3>1. /\ name'[Sync(at)] = Opened(Sync(at))
          /\ \A n \in Name : n # Sync(at) => name'[n] = name[n]
      BY <1>1, <2>1, <2>3, Opening
    <3>2. /\ mh'[Sync(at)] = Opened(Sync(at))
          /\ \A n \in Name : n # Sync(at) => mh'[n] = mh[n]
      BY <1>1, <2>1, <2>3 DEF MasterOK
    <3>3. \A s \in Slot : mh'[Sync(s)] # 0 => name'[Sync(s)] = mh'[Sync(s)]
      BY <2>1, <3>1, <3>2 DEF OwnInv
    <3> QED
      BY <2>1, <2>2, <3>1, <3>2, <3>3 DEF OwnInv
  <2>4. CASE mpc = "semOpen" /\ UNCHANGED <<shmVars, mh>>
    BY <2>2, <2>4 DEF OwnInv, shmVars
  <2> QED
    BY <1>8, <2>3, <2>4 DEF SemOpen, SemReopen
<1>9. CASE SemUnlink
  <2>1. at \in Slot
    BY <1>1, <1>9 DEF SemUnlink, MasterOK
  <2>2. \A n \in Name : n # Sync(at) => name'[n] = name[n]
    BY <1>9, <2>1, MasterRemoves DEF SemUnlink
  <2> QED
    BY <1>9, <2>1, <2>2 DEF SemUnlink, OwnInv
<1>10. CASE RemoveImage
  <2>1. at \in {0, 1}
    BY <1>1, <1>10 DEF RemoveImage, MasterOK
  <2>2. \A n \in Name : n # Image(at) => name'[n] = name[n]
    BY <1>10, <2>1, MasterRemoves DEF RemoveImage
  <2>3. /\ UNCHANGED mh /\ mpc = "removeImage"
        /\ mpc' = "removeImage" \/ (mpc' = "openImage" /\ at' = 0)
    BY <1>10 DEF RemoveImage, InThenOut
  <2> QED
    BY <2>1, <2>2, <2>3 DEF OwnInv
<1>11. CASE OpenImage
  <2>1. at \in {0, 1}
    BY <1>1, <1>11 DEF OpenImage, MasterOK
  <2>2. /\ name'[Image(at)] = Opened(Image(at))
        /\ \A n \in Name : n # Image(at) => name'[n] = name[n]
    BY <1>1, <1>11, <2>1, Opening DEF OpenImage
  <2>3. /\ mh'[Image(at)] = Opened(Image(at))
        /\ \A n \in Name : n # Image(at) => mh'[n] = mh[n]
    BY <1>1, <1>11, <2>1 DEF OpenImage, MasterOK
  <2>4. /\ mpc = "openImage"
        /\ \/ at = 0 /\ at' = 1 /\ mpc' = "openImage"
           \/ at = 1 /\ at' = 0 /\ mpc' = "truncate"
    BY <1>11, <2>1 DEF OpenImage, InThenOut
  <2>5. \A i \in {0, 1} : ImageOpened(i)' => name'[Image(i)] = mh'[Image(i)]
    BY <2>1, <2>2, <2>3, <2>4 DEF OwnInv
  <2> QED
    BY <2>1, <2>2, <2>3, <2>4, <2>5 DEF OwnInv
<1> QED
  BY <1>2, <1>3, <1>4, <1>5, <1>6, <1>7, <1>8, <1>9, <1>10, <1>11
     DEF Next, MasterStep, ClientAction

\* What the master holds stays named.
THEOREM HeldNamed == Safety => []OwnInv
<1>1. Init => OwnInv
  BY Names DEF Init, OwnInv, AfterEcm, ImageOpened, NoHandles
<1> QED
  BY <1>1, HandlesHeld, OwnStep, PTL DEF Safety

\* While the master runs, the names lead to the bus and the images it holds.
THEOREM RunningMasterOwnsNames == Safety => []MasterOwnsNames
<1>1. OwnInv => MasterOwnsNames
  BY DEF OwnInv, MasterOwnsNames, Running, AfterEcm, ImageOpened
<1> QED
  BY <1>1, HeldNamed, PTL

----------------------------------------------------------------------------
(* What a running master's objects hold.                                   *)

\* The master has given image i its size.
ImageSized(i) == Running \/ mpc = "fill" \/ (mpc = "truncate" /\ i < at)

\* The slave tables of a running master are written and its images have their
\* size.
WrittenInv ==
    /\ Running => content[Ecm][mh[Ecm]] = 2
    /\ \A i \in {0, 1} : ImageSized(i) => content[Image(i)][mh[Image(i)]] = 1

\* A step that keeps what the master's bus and images hold keeps WrittenInv.
LEMMA WrittenFrame ==
    ASSUME Typing, WrittenInv, UNCHANGED mh,
           Running' => Running,
           \A i \in {0, 1} : ImageSized(i)' => ImageSized(i),
           \A n \in Name \ {Sync(s) : s \in Slot} : \A k \in 1 .. Len(content[n]) :
              content[n][k] > 0 => content'[n][k] = content[n][k]
    PROVE  WrittenInv'
<1>1. Running => mh[Ecm] # 0
  BY DEF Typing, MasterOK, Running, AfterEcm
<1>2. \A i \in {0, 1} : ImageSized(i) => mh[Image(i)] # 0
  BY DEF Typing, MasterOK, ImageSized, Running, ImageOpened
<1>3. Running => mh[Ecm] \in 1 .. Len(content[Ecm])
  BY <1>1, MasterHandle, Names
<1>4. \A i \in {0, 1} : ImageSized(i) => mh[Image(i)] \in 1 .. Len(content[Image(i)])
  BY <1>2, MasterHandle, Names
<1>5. Running' => content'[Ecm][mh[Ecm]] = 2
  BY <1>3, Names DEF WrittenInv
<1>6. \A i \in {0, 1} : ImageSized(i)' => content'[Image(i)][mh[Image(i)]] = 1
  BY <1>4, Names DEF WrittenInv
<1> QED
  BY <1>5, <1>6 DEF WrittenInv

\* WrittenInv is inductive, given the types.
LEMMA WrittenStep ==
    ASSUME Typing, Typing', WrittenInv, [Next]_vars
    PROVE  WrittenInv'
<1> USE Names
<1>1. MasterOK /\ Memory
  BY DEF Typing
<1>2. CASE UNCHANGED vars
  BY <1>2 DEF vars, WrittenInv, ImageSized, Running
<1>3. ASSUME NEW c \in Client, ClientAction(c)
      PROVE  WrittenInv'
  <2>1. UNCHANGED masterVars
    BY <1>3, ClientEffect
  <2>2. \A n \in Name \ {Sync(s) : s \in Slot} : \A k \in 1 .. Len(content[n]) :
           content[n][k] > 0 => content'[n][k] = content[n][k]
    <3>1. \A n \in Name : \A k \in 1 .. Len(content[n]) : content[n][k] \in Nat
      BY <1>1 DEF Memory
    <3> QED
      BY <1>3, <3>1, ClientEffect
  <2> QED
    BY <2>1, <2>2, WrittenFrame DEF masterVars, ImageSized, Running
<1>4. CASE Start \/ Stop \/ SemGarbage \/ RemoveEcm \/ OpenEcm \/ Construct \/ SemOpen
           \/ SemTest \/ SemUnlink \/ SemReopen \/ SemCheck \/ RemoveImage
  <2>1. ~Running' /\ mpc' \notin {"fill", "truncate"}
    BY <1>4 DEF Start, Stop, SemGarbage, RemoveEcm, OpenEcm, Construct, SemOpen, SemTest,
                SemUnlink, SemReopen, SemCheck, RemoveImage, InThenOut, Running
  <2> QED
    BY <2>1 DEF WrittenInv, ImageSized
<1>5. CASE OpenImage
  <2>1. at \in {0, 1}
    BY <1>1, <1>5 DEF OpenImage, MasterOK
  <2>2. mpc' = "openImage" \/ (mpc' = "truncate" /\ at' = 0)
    BY <1>5, <2>1 DEF OpenImage, InThenOut
  <2> QED
    BY <2>2 DEF WrittenInv, ImageSized, Running
<1>6. CASE Truncate
  <2>1. at \in {0, 1} /\ mpc = "truncate"
    BY <1>1, <1>6 DEF Truncate, MasterOK
  <2>2. \A i \in {0, 1} : mh[Image(i)] # 0
    BY <1>1, <2>1 DEF MasterOK, ImageOpened
  <2>3. \A i \in {0, 1} : mh[Image(i)] \in 1 .. Len(content[Image(i)])
    BY <2>2, MasterHandle
  <2>4. /\ content'[Image(at)][mh[Image(at)]] = 1
        /\ \A i \in {0, 1} : i # at =>
              content'[Image(i)][mh[Image(i)]] = content[Image(i)][mh[Image(i)]]
    <3>1. content \in [Name -> Seq(Nat)] /\ 1 \in Nat
      BY <1>1 DEF Memory
    <3>2. Stores(Image(at), mh[Image(at)], 1)
      BY <1>6, Zenon DEF Truncate, Stores
    <3>3. \A i \in {0, 1} : Image(i) \in Name /\ (i # at => Image(i) # Image(at))
      BY <2>1, Names
    <3>4. Stored(Image(at), mh[Image(at)], 1)
      BY <2>1, <2>3, <3>1, <3>2, <3>3, Storing
    <3> QED
      BY <2>3, <3>3, <3>4 DEF Stored
  <2>5. /\ UNCHANGED mh
        /\ \/ at = 0 /\ at' = 1 /\ mpc' = "truncate"
           \/ at = 1 /\ at' = 0 /\ mpc' = "fill"
    BY <1>6, <2>1 DEF Truncate, InThenOut
  <2> QED
    BY <2>1, <2>4, <2>5 DEF WrittenInv, ImageSized, Running
<1>7. CASE FillTables
  <2>1. mh[Ecm] \in 1 .. Len(content[Ecm]) /\ \A i \in {0, 1} : mh[Image(i)] # 0
    BY <1>1, <1>7, MasterHandle DEF FillTables, MasterOK, AfterEcm, ImageOpened
  <2>2. \A i \in {0, 1} : mh[Image(i)] \in 1 .. Len(content[Image(i)])
    BY <2>1, MasterHandle
  <2>3. /\ content'[Ecm][mh[Ecm]] = 2
        /\ \A i \in {0, 1} :
              content'[Image(i)][mh[Image(i)]] = content[Image(i)][mh[Image(i)]]
    <3>1. content \in [Name -> Seq(Nat)] /\ 2 \in Nat
      BY <1>1 DEF Memory
    <3>2. Stores(Ecm, mh[Ecm], 2)
      BY <1>7, Zenon DEF FillTables, Stores
    <3>3. Stored(Ecm, mh[Ecm], 2)
      BY <2>1, <3>1, <3>2, Names, Storing
    <3> QED
      BY <2>2, <3>3, Names DEF Stored
  <2>4. mpc = "fill" /\ UNCHANGED mh
    BY <1>7 DEF FillTables
  <2> QED
    BY <2>3, <2>4 DEF WrittenInv, ImageSized, Running
<1>8. CASE Cycle \/ SemGetValue
  <2>1. UNCHANGED <<shmVars, mh>> /\ Running
    BY <1>8 DEF Cycle, SemGetValue, Running
  <2> QED
    BY <2>1 DEF WrittenInv, ImageSized, shmVars
<1>9. CASE SemPost
  <2>1. UNCHANGED mh /\ Running /\ at \in Slot
    BY <1>1, <1>9 DEF SemPost, Running, MasterOK
  <2>2. \A n \in Name : n # Sync(at) => content'[n] = content[n]
    BY <1>1, <1>9, <2>1 DEF SemPost, Memory
  <2> QED
    BY <2>1, <2>2 DEF WrittenInv, ImageSized
<1> QED
  BY <1>2, <1>3, <1>4, <1>5, <1>6, <1>7, <1>8, <1>9 DEF Next, MasterStep, ClientAction

\* The tables and images of a running master are ready for its clients.
THEOREM TablesWritten == Safety => []WrittenInv
<1>1. Init => WrittenInv
  BY DEF Init, WrittenInv, ImageSized, Running
<1> QED
  BY <1>1, HandlesHeld, WrittenStep, PTL DEF Safety

----------------------------------------------------------------------------
(* Clients that come late.                                                 *)

\* A client remembers no epoch that has not begun, and the one that has only while
\* the master runs or once it has ended.
EpochInv ==
    /\ mpc # "off" => epoch > 0
    /\ \A c \in Client : since[c] <= epoch /\ (mpc # "off" /\ ~Running => since[c] < epoch)

\* What a client of the running master has opened is what the names lead to, and
\* it is not on the way to constructing a bus of its own.
ShareInv ==
    \A c \in Client : SameMaster(c) =>
        /\ \A n \in Name : ch[c][n] # 0 => ch[c][n] = name[n]
        /\ cpc[c] \notin {"construct", "failed"} /\ ~warned[c]

\* EpochInv is inductive, given the types.
LEMMA EpochStep ==
    ASSUME Typing, EpochInv, [Next]_vars
    PROVE  EpochInv'
<1>1. epoch \in Nat /\ \A c \in Client : since[c] \in Nat
  BY ShmAssumption DEF Typing, MasterOK, ClientTypes
<1>2. CASE UNCHANGED vars
  BY <1>2 DEF vars, EpochInv, Running
<1>3. ASSUME NEW c \in Client, ClientAction(c)
      PROVE  EpochInv'
  <2>1. UNCHANGED masterVars
    BY <1>3, ClientEffect
  <2>2. CASE Begin(c)
    <3>1. \A d \in Client :
             since'[d] = IF d = c THEN (IF Running THEN epoch ELSE 0) ELSE since[d]
      BY <2>2 DEF Begin, Typing, ClientTypes
    <3>2. \A d \in Client : since'[d] <= epoch /\ (mpc # "off" /\ ~Running => since'[d] < epoch)
      BY <1>1, <3>1 DEF EpochInv
    <3> QED
      BY <2>1, <3>2 DEF EpochInv, Running, masterVars
  <2>3. CASE ~Begin(c)
    <3>1. UNCHANGED since
      BY <1>3, <2>3 DEF ClientAction, End, ClientWait, ClientStep, ClientOpenImage, ClientMap,
                        ClientOpenEcm, ClientFind, ClientConstruct, ClientSemOpen, ClientTake
    <3> QED
      BY <2>1, <3>1 DEF EpochInv, Running, masterVars
  <2> QED
    BY <2>2, <2>3
<1>4. CASE Start
  BY <1>1, <1>4 DEF Start, EpochInv, Running, clientVars
<1>5. CASE Stop
  BY <1>5 DEF Stop, EpochInv, Running, clientVars
<1>6. CASE MasterStep
  <2>1. mpc # "off" /\ UNCHANGED <<epoch, since>>
    BY <1>6 DEF MasterStep, RemoveEcm, OpenEcm, Construct, SemOpen, SemTest, SemUnlink,
                SemReopen, SemCheck, RemoveImage, OpenImage, Truncate, FillTables, Cycle,
                SemGetValue, SemGarbage, SemPost, clientVars
  <2>2. Running => Running' \/ mpc' = "off"
    BY <1>6 DEF MasterStep, RemoveEcm, OpenEcm, Construct, SemOpen, SemTest, SemUnlink,
                SemReopen, SemCheck, RemoveImage, OpenImage, Truncate, FillTables, Cycle,
                SemGetValue, SemGarbage, SemPost, NextSlot, Running
  <2> QED
    BY <1>1, <2>1, <2>2 DEF EpochInv
<1> QED
  BY <1>2, <1>3, <1>4, <1>5, <1>6 DEF Next, ClientAction

\* ShareInv is inductive, given what the running master owns and has written.
LEMMA ShareStep ==
    ASSUME Typing, OwnInv, WrittenInv, EpochInv, ShareInv, [Next]_vars
    PROVE  ShareInv'
<1> USE Names
<1>1. CASE UNCHANGED vars
  BY <1>1 DEF vars, ShareInv, SameMaster, Running
<1>2. CASE Start \/ Stop \/ MasterStep
  <2>1. ASSUME NEW c \in Client, SameMaster(c)'
        PROVE  SameMaster(c) /\ UNCHANGED name
    <3>0. epoch \in Nat /\ since[c] \in Nat
      BY ShmAssumption DEF Typing, MasterOK, ClientTypes
    <3>1. UNCHANGED since
      BY <1>2
         DEF MasterStep, Start, Stop, RemoveEcm, OpenEcm,
             Construct, SemOpen, SemTest, SemUnlink, SemReopen, SemCheck, RemoveImage,
             OpenImage, Truncate, FillTables, Cycle, SemGetValue, SemGarbage, SemPost, clientVars
    <3>2. Cycle \/ SemGetValue \/ SemPost \/ FillTables
      BY <1>2, <2>1 DEF SameMaster, Running, MasterStep, Start, Stop, RemoveEcm, OpenEcm,
             Construct, SemOpen, SemTest, SemUnlink, SemReopen, SemCheck, RemoveImage,
             OpenImage, Truncate, SemGarbage, InThenOut
    <3>3. UNCHANGED <<name, epoch>>
      BY <3>2 DEF Cycle, SemGetValue, SemPost, FillTables, shmVars
    <3>4. mpc # "off" /\ since[c] = epoch
      BY <2>1, <3>1, <3>2, <3>3 DEF SameMaster, Cycle, SemGetValue, SemPost, FillTables
    <3> QED
      BY <2>1, <3>0, <3>1, <3>3, <3>4 DEF EpochInv, SameMaster
  <2>2. UNCHANGED clientVars
    BY <1>2 DEF MasterStep, Start, Stop, RemoveEcm, OpenEcm,
             Construct, SemOpen, SemTest, SemUnlink, SemReopen, SemCheck, RemoveImage,
             OpenImage, Truncate, FillTables, Cycle, SemGetValue, SemGarbage, SemPost
  <2> QED
    BY <2>1, <2>2 DEF ShareInv, clientVars
<1>3. ASSUME NEW c \in Client, ClientAction(c)
      PROVE  ShareInv'
  <2>1. UNCHANGED masterVars /\ \A n \in Name : name[n] # 0 => name'[n] = name[n]
    BY <1>3, ClientEffect
  <2>2. ClientTypes /\ ClientOK(c) /\ Memory
    BY DEF Typing
  <2>3. ASSUME NEW d \in Client, SameMaster(d)', SameMaster(d),
               UNCHANGED <<cpc[d], ch[d], warned[d]>>
        PROVE  /\ \A n \in Name : ch'[d][n] # 0 => ch'[d][n] = name'[n]
               /\ cpc'[d] \notin {"construct", "failed"} /\ ~warned'[d]
    BY <2>1, <2>3 DEF ShareInv
  <2>4. ASSUME NEW d \in Client, d # c, SameMaster(d)'
        PROVE  SameMaster(d) /\ UNCHANGED <<cpc[d], ch[d], warned[d]>>
    <3>1. since'[d] = since[d] /\ UNCHANGED <<cpc[d], ch[d], warned[d]>>
      BY <1>3, <2>2, <2>4 DEF ClientAction, Begin, End, ClientWait, ClientStep, ClientOpenImage,
           ClientMap, ClientOpenEcm, ClientFind, ClientConstruct, ClientSemOpen, ClientTake,
           GoTo, ClientInThenOut, ClientTypes
    <3> QED
      BY <2>1, <2>4, <3>1 DEF SameMaster, Running, masterVars
  <2>5. ASSUME SameMaster(c)'
        PROVE  /\ \A n \in Name : ch'[c][n] # 0 => ch'[c][n] = name'[n]
               /\ cpc'[c] \notin {"construct", "failed"} /\ ~warned'[c]
    <3>1. CASE Begin(c)
      BY <2>2, <3>1 DEF Begin, GoTo, NoHandles, ClientTypes
    <3>2. CASE ~Begin(c)
      <4>1. UNCHANGED since
        BY <1>3, <3>2 DEF ClientAction, End, ClientWait, ClientStep, ClientOpenImage, ClientMap,
             ClientOpenEcm, ClientFind, ClientConstruct, ClientSemOpen, ClientTake
      <4>2. SameMaster(c) /\ Running
        BY <2>1, <2>5, <4>1 DEF SameMaster, Running, masterVars
      <4>3. /\ \A n \in Name : ch[c][n] # 0 => ch[c][n] = name[n]
            /\ cpc[c] \notin {"construct", "failed"} /\ ~warned[c]
        BY <4>2 DEF ShareInv
      <4>4. \A n \in {Ecm, Image(0), Image(1)} : ch[c][n] # 0 => ch[c][n] = mh[n]
        BY <4>2, <4>3 DEF OwnInv, Running, AfterEcm, ImageOpened
      <4>5. ASSUME NEW n \in Name, OpenOrCreate(n), ch' = [ch EXCEPT ![c][n] = Opened(n)]
            PROVE  \A m \in Name : ch'[c][m] # 0 => ch'[c][m] = name'[m]
        <5>1. name'[n] = Opened(n)
          BY <2>2, <4>5, Opening
        <5>2. ch'[c][n] = Opened(n) /\ \A m \in Name : m # n => ch'[c][m] = ch[c][m]
          BY <2>2, <4>5 DEF ClientTypes
        <5> QED
          BY <2>1, <4>3, <5>1, <5>2
      <4>6. CASE End(c) \/ ClientWait(c) \/ ClientTake(c)
        BY <2>1, <2>2, <4>3, <4>6 DEF End, ClientWait, ClientTake, GoTo, ClientTypes
      <4>7. CASE ClientOpenImage(c)
        <5>1. Image(cat[c]) \in Name /\ cat[c] \in {0, 1}
          BY <2>2, <4>7 DEF ClientOpenImage, ClientOK
        <5>2. cpc'[c] \in {"openImage", "map"} /\ UNCHANGED warned
          BY <2>2, <4>7, <5>1, ClientLoops DEF ClientOpenImage
        <5> QED
          BY <4>3, <4>5, <4>7, <5>1, <5>2 DEF ClientOpenImage
      <4>8. CASE ClientMap(c)
        <5>1. cat[c] \in {0, 1} /\ ch[c][Image(cat[c])] # 0
          BY <2>2, <4>8 DEF ClientMap, ClientOK, Live
        <5>2. content[Image(cat[c])][ch[c][Image(cat[c])]] = 1
          BY <4>2, <4>4, <5>1 DEF WrittenInv, ImageSized
        <5>3. PICK next \in {"attached", "openEcm"} : ClientInThenOut(c, next)
          BY <4>8, <5>2 DEF ClientMap
        <5>4. cpc[c] = "map" /\ cpc'[c] \in {"map", "attached", "openEcm"}
          BY <2>2, <4>8, <5>1, <5>3, ClientLoops DEF ClientMap
        <5>5. UNCHANGED <<name, ch, warned>>
          BY <4>8 DEF ClientMap, shmVars
        <5> QED
          BY <4>3, <5>4, <5>5
      <4>9. CASE ClientOpenEcm(c)
        BY <2>2, <4>3, <4>5, <4>9 DEF ClientOpenEcm, GoTo, ClientTypes
      <4>10. CASE ClientFind(c)
        <5>1. ch[c][Ecm] # 0
          BY <2>2, <4>10 DEF ClientFind, ClientOK, Live
        <5>2. content[Ecm][ch[c][Ecm]] = 2
          BY <4>2, <4>4, <5>1 DEF WrittenInv
        <5>3. cpc' = [cpc EXCEPT ![c] = "semOpen"] /\ UNCHANGED <<name, ch, warned>>
          BY <4>10, <5>2 DEF ClientFind, GoTo, shmVars
        <5> QED
          BY <2>2, <4>3, <5>3 DEF ClientTypes
      <4>11. CASE ClientConstruct(c)
        BY <4>3, <4>11 DEF ClientConstruct
      <4>12. CASE ClientSemOpen(c)
        <5>1. Sync(cat[c]) \in Name
          BY <2>2, <4>12 DEF ClientSemOpen, ClientOK
        <5>2. cpc'[c] \in {"semOpen", "openImage"} /\ UNCHANGED warned
          BY <2>2, <4>12 DEF ClientSemOpen, GoTo, ClientTypes
        <5> QED
          BY <4>3, <4>5, <4>12, <5>1, <5>2 DEF ClientSemOpen
      <4> QED
        BY <1>3, <3>2, <4>6, <4>7, <4>8, <4>9, <4>10, <4>11, <4>12 DEF ClientAction, ClientStep
    <3> QED
      BY <3>1, <3>2
  <2> QED
    BY <2>3, <2>4, <2>5 DEF ShareInv
<1> QED
  BY <1>1, <1>2, <1>3 DEF Next, ClientAction

\* What a client of the running master holds is what the names lead to.
THEOREM ClientsShare == Safety => [](EpochInv /\ ShareInv)
<1>1. Init => EpochInv /\ ShareInv
  BY DEF Init, EpochInv, ShareInv, SameMaster, Running
<1>2. Typing /\ OwnInv /\ WrittenInv /\ EpochInv /\ ShareInv /\ [Next]_vars
         => (EpochInv /\ ShareInv)'
  BY EpochStep, ShareStep
<1> QED
  BY <1>1, <1>2, HandlesHeld, HeldNamed, TablesWritten, PTL DEF Safety

\* A client that attached while this master was running shares every object the
\* master holds, and finds the slave tables written.
THEOREM AttachedClientShares == Safety => []LateClientShares
<1>1. ASSUME Typing, OwnInv, WrittenInv, ShareInv
      PROVE  LateClientShares
  <2>1. ASSUME NEW c \in Client, SameMaster(c), cpc[c] \in {"attached", "blocked"}
        PROVE  /\ \A n \in Name : mh[n] # 0 => ch[c][n] = mh[n]
               /\ content[Ecm][ch[c][Ecm]] = 2
    <3>1. ClientOK(c) /\ Running
      BY <1>1, <2>1 DEF Typing, SameMaster
    <3>2. /\ ch[c][Ecm] # 0 /\ \A i \in {0, 1} : ch[c][Image(i)] # 0
          /\ \A s \in Slot : ch[c][Sync(s)] # 0
      BY <2>1, <3>1 DEF ClientOK, Live
    <3>3. \A n \in Name : ch[c][n] # 0
      BY <3>2 DEF Name
    <3>4. \A n \in Name : ch[c][n] = name[n]
      BY <1>1, <2>1, <3>3 DEF ShareInv
    <3>5. \A n \in Name : mh[n] # 0 => name[n] = mh[n]
      BY <1>1, <3>1 DEF OwnInv, Running, AfterEcm, ImageOpened, Name
    <3>6. Ecm \in Name /\ mh[Ecm] # 0
      BY <1>1, <3>1, Names DEF Typing, MasterOK, Running, AfterEcm
    <3> QED
      BY <1>1, <3>1, <3>4, <3>5, <3>6 DEF WrittenInv
  <2> QED
    BY <2>1 DEF LateClientShares
<1> QED
  BY <1>1, HandlesHeld, HeldNamed, TablesWritten, ClientsShare, PTL

\* A client that attaches to a running master neither fails on an object of size
\* zero nor is told that there is no master.
THEOREM LateClientNotRefused == Safety => []LateClientAttaches
<1>1. ShareInv => LateClientAttaches
  BY DEF ShareInv, LateClientAttaches
<1> QED
  BY <1>1, ClientsShare, PTL

----------------------------------------------------------------------------
(* What the semaphores hold.                                               *)

\* The semaphore about to be posted has no signal: its only poster has read so.
PostsZero == mpc = "post" => content[Sync(at)][mh[Sync(at)]] = 0

\* No semaphore gets a second signal, whatever processes and objects are old.
SignalInv == SemBinary /\ PostsZero

\* A step of the master before the loop of updateSempahore opens and removes, and
\* leaves the objects that are semaphores alone.
LEMMA StartUpKeepsSignals ==
    ASSUME Typing,
           \/ RemoveEcm \/ OpenEcm \/ Construct \/ SemOpen \/ SemTest \/ SemUnlink
           \/ SemReopen \/ SemCheck \/ RemoveImage \/ OpenImage \/ Truncate \/ FillTables
    PROVE  \A s \in Slot :
             /\ \A k \in 1 .. Len(content[Sync(s)]) : content'[Sync(s)][k] = content[Sync(s)][k]
             /\ \A k \in 1 .. Len(content'[Sync(s)]) :
                   k \in 1 .. Len(content[Sync(s)]) \/ content'[Sync(s)][k] = 1
<1> USE Names
<1>1. MasterOK /\ Memory
  BY DEF Typing
<1>2. ASSUME NEW n \in Name, OpenOrCreate(n)
      PROVE  \A s \in Slot :
             /\ \A k \in 1 .. Len(content[Sync(s)]) : content'[Sync(s)][k] = content[Sync(s)][k]
             /\ \A k \in 1 .. Len(content'[Sync(s)]) :
                   k \in 1 .. Len(content[Sync(s)]) \/ content'[Sync(s)][k] = 1
  BY <1>1, <1>2, Opening
<1>3. CASE RemoveEcm \/ SemTest \/ SemUnlink \/ SemCheck \/ RemoveImage
  <2>1. UNCHANGED content
    BY <1>3 DEF RemoveEcm, SemTest, SemUnlink, SemCheck, RemoveImage, Remove, shmVars
  <2> QED
    BY <2>1
<1>4. CASE OpenEcm
  BY <1>2, <1>4 DEF OpenEcm
<1>5. CASE SemOpen \/ SemReopen
  <2>1. at \in Slot
    BY <1>1, <1>5 DEF SemOpen, SemReopen, MasterOK
  <2>2. CASE UNCHANGED shmVars
    BY <2>2 DEF shmVars
  <2> QED
    BY <1>2, <1>5, <2>1, <2>2 DEF SemOpen, SemReopen
<1>6. CASE OpenImage
  <2>1. at \in {0, 1}
    BY <1>1, <1>6 DEF OpenImage, MasterOK
  <2> QED
    BY <1>2, <1>6, <2>1 DEF OpenImage
<1>7. CASE Construct \/ Truncate \/ FillTables
  <2>1. \A n \in Name : n \notin {Ecm, Image(0), Image(1)} => content'[n] = content[n]
    BY <1>1, <1>7 DEF Construct, Truncate, FillTables, Memory, MasterOK
  <2> QED
    BY <2>1
<1> QED
  BY <1>3, <1>4, <1>5, <1>6, <1>7

\* SignalInv is inductive, given the types.
LEMMA SignalStep ==
    ASSUME Typing, Typing', SignalInv, [Next]_vars
    PROVE  SignalInv'
<1> USE Names
<1>1. MasterOK /\ MasterOK' /\ Memory /\ Memory'
  BY DEF Typing
<1>2. \A s \in Slot : content[Sync(s)] \in Seq(Nat)
  BY <1>1 DEF Memory
<1>3. CASE UNCHANGED vars
  BY <1>3 DEF vars, SignalInv, SemBinary, PostsZero
<1>4. ASSUME NEW c \in Client, ClientAction(c)
      PROVE  SignalInv'
  <2>1. \A s \in Slot : \A k \in 1 .. Len(content'[Sync(s)]) :
           k \in 1 .. Len(content[Sync(s)]) \/ content'[Sync(s)][k] = 1
    BY <1>4, ClientEffect
  <2>2. \A s \in Slot : \A k \in 1 .. Len(content[Sync(s)]) :
           /\ content[Sync(s)][k] \in Nat
           /\ \/ content'[Sync(s)][k] = content[Sync(s)][k]
              \/ content[Sync(s)][k] > 0 /\ content'[Sync(s)][k] = content[Sync(s)][k] - 1
    BY <1>2, <1>4, ClientEffect
  <2>3. SemBinary'
    <3>1. ASSUME NEW s \in Slot, NEW k \in 1 .. Len(content'[Sync(s)])
          PROVE  content'[Sync(s)][k] <= 1
      <4>1. CASE k \in 1 .. Len(content[Sync(s)])
        BY <2>2, <4>1 DEF SignalInv, SemBinary
      <4>2. CASE content'[Sync(s)][k] = 1
        BY <4>2
      <4> QED
        BY <2>1, <4>1, <4>2
    <3> QED
      BY <3>1 DEF SemBinary
  <2>4. PostsZero'
    <3>1. UNCHANGED <<mpc, at, mh>>
      BY <1>4, ClientEffect DEF masterVars
    <3>2. ASSUME mpc = "post"
          PROVE  content'[Sync(at)][mh[Sync(at)]] = 0
      <4>1. at \in Slot /\ mh[Sync(at)] # 0
        BY <1>1, <3>2 DEF MasterOK
      <4>2. mh[Sync(at)] \in 1 .. Len(content[Sync(at)])
        BY <4>1, MasterHandle
      <4>3. content[Sync(at)][mh[Sync(at)]] = 0
        BY <3>2 DEF SignalInv, PostsZero
      <4> QED
        BY <2>2, <4>1, <4>2, <4>3
    <3> QED
      BY <3>1, <3>2 DEF PostsZero
  <2> QED
    BY <2>3, <2>4 DEF SignalInv
<1>5. CASE RemoveEcm \/ OpenEcm \/ Construct \/ SemOpen \/ SemTest \/ SemUnlink
           \/ SemReopen \/ SemCheck \/ RemoveImage \/ OpenImage \/ Truncate \/ FillTables
  <2>1. mpc' # "post"
    BY <1>5 DEF RemoveEcm, OpenEcm, Construct, SemOpen, SemTest, SemUnlink,
           SemReopen, SemCheck, RemoveImage, OpenImage, Truncate, FillTables, InThenOut
  <2>2. \A s \in Slot :
             /\ \A k \in 1 .. Len(content[Sync(s)]) : content'[Sync(s)][k] = content[Sync(s)][k]
             /\ \A k \in 1 .. Len(content'[Sync(s)]) :
                   k \in 1 .. Len(content[Sync(s)]) \/ content'[Sync(s)][k] = 1
    BY <1>5, StartUpKeepsSignals
  <2>3. SemBinary'
    <3>1. ASSUME NEW s \in Slot, NEW k \in 1 .. Len(content'[Sync(s)])
          PROVE  content'[Sync(s)][k] <= 1
      <4>1. CASE k \in 1 .. Len(content[Sync(s)])
        BY <2>2, <4>1 DEF SignalInv, SemBinary
      <4>2. CASE content'[Sync(s)][k] = 1
        BY <4>2
      <4> QED
        BY <2>2, <4>1, <4>2
    <3> QED
      BY <3>1 DEF SemBinary
  <2> QED
    BY <2>1, <2>3 DEF SignalInv, PostsZero
<1>6. CASE Start \/ Stop \/ SemGarbage \/ Cycle
  <2>1. UNCHANGED shmVars /\ mpc' # "post"
    BY <1>6 DEF Start, Stop, SemGarbage, Cycle
  <2> QED
    BY <2>1 DEF SignalInv, SemBinary, PostsZero, shmVars
<1>7. CASE SemGetValue
  <2>1. UNCHANGED <<shmVars, mh>> /\ at \in Slot /\ mh[Sync(at)] # 0
    BY <1>1, <1>7 DEF SemGetValue, MasterOK
  <2>2. Value \in Nat
    BY <2>1, MasterHandle DEF Value
  <2>3. mpc' = "post" => Value = 0 /\ UNCHANGED at
    BY <1>7, <2>1, <2>2, MasterLoops DEF SemGetValue
  <2>4. PostsZero'
    BY <2>1, <2>3 DEF PostsZero, Value, shmVars
  <2> QED
    BY <2>1, <2>4 DEF SignalInv, SemBinary, shmVars
<1>8. CASE SemPost
  <2> DEFINE n == Sync(at)
             k == mh[n]
  <2>1. /\ at \in Slot /\ n \in Name /\ k \in 1 .. Len(content[n])
        /\ content[n][k] = 0
    BY <1>1, <1>8, MasterHandle DEF SemPost, MasterOK, SignalInv, PostsZero
  <2>2. content' = [content EXCEPT ![n][k] = content[n][k] + 1]
    BY <1>8, Zenon DEF SemPost
  <2>3. n = Sync(at)
    OBVIOUS
  <2> HIDE DEF n, k
  <2>4. content' = [content EXCEPT ![n][k] = 1]
    <3>1. content[n][k] + 1 = 1
      BY <2>1
    <3> QED
      BY <2>2, <3>1, Zenon
  <2>5. /\ content'[n][k] = 1
        /\ \A m \in Name : Len(content'[m]) = Len(content[m])
        /\ \A m \in Name : \A j \in 1 .. Len(content[m]) :
              m # n \/ j # k => content'[m][j] = content[m][j]
    <3>1. content \in [Name -> Seq(Nat)] /\ 1 \in Nat
      BY <1>1 DEF Memory
    <3>2. Stores(n, k, 1)
      BY <2>4, Zenon DEF Stores
    <3>3. Stored(n, k, 1)
      BY <2>1, <3>1, <3>2, Storing
    <3> QED
      BY <3>3 DEF Stored
  <2>6. SemBinary'
    <3>1. ASSUME NEW s \in Slot, NEW j \in 1 .. Len(content[Sync(s)])
          PROVE  content'[Sync(s)][j] <= 1
      <4>1. Sync(s) \in Name /\ content[Sync(s)][j] <= 1
        BY Names DEF SignalInv, SemBinary
      <4>2. CASE Sync(s) = n /\ j = k
        BY <2>5, <4>2
      <4>3. CASE Sync(s) # n \/ j # k
        BY <2>5, <4>1, <4>3
      <4> QED
        BY <4>2, <4>3
    <3>2. \A s \in Slot : Len(content'[Sync(s)]) = Len(content[Sync(s)])
      BY <2>5, Names
    <3> QED
      BY <3>1, <3>2 DEF SemBinary
  <2>7. mpc' # "post"
    BY <1>1, <1>8, MasterLoops DEF SemPost, MasterOK
  <2> QED
    BY <2>6, <2>7 DEF SignalInv, PostsZero
<1> QED
  BY <1>3, <1>4, <1>5, <1>6, <1>7, <1>8 DEF Next, MasterStep, ClientAction

\* SignalInv holds in every reachable state.
THEOREM Signalled == Safety => []SignalInv
<1>1. Init => SignalInv
  <2> SUFFICES ASSUME Init PROVE SignalInv
    OBVIOUS
  <2>1. \A s \in Slot : Len(content[Sync(s)]) = 0
    BY Names DEF Init
  <2> QED
    BY <2>1 DEF Init, SignalInv, SemBinary, PostsZero
<1> QED
  BY <1>1, HandlesHeld, SignalStep, PTL DEF Safety

\* No semaphore ever holds more than one signal, restarts included.
THEOREM SemaphoresBinary == Safety => []SemBinary
  BY Signalled, PTL DEF SignalInv

----------------------------------------------------------------------------
(* A start without clients.                                                *)

\* Since a master started while no client lived, only the master touches the
\* semaphores: those it has opened have one signal, unless it is about to replace
\* the one it is at, whose name is then free.  A master that has ended holds none.
QuietInv ==
    /\ mpc = "off" => \A s \in Slot : mh[Sync(s)] = 0
    /\ quiet =>
        /\ \A c \in Client : ~Live(c)
        /\ mpc = "semReopen" => name[Sync(at)] = 0
        /\ mpc # "post"
        /\ \A s \in Slot : mh[Sync(s)] # 0 =>
              \/ content[Sync(s)][mh[Sync(s)]] = 1
              \/ s = at /\ mpc \in {"semTest", "semUnlink", "semReopen"}

\* QuietInv is inductive, given the types.
LEMMA QuietStep ==
    ASSUME Typing, Typing', QuietInv, [Next]_vars
    PROVE  QuietInv'
<1> USE Names
<1>1. MasterOK /\ MasterOK' /\ Memory
  BY DEF Typing
<1>2. \A s \in Slot : mh[Sync(s)] # 0 => mh[Sync(s)] \in 1 .. Len(content[Sync(s)])
  BY MasterHandle
<1>3. CASE UNCHANGED vars
  BY <1>3 DEF vars, QuietInv, Live
<1>4. ASSUME NEW c \in Client, ClientAction(c)
      PROVE  QuietInv'
  <2>1. UNCHANGED masterVars
    BY <1>4, ClientEffect
  <2>2. ~quiet'
    <3>1. CASE Begin(c)
      BY <3>1 DEF Begin
    <3>2. CASE ~Begin(c)
      <4>1. Live(c)
        BY <1>4, <3>2 DEF Live, ClientAction, End, ClientWait, ClientStep, ClientOpenImage,
             ClientMap, ClientOpenEcm, ClientFind, ClientConstruct, ClientSemOpen, ClientTake
      <4>2. UNCHANGED quiet
        BY <1>4, <3>2 DEF ClientAction, End, ClientWait, ClientStep, ClientOpenImage,
             ClientMap, ClientOpenEcm, ClientFind, ClientConstruct, ClientSemOpen, ClientTake
      <4> QED
        BY <4>1, <4>2 DEF QuietInv
    <3> QED
      BY <3>1, <3>2
  <2> QED
    BY <2>1, <2>2 DEF QuietInv, masterVars
<1>5. CASE Start
  <2>1. \A s \in Slot : mh'[Sync(s)] = 0
    BY <1>5 DEF Start, QuietInv
  <2>2. quiet' => \A c \in Client : cpc'[c] \in {"off", "failed"}
    BY <1>5 DEF Start, clientVars
  <2> QED
    BY <1>5, <2>1, <2>2 DEF Start, QuietInv, Live
<1>6. CASE Stop \/ SemGarbage
  <2>1. \A s \in Slot : mh'[Sync(s)] = 0
    BY <1>6 DEF Stop, SemGarbage, NoHandles
  <2> QED
    BY <1>6, <2>1 DEF Stop, SemGarbage, QuietInv, Live, clientVars
<1>7. ASSUME UNCHANGED <<clientVars, quiet>>, mpc' # "off", quiet,
             mpc' # "semReopen", mpc' # "post",
             \A s \in Slot : mh'[Sync(s)] # 0 =>
                \/ content'[Sync(s)][mh'[Sync(s)]] = 1
                \/ s = at' /\ mpc' \in {"semTest", "semUnlink", "semReopen"}
      PROVE  QuietInv'
  BY <1>7 DEF QuietInv, Live, clientVars
<1>8. ASSUME mpc' # "off", UNCHANGED quiet, ~quiet
      PROVE  QuietInv'
  BY <1>8 DEF QuietInv
<1>9. CASE RemoveEcm \/ OpenEcm \/ Construct \/ RemoveImage \/ OpenImage \/ Truncate \/ FillTables
  <2>1. /\ UNCHANGED <<clientVars, quiet>>
        /\ mpc \notin {"off", "semTest", "semUnlink", "semReopen"}
        /\ mpc' \notin {"off", "semReopen", "post"}
    BY <1>9 DEF RemoveEcm, OpenEcm, Construct, RemoveImage, OpenImage, Truncate, FillTables,
                InThenOut
  <2>2. \A s \in Slot : mh'[Sync(s)] = mh[Sync(s)]
    BY <1>1, <1>9 DEF RemoveEcm, OpenEcm, Construct, RemoveImage, OpenImage, Truncate,
                FillTables, MasterOK
  <2>3. \A s \in Slot : \A k \in 1 .. Len(content[Sync(s)]) :
           content'[Sync(s)][k] = content[Sync(s)][k]
    BY <1>9, StartUpKeepsSignals
  <2>4. quiet => \A s \in Slot : mh'[Sync(s)] # 0 => content'[Sync(s)][mh'[Sync(s)]] = 1
    BY <1>2, <2>1, <2>2, <2>3 DEF QuietInv
  <2> QED
    BY <1>7, <1>8, <2>1, <2>4
<1>10. CASE SemOpen
  <2>1. at \in Slot /\ mpc = "semOpen" /\ UNCHANGED <<clientVars, quiet>>
    BY <1>1, <1>10 DEF SemOpen, MasterOK
  <2>2. \A s \in Slot : \A k \in 1 .. Len(content[Sync(s)]) :
           content'[Sync(s)][k] = content[Sync(s)][k]
    BY <1>10, StartUpKeepsSignals
  <2>3. CASE mpc' = "removeImage" /\ UNCHANGED <<shmVars, mh>>
    BY <1>7, <1>8, <2>1, <2>3 DEF QuietInv, shmVars
  <2>4. CASE /\ mpc' = "semTest" /\ UNCHANGED at
             /\ mh' = [mh EXCEPT ![Sync(at)] = Opened(Sync(at))]
    <3>1. \A s \in Slot : s # at => mh'[Sync(s)] = mh[Sync(s)]
      BY <1>1, <2>1, <2>4 DEF MasterOK
    <3>2. quiet => \A s \in Slot : s # at /\ mh'[Sync(s)] # 0 =>
                      content'[Sync(s)][mh'[Sync(s)]] = 1
      BY <1>2, <2>1, <2>2, <3>1 DEF QuietInv
    <3> QED
      BY <1>7, <1>8, <2>1, <2>4, <3>2
  <2> QED
    BY <1>10, <2>3, <2>4 DEF SemOpen
<1>11. CASE SemTest
  <2>1. /\ at \in Slot /\ mpc = "semTest" /\ UNCHANGED <<clientVars, quiet, shmVars, at, mh>>
        /\ mpc' = IF Value # 1 THEN "semUnlink" ELSE "semCheck"
    BY <1>1, <1>11 DEF SemTest, MasterOK
  <2>2. quiet => \A s \in Slot : s # at /\ mh[Sync(s)] # 0 => content[Sync(s)][mh[Sync(s)]] = 1
    BY <2>1 DEF QuietInv
  <2>3. mpc' = "semCheck" => content[Sync(at)][mh[Sync(at)]] = 1
    BY <2>1 DEF Value
  <2> QED
    BY <1>7, <1>8, <2>1, <2>2, <2>3 DEF shmVars
<1>12. CASE SemUnlink
  <2>1. /\ at \in Slot /\ mpc = "semUnlink" /\ mpc' = "semReopen"
        /\ UNCHANGED <<clientVars, quiet, content, at, mh>>
        /\ name'[Sync(at)] = 0
    BY <1>1, <1>12, MasterRemoves DEF SemUnlink, MasterOK
  <2>2. quiet => \A s \in Slot : s # at /\ mh[Sync(s)] # 0 => content[Sync(s)][mh[Sync(s)]] = 1
    BY <2>1 DEF QuietInv
  <2> QED
    BY <2>1, <2>2 DEF QuietInv, Live, clientVars
<1>13. CASE SemReopen
  <2>1. /\ at \in Slot /\ mpc = "semReopen" /\ mpc' = "semCheck"
        /\ UNCHANGED <<clientVars, quiet, at>>
        /\ OpenOrCreate(Sync(at)) /\ mh' = [mh EXCEPT ![Sync(at)] = Opened(Sync(at))]
    BY <1>1, <1>13 DEF SemReopen, MasterOK
  <2>2. /\ mh'[Sync(at)] = Opened(Sync(at))
        /\ \A s \in Slot : s # at => mh'[Sync(s)] = mh[Sync(s)]
    BY <1>1, <2>1 DEF MasterOK
  <2>3. quiet => content'[Sync(at)][mh'[Sync(at)]] = 1
    BY <1>1, <2>1, <2>2, Opening DEF QuietInv
  <2>4. \A s \in Slot : \A k \in 1 .. Len(content[Sync(s)]) :
           content'[Sync(s)][k] = content[Sync(s)][k]
    BY <1>13, StartUpKeepsSignals
  <2>5. quiet => \A s \in Slot : s # at /\ mh'[Sync(s)] # 0 => content'[Sync(s)][mh'[Sync(s)]] = 1
    BY <1>2, <2>1, <2>2, <2>4 DEF QuietInv
  <2> QED
    BY <1>7, <1>8, <2>1, <2>3, <2>5
<1>14. CASE SemCheck \/ Cycle
  <2>1. /\ UNCHANGED <<clientVars, quiet, shmVars, mh>>
        /\ mpc \notin {"off", "semTest", "semUnlink", "semReopen"}
        /\ mpc' \notin {"off", "semReopen", "post"}
    BY <1>14 DEF SemCheck, Cycle
  <2> QED
    BY <1>7, <1>8, <2>1 DEF QuietInv, shmVars
<1>15. CASE SemGetValue
  <2>1. /\ UNCHANGED <<clientVars, quiet, shmVars, mh>> /\ mpc = "getvalue"
        /\ at \in Slot /\ mh[Sync(at)] # 0
    BY <1>1, <1>15 DEF SemGetValue, MasterOK
  <2>2. quiet => Value = 1
    BY <2>1 DEF QuietInv, Value
  <2>3. mpc' # "off" /\ mpc' # "semReopen" /\ (quiet => mpc' # "post")
    BY <1>15, <2>1, <2>2, MasterLoops DEF SemGetValue
  <2> QED
    BY <1>7, <1>8, <2>1, <2>3 DEF QuietInv, shmVars
<1>16. CASE SemPost
  <2>1. mpc = "post" /\ UNCHANGED <<clientVars, quiet>> /\ at \in Slot
    BY <1>1, <1>16 DEF SemPost, MasterOK
  <2>2. ~quiet
    BY <2>1 DEF QuietInv
  <2>3. mpc' # "off"
    BY <1>16, <2>1, MasterLoops DEF SemPost
  <2> QED
    BY <1>8, <2>1, <2>2, <2>3
<1> QED
  BY <1>3, <1>4, <1>5, <1>6, <1>9, <1>10, <1>11, <1>12, <1>13, <1>14, <1>15, <1>16
     DEF Next, MasterStep, ClientAction

\* A master started when no client lives has one signal in every semaphore it
\* opened, whatever was left in them.
THEOREM StartsClean == Safety => []CleanStart
<1>1. Init => QuietInv
  BY Names DEF Init, QuietInv, NoHandles
<1>2. QuietInv => CleanStart
  BY DEF QuietInv, CleanStart
<1> QED
  BY <1>1, <1>2, HandlesHeld, QuietStep, PTL DEF Safety


=============================================================================
