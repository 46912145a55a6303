------------------------------- MODULE PdoMap -------------------------------
(***************************************************************************)
(* How the master finds out where each process variable lies in the        *)
(* images: slaveinfo calls si_map_sdo for every slave, which reads the     *)
(* sync manager types and calls si_PDOassign for the ones that carry       *)
(* process data; si_PDOassign walks the assigned PDOs and their entries    *)
(* and publishes name, offset and size in the slave's table.  Every read   *)
(* is an SDO upload that may be lost; the code then goes on with zeros.    *)
(*                                                                         *)
(* The offsets must agree with the images, which SOEM lays out on its own  *)
(* (ecx_config_map_group): ImageLayout is that layout.  SOEM has read the  *)
(* same objects before, with uploads of its own that may be lost.          *)
(*                                                                         *)
(* In between, slaveinfo assigns other PDOs to slave 1.                    *)
(*                                                                         *)
(* A slave's dictionary is a record: types, the values of 0x1c00 for SM2,  *)
(* SM3, ...; out and in, the PDOs assigned in 0x1c12 and 0x1c13, each a    *)
(* sequence of entries [bits, obj] with obj = 0 for a filler; first, the   *)
(* entries of the PDOs 0x1600 and 0x1a00; sii, the PDOs its EEPROM lists.  *)
(***************************************************************************)
EXTENDS Integers, Sequences, SequencesExt, FiniteSets, Totals

CONSTANTS
    NumSlaves,         \* ec_slavecount
    Dictionary,        \* the dictionaries a slave may have
    MAX_SLAVE_NUM,     \* elements of ecatBus->slaves
    MAX_PD_NUM,        \* MAX_PDINPUT_NUM, MAX_PDOUTPUT_NUM
    MaxLost            \* bound: lost SDO uploads of the walk, and sync manager types
                       \* and entries that SOEM misses

Entry == [obj : Nat, bits : Nat]
Dictionaries == [types : Seq(Nat), out : Seq(Seq(Entry)), in : Seq(Seq(Entry)),
                 first : [out : Seq(Entry), in : Seq(Entry)],
                 sii : [out : Seq(Seq(Entry)), in : Seq(Seq(Entry))]]

\* SM2 carries the outputs and SM3 the inputs, if they carry process data: the type of
\* the one is not that of the other, with or without the workaround for types
\* numbered from 0.  si_PDOassign chooses the table by the sync manager and the
\* offset by the type.
Conforms(types) ==
    /\ Len(types) >= 1 => types[1] # 4
    /\ Len(types) >= 2 => types[2] # IF types[1] = 2 THEN 2 ELSE 3

ASSUME PdoAssumption ==
    /\ NumSlaves \in Nat \ {0}
    /\ Dictionary \subseteq Dictionaries /\ \A s \in Dictionary : Conforms(s.types)
    /\ MAX_SLAVE_NUM \in Nat /\ MAX_PD_NUM \in Nat
    /\ MaxLost \in Nat

Dir == {"out", "in"}
SlaveId == 1 .. NumSlaves
EC_MAXSM == 8

VARIABLES
    dict,      \* dict[k]: the dictionary of slave k
    laid,      \* laid[k][d]: the PDOs SOEM laid out the images from
    pc,        \* "map", "reassign", "count", "type", "assign", "pdo", "entry", "done"
    slave,     \* the slave SOEM maps, then the one si_map_sdo is called for
    nSM, iSM,  \* the loop over the sync managers
    bugAdd,    \* SMt_bug_add
    tSM,       \* the type of the sync manager being walked (3 or 4)
    pdo, sub,  \* the loops over PDOs and their entries
    bo,        \* outputs_bo and inputs_bo, by sync manager type
    bitoffset, \* position of the next entry
    table,     \* table[k][d]: the variables published
    overrun,   \* an element behind the end of a table has been written
    lost,      \* what has been lost so far
    shifted,   \* history: the slaves of which a PDO or an entry was lost
    mistyped   \* history: the slaves that need the workaround for types and did
               \* not get it, because the upload for SM2 was lost

cursor == <<pc, slave, nSM, iSM, bugAdd, tSM, pdo, sub, bo, bitoffset>>
vars == <<dict, laid, pc, slave, nSM, iSM, bugAdd, tSM, pdo, sub, bo, bitoffset,
          table, overrun, lost, shifted, mistyped>>

Init ==
    /\ dict \in [SlaveId -> Dictionary]
    /\ laid = [k \in SlaveId |-> [d \in Dir |-> <<>>]]
    /\ pc = "map"
    /\ slave = 1
    /\ nSM = 0 /\ iSM = 0 /\ bugAdd = 0 /\ tSM = 0 /\ pdo = 0 /\ sub = 0
    /\ bo = [t \in {3, 4} |-> 0]
    /\ bitoffset = 0
    /\ table = [k \in SlaveId |-> [d \in Dir |-> <<>>]]
    /\ overrun = FALSE
    /\ lost = 0
    /\ shifted = {}
    /\ mistyped = {}

----------------------------------------------------------------------------
(* The layout of the images (SOEM).                                        *)

INSTANCE ImageLayout WITH assigned <- laid

\* The assign object of sync manager i, 0x1c10 + i, lists the PDOs of this direction.
DirOf(i) == IF i = 2 THEN "out" ELSE "in"

\* What SOEM may miss of a dictionary: the type of a sync manager and single entries.
\* With a number of PDOs or the index of one lost, all entries below are missing.
Uploads(s) ==
    {<<i>> : i \in {j \in {2, 3} : j - 1 \in DOMAIN s.types}} \cup
    UNION {UNION {{<<i, p, n>> : n \in DOMAIN s[DirOf(i)][p]} : p \in DOMAIN s[DirOf(i)]} :
              i \in {2, 3}}

\* The type SOEM takes sync manager i for when gone is missing: with type 0, SM2 holds
\* the outputs and SM3 the inputs; the workaround depends on SM2's answer.
SoemType(s, i, gone) ==
    LET bug == IF <<2>> \notin gone /\ s.types[1] = 2 THEN 1 ELSE 0
    IN CASE i - 1 \notin DOMAIN s.types \/ <<i>> \in gone -> 0
         [] s.types[i - 1] = 0                            -> i + 1
         [] OTHER                                         -> s.types[i - 1] + bug

Nothing == [obj |-> 0, bits |-> 0]

\* What is left of the PDOs of sync manager i.
Remaining(s, i, gone) ==
    LET pdos == s[DirOf(i)]
    IN [p \in DOMAIN pdos |-> [n \in DOMAIN pdos[p] |->
           IF <<i, p, n>> \in gone THEN Nothing ELSE pdos[p][n]]]

\* ecx_readPDOmap: each sync manager counts for the direction of its type.
Collected(s, gone) ==
    [d \in Dir |->
        LET Part(i) == IF SoemType(s, i, gone) = (IF d = "out" THEN 3 ELSE 4)
                       THEN Remaining(s, i, gone) ELSE <<>>
        IN Part(2) \o Part(3)]

\* ecx_map_sii, for a slave whose dictionary gave no bits: the mapping of the first
\* slave of its kind or, if it is the first, the one in its EEPROM.
Otherwise(k) ==
    LET twins == {j \in 1 .. k - 1 : dict[j] = dict[k]}
    IN IF twins = {} THEN {dict[k].sii}
                     ELSE {laid[j] : j \in {m \in twins : \A i \in twins : m <= i}}

HasBits(pdos) == \E d \in Dir : SumBits(FlattenSeq(pdos[d])) > 0

\* ecx_config_map_group reads what each slave has mapped.
MapSlave ==
    /\ pc = "map"
    /\ \E gone \in SUBSET Uploads(dict[slave]) :
          /\ lost' = lost + Cardinality(gone)
          /\ lost' \in lost .. MaxLost
          /\ LET read == Collected(dict[slave], gone)
             IN \E pdos \in IF HasBits(read) THEN {read} ELSE Otherwise(slave) :
                   laid' = [laid EXCEPT ![slave] = pdos]
    /\ IF slave < NumSlaves
       THEN slave' = slave + 1 /\ UNCHANGED pc
       ELSE slave' = 1 /\ pc' = "reassign"
    /\ UNCHANGED <<dict, nSM, iSM, bugAdd, tSM, pdo, sub, bo, bitoffset,
                   table, overrun, shifted, mistyped>>

----------------------------------------------------------------------------
(* si_map_sdo and si_PDOassign.                                            *)

\* An upload gets its answer or is lost.
Read(ok) == /\ ok \/ lost < MaxLost
            /\ lost' = IF ok THEN lost ELSE lost + 1

\* Mutant: the loop over the slaves before takes in the slave itself.
MapOffsetOwn(k, t) ==
    Total([j \in 1 .. k |-> Bytes(j, IF t = 3 THEN "out" ELSE "in")])

\* Mutant: inputs and outputs are swapped.
MapOffsetSwapped(k, t) ==
    Total([j \in 1 .. k - 1 |-> Bytes(j, IF t = 3 THEN "in" ELSE "out")])

\* slaveOutOffset, slaveInOffset: the bytes of the slaves before, chosen by the
\* sync manager's type.
MapOffset(k, t) ==
    Total([j \in 1 .. k - 1 |-> Bytes(j, IF t = 3 THEN "out" ELSE "in")])

\* ec_SDOwrite of 0x1c12 and 0x1c13 to slave 1, results ignored: each may be refused
\* or lost.
Reassign ==
    /\ pc = "reassign"
    /\ pc' = "count"
    /\ \E taken \in SUBSET {d \in Dir : dict[1].first[d] # <<>>} :
          dict' = [dict EXCEPT ![1] = [f \in DOMAIN @ |->
                      IF f \in taken THEN <<@.first[f]>> ELSE @[f]]]
    /\ UNCHANGED <<laid, slave, nSM, iSM, bugAdd, tSM, pdo, sub, bo, bitoffset,
                   table, overrun, lost, shifted, mistyped>>

\* The loop over the slaves of slaveinfo.
NextSlave ==
    /\ IF slave < NumSlaves
       THEN pc' = "count" /\ slave' = slave + 1
       ELSE pc' = "done" /\ slave' = slave
    /\ bugAdd' = 0
    /\ bo' = [t \in {3, 4} |-> 0]
    /\ nSM' = 0 /\ iSM' = 0 /\ tSM' = 0 /\ pdo' = 0 /\ sub' = 0 /\ bitoffset' = 0

\* Mutant: one sync manager too many is read.
NextSMOneMore(offsets, bug) ==
    IF iSM <= nSM
    THEN /\ pc' = "type" /\ iSM' = iSM + 1
         /\ bo' = offsets /\ bugAdd' = bug
         /\ tSM' = 0 /\ pdo' = 0 /\ sub' = 0 /\ bitoffset' = 0
         /\ UNCHANGED <<slave, nSM>>
    ELSE NextSlave

\* The loop over the sync managers, with the bit offsets so far.
NextSM(offsets, bug) ==
    IF iSM < nSM
    THEN /\ pc' = "type" /\ iSM' = iSM + 1
         /\ bo' = offsets /\ bugAdd' = bug
         /\ tSM' = 0 /\ pdo' = 0 /\ sub' = 0 /\ bitoffset' = 0
         /\ UNCHANGED <<slave, nSM>>
    ELSE NextSlave

\* The slave's element of ecatBus->slaves gets its name and id.  The number of sync
\* managers; SM0 and SM1 are the mailbox.
CountSM ==
    /\ pc = "count"
    /\ \E ok \in BOOLEAN :
          /\ Read(ok)
          /\ LET n == IF ok THEN Len(dict[slave].types) + 2 ELSE 0 IN
             IF n > 2
             THEN /\ pc' = "type" /\ iSM' = 2
                  /\ nSM' = IF n - 1 > EC_MAXSM THEN EC_MAXSM ELSE n - 1
                  /\ UNCHANGED <<slave, bugAdd, tSM, pdo, sub, bo, bitoffset>>
             ELSE NextSlave
    /\ overrun' = (overrun \/ slave > MAX_SLAVE_NUM)
    /\ UNCHANGED <<dict, laid, table, shifted, mistyped>>

\* The type of sync manager iSM, with the workaround for slaves that number the
\* types from 0.  Types 3 and 4 call si_PDOassign, which returns at once for an
\* assign object other than 0x1c12 and 0x1c13 and otherwise empties the table.
ReadType ==
    /\ pc = "type"
    /\ \E ok \in BOOLEAN :
          /\ Read(ok)
          /\ LET raw == dict[slave].types[iSM - 1]
                 bug == IF iSM = 2 /\ raw = 2 THEN 1 ELSE bugAdd
                 t   == IF raw > 0 THEN raw + bug ELSE 0
             IN /\ mistyped' = IF ok \/ bug = bugAdd THEN mistyped
                                                     ELSE mistyped \cup {slave}
                /\ IF ok /\ t \in {3, 4} /\ iSM \in {2, 3}
                   THEN /\ pc' = "assign" /\ tSM' = t /\ bugAdd' = bug
                        /\ bitoffset' = bo[t]
                        /\ table' = [table EXCEPT ![slave][DirOf(iSM)] = <<>>]
                        /\ UNCHANGED <<slave, nSM, iSM, pdo, sub, bo>>
                   ELSE /\ NextSM(bo, IF ok THEN bug ELSE bugAdd)
                        /\ UNCHANGED table
    /\ UNCHANGED <<dict, laid, overrun, shifted>>

\* The PDOs the assign object lists.
Assigned == dict[slave][DirOf(iSM)]

\* si_PDOassign returns the bits it walked.
Return == NextSM([bo EXCEPT ![tSM] = bitoffset], bugAdd)

\* The loop over the PDOs goes on after PDO p.
NextPdo(p) ==
    IF p < Len(Assigned)
    THEN /\ pc' = "pdo" /\ pdo' = p + 1
         /\ UNCHANGED <<slave, nSM, iSM, bugAdd, tSM, sub, bo, bitoffset>>
    ELSE Return

\* The number of assigned PDOs.
CountPdo ==
    /\ pc = "assign"
    /\ \E ok \in BOOLEAN :
          /\ Read(ok)
          /\ IF ok THEN NextPdo(0) ELSE Return
    /\ UNCHANGED <<dict, laid, table, overrun, shifted, mistyped>>

\* The index of a PDO and its number of entries: with either lost, or without
\* entries, the PDO is passed over.
ReadPdo ==
    /\ pc = "pdo"
    /\ \E ok \in BOOLEAN :
          /\ Read(ok)
          /\ shifted' = IF ok THEN shifted ELSE shifted \cup {slave}
          /\ IF ok /\ Assigned[pdo] # <<>>
             THEN /\ pc' = "entry" /\ sub' = 1
                  /\ UNCHANGED <<slave, nSM, iSM, bugAdd, tSM, pdo, bo, bitoffset>>
             ELSE NextPdo(pdo)
    /\ UNCHANGED <<dict, laid, table, overrun, mistyped>>

\* What is published of an entry of the given length at bit offset b.
PdVar(en, b) ==
    [obj    |-> en.obj,
     offset |-> MapOffset(slave, tSM) + b \div 8,
     size   |-> en.bits \div 8]

\* Mutant: every PDO starts again at the bit offset of the sync manager.
NextEntryRestarts(bits) ==
    IF sub < Len(Assigned[pdo])
    THEN /\ sub' = sub + 1
         /\ bitoffset' = bitoffset + bits
         /\ UNCHANGED <<pc, slave, nSM, iSM, bugAdd, tSM, pdo, bo>>
    ELSE IF pdo < Len(Assigned)
    THEN /\ pc' = "pdo" /\ pdo' = pdo + 1 /\ sub' = 0
         /\ bitoffset' = bo[tSM]
         /\ UNCHANGED <<slave, nSM, iSM, bugAdd, tSM, bo>>
    ELSE NextSM([bo EXCEPT ![tSM] = bitoffset + bits], bugAdd)

\* The loop over the entries: the bits walked, the entry published or not.
NextEntry(bits) ==
    IF sub < Len(Assigned[pdo])
    THEN /\ sub' = sub + 1
         /\ bitoffset' = bitoffset + bits
         /\ UNCHANGED <<pc, slave, nSM, iSM, bugAdd, tSM, pdo, bo>>
    ELSE IF pdo < Len(Assigned)
    THEN /\ pc' = "pdo" /\ pdo' = pdo + 1 /\ sub' = 0
         /\ bitoffset' = bitoffset + bits
         /\ UNCHANGED <<slave, nSM, iSM, bugAdd, tSM, bo>>
    ELSE NextSM([bo EXCEPT ![tSM] = bitoffset + bits], bugAdd)

\* An entry, and for one that is not a filler its dictionary entry: a lost entry
\* counts as a filler of no length, a lost dictionary entry is not published.
\* The index is stored behind the last variable in any case.
ReadEntry ==
    /\ pc = "entry"
    /\ \E ok, known \in BOOLEAN :
          LET en == Assigned[pdo][sub]
              d  == DirOf(iSM)
          IN /\ (ok /\ en.obj # 0) \/ known   \* no second upload for a filler
             /\ Read(ok /\ known)
             /\ shifted' = IF ok THEN shifted ELSE shifted \cup {slave}
             /\ overrun' = (overrun \/ Len(table[slave][d]) >= MAX_PD_NUM)
             /\ table' = IF ok /\ en.obj # 0 /\ known
                         THEN [table EXCEPT ![slave][d] =
                                  Append(@, PdVar(en, bitoffset))]
                         ELSE table
             /\ NextEntry(IF ok THEN en.bits ELSE 0)
    /\ UNCHANGED <<dict, laid, mistyped>>

Next == MapSlave \/ Reassign \/ CountSM \/ ReadType \/ CountPdo \/ ReadPdo \/ ReadEntry

Spec == Init /\ [][Next]_vars

----------------------------------------------------------------------------
(* Properties.                                                             *)

PdVars == [obj : Nat, offset : Nat, size : Nat]

\* The types of the walk.
TypeOK ==
    /\ pc \in {"map", "reassign", "count", "type", "assign", "pdo", "entry", "done"}
    /\ slave \in SlaveId
    /\ nSM \in 0 .. EC_MAXSM /\ iSM \in 0 .. nSM
    /\ bugAdd \in {0, 1} /\ tSM \in {0, 3, 4}
    /\ pdo \in Nat /\ sub \in Nat
    /\ bo \in [{3, 4} -> Nat] /\ bitoffset \in Nat
    /\ \A k \in SlaveId : \A d \in Dir : table[k][d] \in Seq(PdVars)
    /\ overrun \in BOOLEAN
    /\ lost \in 0 .. MaxLost
    /\ shifted \subseteq SlaveId /\ mistyped \subseteq SlaveId

\* The slaves before k in direction d all start and end on bytes.
WholeBytesBefore(k, d) == \A j \in 1 .. k - 1 : Bits(j, d) = 0 \/ Bits(j, d) > 7

\* What slave k has assigned is not the beginning of what SOEM laid out for it: SOEM
\* missed a part of it, or the master gave slave 1 other PDOs afterwards.
Moved(k, d) == ~IsPrefix(dict[k][d], laid[k][d])

\* The walk saw slave k's variables of direction d with the sync manager types and
\* the PDOs they have in the image.
SameLayout(k, d) == k \notin mistyped /\ ~Moved(k, d)

\* Every variable of slave k published in direction d lies where SOEM exchanges it.
Agrees(k, d) ==
    \A i \in DOMAIN table[k][d] :
        \E n \in DOMAIN Entries(k, d) :
            /\ Entries(k, d)[n].obj = table[k][d][i].obj
            /\ table[k][d][i].offset = EntryStart(k, d, n) \div 8
            /\ table[k][d][i].size = Entries(k, d)[n].bits \div 8

\* The variables of a slave are published where SOEM exchanges them, whatever happened
\* to other slaves and whichever counts, names or types of its own were lost, but for
\* five cases the code gets wrong: a PDO or entry was lost (shifted), SM2's type was
\* lost and the slave needs the workaround (mistyped), SOEM missed a part of the slave
\* or the master gave it other PDOs (Moved), or a slave before it is bit oriented.
OffsetsAgree ==
    \A k \in SlaveId : \A d \in Dir :
        k \notin shifted /\ SameLayout(k, d) /\ WholeBytesBefore(k, d) => Agrees(k, d)

\* A variable of at least a byte is published inside the shared image, whatever the
\* walk lost of its PDOs and entries and whatever happened to other slaves.  Not for a
\* slave that is mistyped, that SOEM misread or that got other PDOs.
InsideImage ==
    \A k \in SlaveId : \A d \in Dir : SameLayout(k, d) =>
        \A i \in DOMAIN table[k][d] :
            LET v == table[k][d][i]
            IN v.size > 0 => v.offset + v.size <= ImageBytes(d)

\* The byte ranges published for variables of at least a byte are disjoint, under the
\* conditions of InsideImage.  This is about what a client is told: behind a variable
\* that is no whole number of bytes, the bytes published for the next one also hold
\* bits of its neighbours, and one of less than a byte is published at a byte of them.
NoOverlap ==
    \A d \in Dir : \A k, l \in {j \in SlaveId : SameLayout(j, d)} :
        \A i \in DOMAIN table[k][d], j \in DOMAIN table[l][d] :
            LET v == table[k][d][i]
                w == table[l][d][j]
            IN (<<k, i>> # <<l, j>> /\ v.size > 0 /\ w.size > 0) =>
                   v.offset + v.size <= w.offset \/ w.offset + w.size <= v.offset

\* The bus holds at most MAX_SLAVE_NUM slaves, a slave at most MAX_PDINPUT_NUM inputs
\* and MAX_PDOUTPUT_NUM outputs, and nothing is stored behind them.
WithinTable == ~overrun

=============================================================================
