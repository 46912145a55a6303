---------------------------- MODULE EcatProcess ----------------------------
(***************************************************************************)
(* EcatProcess::getSlaveInfo: it opens the network, lets SOEM configure    *)
(* the slaves and prints for each where its variables lie in IOmap, from   *)
(* the CoE dictionary (si_map_sdo, si_PDOassign) or, for a slave without   *)
(* CoE, from the PDO sections of its EEPROM (si_map_sii, si_siiPDO).       *)
(*                                                                         *)
(* An SDO upload may be lost; the code goes on with zeros.  A read of the  *)
(* EEPROM takes its control from the slave's application (PDI) unless      *)
(* SOEM has the bytes in its buffer.                                       *)
(*                                                                         *)
(* A slave is a record: coe, whether it has a CoE mailbox; general,        *)
(* whether its EEPROM has a general section; sms, the sync managers from   *)
(* SM2 on with type and assigned PDOs; out and in, the PDO sections of the *)
(* EEPROM.  A section is its length word and the PDOs that the bytes       *)
(* behind it read as, those that belong to it and whatever follows: the    *)
(* loops over it look at the length only after a PDO.  An entry with       *)
(* obj = 0 is a filler.                                                    *)
(***************************************************************************)
EXTENDS Integers, Sequences, SequencesExt, FiniteSets, Totals

CONSTANTS
    NumSlaves,         \* ec_slavecount
    Slaves,            \* the slaves there may be
    EC_MAXEEPDO,       \* size of the arrays of ec_eepromPDOt
    MaxCalls,          \* bound: calls of getSlaveInfo
    MaxLost            \* bound: SDO uploads that are lost

Entry       == [obj : Nat, bits : Nat]
SyncManager == [type : Nat, pdos : Seq(Seq(Entry))]
SiiPdo      == [sm : Nat, entries : Seq(Entry)]
PdoSection  == [present : BOOLEAN, length : Nat, pdos : Seq(SiiPdo)]
SlaveInfo   == [coe : BOOLEAN, general : BOOLEAN, sms : Seq(SyncManager),
                out : PdoSection, in : PdoSection]

PdoWords(p) == 4 + 4 * Len(p.entries)

\* The n-th PDO of section s is the last one read: the arrays of ec_eepromPDOt are
\* full, or the words consumed, counted from 1, have reached the length.
Ends(s, n) ==
    \/ n >= EC_MAXEEPDO - 1
    \/ 1 + Total([i \in 1 .. n |-> PdoWords(s.pdos[i])]) >= s.length

Dir == {"out", "in"}

\* The bytes of the EEPROM go on as far as a section is read.
ASSUME ProcessAssumption ==
    /\ NumSlaves \in Nat \ {0}
    /\ Slaves \subseteq SlaveInfo
    /\ EC_MAXEEPDO \in Nat \ {0, 1}
    /\ \A s \in Slaves : \A d \in Dir : \E n \in DOMAIN s[d].pdos : Ends(s[d], n)
    /\ MaxCalls \in Nat /\ MaxLost \in Nat

SlaveId == 1 .. NumSlaves
EC_MAXSM == 8

VARIABLES
    bus,       \* bus[k]: slave k
    assigned,  \* assigned[k][d]: the PDOs SOEM mapped for slave k, empty before ec_config
    pc,        \* where getSlaveInfo is; "idle" between calls
    calls,     \* calls so far
    sock,      \* port->sockhandle is an open socket
    printMAP,  \* argument of the call
    cnt,       \* the slave whose turn it is
    eep,       \* eep_pdi: the slaves whose EEPROM is with the PDI
    eectl,     \* si_siiPDO's copy of it
    bugAdd,    \* SMt_bug_add
    sms, dir, pdos, entries,   \* what the loops have left: sync managers, PDOs of
                               \* direction dir, entries
    unread,    \* the PDOs of a section not yet read
    nPDO, c,   \* PDOs read and words consumed of it
    bo,        \* outputs_bo, inputs_bo
    printed,   \* the lines printed: [obj, bit], the bit of IOmap
    lost,      \* uploads lost so far
    damaged    \* history: slaves of which an upload was lost in this call

loops == <<bugAdd, sms, dir, pdos, entries, unread, nPDO, c, eectl>>
vars == <<bus, assigned, pc, calls, sock, printMAP, cnt, eep, bo, printed, lost, damaged,
          bugAdd, sms, dir, pdos, entries, unread, nPDO, c, eectl>>

NothingYet == [d \in Dir |-> <<>>]
NoBits == [d \in Dir |-> 0]

Init ==
    /\ bus \in [SlaveId -> Slaves]
    /\ assigned = [k \in SlaveId |-> NothingYet]
    /\ pc = "idle" /\ calls = 0 /\ sock = FALSE /\ printMAP = FALSE
    /\ cnt = 1 /\ eep = {} /\ eectl = FALSE
    /\ bugAdd = 0 /\ sms = <<>> /\ dir = "out" /\ pdos = <<>> /\ entries = <<>>
    /\ unread = <<>> /\ nPDO = 0 /\ c = 0
    /\ bo = NoBits
    /\ printed = [k \in SlaveId |-> NothingYet]
    /\ lost = 0 /\ damaged = {}

----------------------------------------------------------------------------
(* The image, as SOEM maps it from the same dictionaries and sections; its *)
(* own uploads are taken as answered.                                      *)

INSTANCE ImageLayout

\* The type of a sync manager with the workaround for types numbered from 0.
SmType(raw, bug) == IF raw > 0 THEN raw + bug ELSE 0
DirOf(type) == IF type = 3 THEN "out" ELSE "in"

Wanted(d) == IF d = "out" THEN 3 ELSE 4

\* SOEM stops at SM7 and takes SM2 and SM3 of type 0 for outputs and inputs.
SoemType(s, i) ==
    LET bug  == IF s.sms[1].type = 2 THEN 1 ELSE 0
        type == SmType(s.sms[i].type, bug)
    IN CASE i > EC_MAXSM - 2      -> 0
         [] i = 1 /\ type = 0     -> 3
         [] i = 2 /\ type = 0     -> 4
         [] OTHER                 -> type

CoePdos(s, d) ==
    FlattenSeq([i \in DOMAIN s.sms |->
        IF SoemType(s, i) = Wanted(d) THEN s.sms[i].pdos ELSE <<>>])

\* PDOs without a sync manager are not exchanged.
Active(p) == p.sm < EC_MAXSM
Exchanged(p) == IF Active(p) THEN <<p.entries>> ELSE <<>>

\* The last PDO SOEM reads of a section.
LastPdo(s) == CHOOSE n \in DOMAIN s.pdos : Ends(s, n) /\ \A m \in 1 .. n - 1 : ~Ends(s, m)

SiiPdos(s, d) ==
    IF s[d].present
    THEN FlattenSeq([i \in 1 .. LastPdo(s[d]) |-> Exchanged(s[d].pdos[i])])
    ELSE <<>>

\* The EEPROM serves slaves without CoE, and those whose dictionary maps nothing.
FromCoe(s) == s.coe /\ \E d \in Dir : SumBits(FlattenSeq(CoePdos(s, d))) > 0

Mapped == [k \in SlaveId |-> [d \in Dir |->
              IF FromCoe(bus[k]) THEN CoePdos(bus[k], d) ELSE SiiPdos(bus[k], d)]]

----------------------------------------------------------------------------
(* getSlaveInfo.                                                           *)

Close == sock' = FALSE /\ pc' = "idle"

\* The call: ec_init.  It fails without a socket or with one that it could not bind,
\* which stays open; a socket left by an earlier call is then out of reach.
Begin ==
    /\ pc = "idle" /\ calls < MaxCalls
    /\ calls' = calls + 1
    /\ printMAP' \in BOOLEAN
    /\ \/ pc' = "config" /\ sock' = TRUE
       \/ UNCHANGED pc /\ sock' \in BOOLEAN
    /\ printed' = [k \in SlaveId |-> NothingYet] /\ damaged' = {}
    /\ cnt' = 1
    /\ UNCHANGED <<bus, assigned, eep, bo, lost, loops>>

\* Mutant: the call returns when it finds no slaves.
ConfigReturns ==
    /\ pc = "config"
    /\ \/ pc' = "general" /\ eep' = SlaveId /\ assigned' = Mapped /\ UNCHANGED sock
       \/ pc' = "idle" /\ UNCHANGED <<eep, assigned, sock>>
    /\ UNCHANGED <<bus, calls, printMAP, cnt, bo, printed, lost, damaged, loops>>

\* ec_config: with slaves found it maps them and leaves every EEPROM with the PDI.
\* The states of the slaves are only printed.
Config ==
    /\ pc = "config"
    /\ \/ pc' = "general" /\ eep' = SlaveId /\ assigned' = Mapped /\ UNCHANGED sock
       \/ Close /\ UNCHANGED <<eep, assigned>>
    /\ UNCHANGED <<bus, calls, printMAP, cnt, bo, printed, lost, damaged, loops>>

\* The loop over the slaves; after the last one the socket is closed.
NextSlave ==
    /\ cnt' = cnt + 1
    /\ IF cnt < NumSlaves THEN pc' = "general" /\ UNCHANGED sock ELSE Close

\* ec_siigetbyte: the byte is in the buffer, or the master takes control.
SiiRead == {eep, eep \ {cnt}}

\* The general section; then the way to the mapping.
General ==
    /\ pc = "general"
    /\ IF bus[cnt].general THEN eep' \in SiiRead ELSE UNCHANGED eep
    /\ IF printMAP
       THEN /\ pc' = IF bus[cnt].coe THEN "count" ELSE "section"
            /\ UNCHANGED <<cnt, sock>>
       ELSE NextSlave
    /\ bo' = NoBits /\ dir' = "out" /\ bugAdd' = 0
    /\ UNCHANGED <<bus, assigned, calls, printMAP, printed, lost, damaged,
                   sms, pdos, entries, unread, nPDO, c, eectl>>

\* ~EcatProcess closes the last socket, which a call may have closed before.
Destroy ==
    /\ pc = "idle"
    /\ pc' = "destroyed" /\ sock' = FALSE
    /\ UNCHANGED <<bus, assigned, calls, printMAP, cnt, eep, bo, printed, lost,
                   damaged, loops>>

----------------------------------------------------------------------------
(* The lines printed.                                                      *)

\* Mutant: the offset of the outputs is used for both directions.
MapOffsetOutputs(d) == IOmapStart(cnt, "out") \div 8

\* ec_slave[slave].outputs - IOmap, and the inputs: whole bytes.
MapOffset(d) == IOmapStart(cnt, d) \div 8

\* abs_offset and abs_bit of an entry at bit offset b.
Line(en, d, b) == [obj |-> en.obj, bit |-> 8 * MapOffset(d) + b]

----------------------------------------------------------------------------
(* si_map_sdo and si_PDOassign.                                            *)

\* An upload gets its answer or is lost.
Upload(ok) ==
    /\ ok \/ lost < MaxLost
    /\ lost' = IF ok THEN lost ELSE lost + 1
    /\ damaged' = IF ok THEN damaged ELSE damaged \cup {cnt}

\* The sync managers behind the two of the mailbox, SM8 the last one.
SyncManagers(k) ==
    LET n == Len(bus[k].sms)
    IN SubSeq(bus[k].sms, 1, IF n < EC_MAXSM THEN n ELSE EC_MAXSM - 1)

\* Their number.
CountSM ==
    /\ pc = "count"
    /\ \E ok \in BOOLEAN :
          /\ Upload(ok)
          /\ sms' = IF ok THEN SyncManagers(cnt) ELSE <<>>
    /\ pc' = "type"
    /\ UNCHANGED <<bus, assigned, calls, sock, printMAP, cnt, eep, bo, printed,
                   bugAdd, dir, pdos, entries, unread, nPDO, c, eectl>>

\* The type of the next sync manager; the first one switches the workaround on.
ReadType ==
    /\ pc = "type" /\ sms # <<>>
    /\ \E ok \in BOOLEAN :
          LET raw  == Head(sms).type
              bug  == IF sms = SyncManagers(cnt) /\ raw = 2 THEN 1 ELSE bugAdd
              type == SmType(raw, bug)
          IN /\ Upload(ok)
             /\ bugAdd' = IF ok THEN bug ELSE bugAdd
             /\ IF ok /\ type \in {3, 4}
                THEN pc' = "assign" /\ dir' = DirOf(type) /\ pdos' = Head(sms).pdos
                ELSE UNCHANGED <<pc, dir, pdos>>
    /\ sms' = Tail(sms)
    /\ UNCHANGED <<bus, assigned, calls, sock, printMAP, cnt, eep, bo, printed,
                   entries, unread, nPDO, c, eectl>>

SdoDone ==
    /\ pc = "type" /\ sms = <<>>
    /\ NextSlave
    /\ UNCHANGED <<bus, assigned, calls, printMAP, eep, bo, printed, lost, damaged, loops>>

\* The number of assigned PDOs.
CountPdo ==
    /\ pc = "assign"
    /\ \E ok \in BOOLEAN : Upload(ok) /\ pdos' = IF ok THEN pdos ELSE <<>>
    /\ pc' = "pdo"
    /\ UNCHANGED <<bus, assigned, calls, sock, printMAP, cnt, eep, bo, printed,
                   bugAdd, sms, dir, entries, unread, nPDO, c, eectl>>

\* The index of the next PDO and its number of entries.
ReadPdo ==
    /\ pc = "pdo"
    /\ IF pdos = <<>>
       THEN pc' = "type" /\ UNCHANGED <<pdos, entries, lost, damaged>>
       ELSE /\ \E ok \in BOOLEAN :
                  Upload(ok) /\ entries' = IF ok THEN Head(pdos) ELSE <<>>
            /\ pdos' = Tail(pdos)
            /\ pc' = "entry"
    /\ UNCHANGED <<bus, assigned, calls, sock, printMAP, cnt, eep, bo, printed,
                   bugAdd, sms, dir, unread, nPDO, c, eectl>>

\* An entry is printed, a filler too; a lost one as a filler of no length.
ReadEntry ==
    /\ pc = "entry"
    /\ IF entries = <<>>
       THEN pc' = "pdo" /\ UNCHANGED <<entries, printed, bo, lost, damaged>>
       ELSE /\ \E ok \in BOOLEAN :
                  LET en == IF ok THEN Head(entries) ELSE [obj |-> 0, bits |-> 0]
                  IN /\ Upload(ok)
                     /\ printed' = [printed EXCEPT ![cnt][dir] =
                                       Append(@, Line(en, dir, bo[dir]))]
                     /\ bo' = [bo EXCEPT ![dir] = @ + en.bits]
            /\ entries' = Tail(entries)
            /\ UNCHANGED pc
    /\ UNCHANGED <<bus, assigned, calls, sock, printMAP, cnt, eep,
                   bugAdd, sms, dir, pdos, unread, nPDO, c, eectl>>

----------------------------------------------------------------------------
(* si_map_sii and si_siiPDO.                                               *)

Section == bus[cnt][dir]

\* PDO->Length
Length == Section.length

\* Mutant: control of the EEPROM stays where the reads left it.
RestoreNever(e) == e

\* What si_siiPDO does to the control of the EEPROM before it returns.
Restore(e) == IF eectl THEN e \cup {cnt} ELSE e

\* Outputs first, then inputs, then the next slave.
SectionDone ==
    IF dir = "out"
    THEN dir' = "in" /\ pc' = "section" /\ UNCHANGED <<cnt, sock>>
    ELSE NextSlave /\ UNCHANGED dir

\* ec_siifind, which gives control back by itself, and the length of the section.
FindSection ==
    /\ pc = "section"
    /\ eectl' = (cnt \in eep)
    /\ nPDO' = 0 /\ c' = 1 /\ unread' = Section.pdos
    /\ IF Section.present
       THEN pc' = "siiPdo" /\ eep' \in SiiRead /\ UNCHANGED <<dir, cnt, sock>>
       ELSE SectionDone /\ UNCHANGED eep
    /\ UNCHANGED <<bus, assigned, calls, printMAP, bo, printed, lost, damaged,
                   bugAdd, sms, pdos, entries>>

\* Mutant: the number of PDOs is not limited.
ConsumedUnlimited(p) == c + PdoWords(p)

\* Mutant: bytes are counted instead of words.
ConsumedInBytes(p) == IF nPDO + 1 >= EC_MAXEEPDO - 1 THEN Length ELSE c + 2 * PdoWords(p)

\* Words consumed after PDO p; a full buffer counts as the end of the section.
Consumed(p) == IF nPDO + 1 >= EC_MAXEEPDO - 1 THEN Length ELSE c + PdoWords(p)

\* The condition of the do-while loop.  c started at 1, which lets a section have a
\* word of padding.
More(p) == Consumed(p) < Length

\* The bit offset of the n-th entry of p.
OffsetIn(p, n) == bo[dir] + SumBits(SubSeq(p.entries, 1, n - 1))

\* The lines of a PDO: one for each entry that is not a filler.
Lines(p) ==
    FlattenSeq([n \in DOMAIN p.entries |->
        IF p.entries[n].obj # 0 THEN <<Line(p.entries[n], dir, OffsetIn(p, n))>> ELSE <<>>])

\* One turn of the loop: it reads a PDO before it looks at the length.
ReadSiiPdo ==
    /\ pc = "siiPdo"
    /\ LET p == Head(unread)
       IN /\ nPDO' = nPDO + 1
          /\ c' = Consumed(p)
          /\ IF Active(p)
             THEN /\ printed' = [printed EXCEPT ![cnt][dir] = @ \o Lines(p)]
                  /\ bo' = [bo EXCEPT ![dir] = @ + SumBits(p.entries)]
             ELSE UNCHANGED <<printed, bo>>
          /\ \E e \in SiiRead :
                IF More(p) THEN eep' = e /\ UNCHANGED <<pc, dir, cnt, sock>>
                           ELSE eep' = Restore(e) /\ SectionDone
    /\ unread' = Tail(unread)
    /\ UNCHANGED <<bus, assigned, calls, printMAP, lost, damaged,
                   bugAdd, sms, pdos, entries, eectl>>

Step == \/ Config \/ General
        \/ CountSM \/ ReadType \/ SdoDone \/ CountPdo \/ ReadPdo \/ ReadEntry
        \/ FindSection \/ ReadSiiPdo

Next == Begin \/ Step \/ Destroy

Safety == Init /\ [][Next]_vars

\* A call runs to its end: every upload and every read has a timeout.
Spec == Safety /\ WF_vars(Step)

----------------------------------------------------------------------------
(* Properties.                                                             *)

\* The types of the call; a section never fills more than the arrays of ec_eepromPDOt
\* hold, whatever its length word says.
TypeOK ==
    /\ pc \in {"idle", "config", "general", "count", "type", "assign", "pdo", "entry",
              "section", "siiPdo", "destroyed"}
    /\ calls \in 0 .. MaxCalls /\ lost \in 0 .. MaxLost
    /\ sock \in BOOLEAN /\ printMAP \in BOOLEAN /\ eectl \in BOOLEAN
    /\ cnt \in 1 .. NumSlaves + 1
    /\ eep \subseteq SlaveId /\ damaged \subseteq SlaveId
    /\ bugAdd \in {0, 1} /\ dir \in Dir
    /\ nPDO \in 0 .. EC_MAXEEPDO - 1
    /\ c \in Nat /\ bo \in [Dir -> Nat]

\* SOEM and the walk read the dictionary of slave k alike: it maps something, and the
\* types on which they differ are not used.
ReadAlike(k) ==
    bus[k].coe => /\ FromCoe(bus[k])
                  /\ \A i \in DOMAIN bus[k].sms :
                        SoemType(bus[k], i) = SmType(bus[k].sms[i].type,
                                                     IF bus[k].sms[1].type = 2 THEN 1 ELSE 0)

\* The listing of slave k can be trusted: nothing was lost, and its data starts on a
\* byte (Ostartbit and Istartbit are not looked at).
Sound(k, d) == k \notin damaged /\ ReadAlike(k) /\ IOmapStart(k, d) % 8 = 0

\* The lines that describe entries of slave k from bit b on: from CoE one for each
\* entry, from the EEPROM one for each entry that is not a filler.
Listing(k, list, b) ==
    FlattenSeq([n \in DOMAIN list |->
        IF bus[k].coe \/ list[n].obj # 0
        THEN <<[obj |-> list[n].obj, bit |-> b + SumBits(SubSeq(list, 1, n - 1))]>>
        ELSE <<>>])

Expected(k, d) == Listing(k, Entries(k, d), IOmapStart(k, d))

\* Both walks print every entry with the byte and bit of IOmap where SOEM exchanges
\* it, in the order of the image, past inactive PDOs, fillers, padding, empty sections
\* and the limit on the number of PDOs.
ListingRight ==
    \A k \in SlaveId : \A d \in Dir :
        Sound(k, d) => IsPrefix(printed[k][d], Expected(k, d))

\* A slave the call has passed is listed completely.
ListingComplete ==
    \A k \in SlaveId : \A d \in Dir :
        printMAP /\ cnt > k /\ Sound(k, d) => printed[k][d] = Expected(k, d)

\* si_siiPDO gives the EEPROM back to the slave: only the reads of the general
\* section, which nobody undoes, can leave it with the master.
EepromGivenBack ==
    \A k \in SlaveId : cnt > k /\ ~bus[k].general => k \in eep

\* Whatever is missing or lost, a call that could bind its socket closes it before it
\* returns.
SocketClosed == pc = "config" ~> pc = "idle" /\ ~sock

=============================================================================
