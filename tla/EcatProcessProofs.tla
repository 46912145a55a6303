------------------------- MODULE EcatProcessProofs -------------------------
(***************************************************************************)
(* Proofs about getSlaveInfo, for every bus, every content of the EEPROMs  *)
(* and every number of calls and lost uploads.                             *)
(***************************************************************************)
EXTENDS EcatProcess, FoldTheorems

----------------------------------------------------------------------------
(* Types, and the limit on the number of PDOs.                             *)

\* The call is past ec_config, in its loop over the slaves.
InLoop == pc \notin {"idle", "config", "destroyed"}

\* The words of the first n PDOs of a section.
Words(s, n) == Total([i \in 1 .. n |-> PdoWords(s.pdos[i])])

\* A turn of the loop over a section begins only with one of the PDOs that SOEM reads.
SectionInv ==
    /\ Section.present /\ nPDO \in 0 .. LastPdo(Section) - 1
    /\ unread = SubSeq(Section.pdos, nPDO + 1, Len(Section.pdos))
    /\ c = 1 + Words(Section, nPDO)

\* What the loops have left is what the slaves may hold, the loop over the slaves is
\* at a slave of the bus.
WalkInv ==
    /\ bus \in [SlaveId -> Slaves]
    /\ sms \in Seq(SyncManager) /\ pdos \in Seq(Seq(Entry)) /\ entries \in Seq(Entry)
    /\ unread \in Seq(SiiPdo)
    /\ pc = "config" \/ InLoop => cnt \in SlaveId
    /\ pc = "siiPdo" => SectionInv

Typing == TypeOK /\ WalkInv

\* A slave of the bus is a slave there may be.
LEMMA SlaveType ==
    ASSUME Typing, NEW k \in SlaveId, NEW d \in Dir
    PROVE  /\ bus[k] \in Slaves /\ bus[k] \in SlaveInfo /\ bus[k][d] \in PdoSection
           /\ bus[k].sms \in Seq(SyncManager)
BY ProcessAssumption DEF Typing, WalkInv, SlaveInfo, Dir

\* The entries of a PDO have a length.
LEMMA SumBitsType ==
    ASSUME NEW e \in Seq(Entry)
    PROVE  SumBits(e) \in Nat
<1> DEFINE q == [i \in DOMAIN e |-> e[i].bits]
<1>1. q \in Seq(Nat)
  <2>1. DOMAIN e = 1 .. Len(e) /\ Len(e) \in Nat /\ \A i \in 1 .. Len(e) : e[i] \in Entry
    OBVIOUS
  <2>2. \A i \in 1 .. Len(e) : e[i].bits \in Nat
    BY <2>1 DEF Entry
  <2> QED
    BY <2>1, <2>2
<1>2. Total(q) \in Nat
  <2> HIDE DEF q
  <2> QED
    BY <1>1, TotalType
<1> QED
  BY <1>2 DEF SumBits

\* The words of a section add up PDO by PDO.
LEMMA WordsAddUp ==
    ASSUME NEW s \in PdoSection
    PROVE  /\ Words(s, 0) = 0
           /\ \A n \in 0 .. Len(s.pdos) : Words(s, n) \in Nat
           /\ \A n \in 1 .. Len(s.pdos) :
                 Words(s, n) = Words(s, n - 1) + PdoWords(s.pdos[n])
<1> DEFINE q(n) == [i \in 1 .. n |-> PdoWords(s.pdos[i])]
<1>1. /\ Len(s.pdos) \in Nat
      /\ \A i \in 1 .. Len(s.pdos) : PdoWords(s.pdos[i]) \in Nat
  <2>1. \A p \in SiiPdo : p.entries \in Seq(Entry) /\ Len(p.entries) \in Nat
    BY DEF SiiPdo
  <2>2. s.pdos \in Seq(SiiPdo)
    BY DEF PdoSection
  <2>3. Len(s.pdos) \in Nat /\ \A i \in 1 .. Len(s.pdos) : s.pdos[i] \in SiiPdo
    BY <2>2
  <2> QED
    BY <2>1, <2>3 DEF PdoWords
<1>2. \A n \in 0 .. Len(s.pdos) : q(n) \in Seq(Nat)
  BY <1>1
<1>3. ASSUME NEW n \in 1 .. Len(s.pdos)
      PROVE  q(n) = Append(q(n - 1), PdoWords(s.pdos[n]))
  BY <1>1
<1>4. q(0) = <<>>
  OBVIOUS
<1>5. \A n \in 0 .. Len(s.pdos) : Words(s, n) = Total(q(n))
  BY DEF Words
<1> HIDE DEF q
<1>6. \A n \in 0 .. Len(s.pdos) : Total(q(n)) \in Nat
  BY <1>2, TotalType
<1>7. ASSUME NEW n \in 1 .. Len(s.pdos)
      PROVE  Total(q(n)) = Total(q(n - 1)) + PdoWords(s.pdos[n])
  <2>1. n - 1 \in 0 .. Len(s.pdos)
    BY <1>1
  <2> QED
    BY <1>1, <1>2, <1>3, <2>1, TotalSteps
<1>8. \A n \in 1 .. Len(s.pdos) : n - 1 \in 0 .. Len(s.pdos) /\ n \in 0 .. Len(s.pdos)
  BY <1>1
<1>9. 0 \in 0 .. Len(s.pdos)
  BY <1>1
<1> QED
  BY <1>4, <1>5, <1>6, <1>7, <1>8, <1>9, TotalSteps

\* SOEM reads the PDOs of a section up to the first at which the loop ends.
LEMMA LastRead ==
    ASSUME Typing, NEW k \in SlaveId, NEW d \in Dir
    PROVE  LET s == bus[k][d]
           IN /\ LastPdo(s) \in 1 .. Len(s.pdos) /\ Ends(s, LastPdo(s))
              /\ \A m \in 1 .. LastPdo(s) - 1 : ~Ends(s, m)
<1> DEFINE s == bus[k][d]
           Stops(n) == Ends(s, n) /\ \A m \in 1 .. n - 1 : ~Ends(s, m)
           E == {n \in DOMAIN s.pdos : Ends(s, n)}
<1>1. DOMAIN s.pdos = 1 .. Len(s.pdos) /\ Len(s.pdos) \in Nat
  <2>1. s.pdos \in Seq(SiiPdo)
    BY SlaveType DEF PdoSection
  <2> QED
    BY <2>1
<1>2. E \subseteq Nat /\ E # {}
  BY <1>1, SlaveType, ProcessAssumption
<1>3. PICK n \in E : \A m \in E : n <= m
  <2> HIDE DEF E
  <2> QED
    BY <1>2, Minimum
<1>4. n \in DOMAIN s.pdos /\ Stops(n)
  <2>1. \A m \in 1 .. n - 1 : m \in DOMAIN s.pdos /\ ~ (n <= m)
    BY <1>1, <1>3
  <2> QED
    BY <1>3, <2>1
<1>5. LastPdo(s) = CHOOSE m \in DOMAIN s.pdos : Stops(m)
  BY DEF LastPdo
<1>6. LastPdo(s) \in DOMAIN s.pdos /\ Stops(LastPdo(s))
  <2> HIDE DEF Stops
  <2> QED
    BY <1>4, <1>5
<1> QED
  BY <1>1, <1>6

\* Head and tail of what a loop has left.
LEMMA HeadTail ==
    ASSUME NEW T, NEW q \in Seq(T), q # <<>>
    PROVE  Head(q) \in T /\ Tail(q) \in Seq(T)
OBVIOUS

\* The loop over the slaves goes on to a slave or ends.
LEMMA NextSlaveType ==
    ASSUME Typing, cnt \in SlaveId, NextSlave
    PROVE  /\ cnt' \in 1 .. NumSlaves + 1 /\ sock' \in BOOLEAN
           /\ pc' \in {"general", "idle"} /\ cnt' = cnt + 1
           /\ InLoop' => cnt' \in SlaveId
<1>1. NumSlaves \in Nat /\ cnt \in 1 .. NumSlaves
  BY ProcessAssumption DEF SlaveId
<1>2. sock' \in BOOLEAN
  <2>1. sock \in BOOLEAN
    BY DEF Typing, TypeOK
  <2>2. sock' = sock \/ sock' = FALSE
    BY DEF NextSlave, Close
  <2> QED
    BY <2>1, <2>2
<1>3. CASE cnt < NumSlaves
  BY <1>1, <1>2, <1>3 DEF NextSlave, SlaveId
<1>4. CASE ~ (cnt < NumSlaves)
  BY <1>1, <1>2, <1>4 DEF NextSlave, Close, InLoop
<1> QED
  BY <1>3, <1>4

\* A lost upload is accounted for.
LEMMA UploadType ==
    ASSUME Typing, cnt \in SlaveId, NEW ok \in BOOLEAN, Upload(ok)
    PROVE  lost' \in 0 .. MaxLost /\ damaged' \subseteq SlaveId
BY ProcessAssumption DEF Typing, TypeOK, Upload

\* The end of a section goes on to the other one or to the next slave.
LEMMA SectionDoneType ==
    ASSUME Typing, cnt \in SlaveId, SectionDone
    PROVE  /\ cnt' \in 1 .. NumSlaves + 1 /\ sock' \in BOOLEAN /\ dir' \in Dir
           /\ pc' \in {"general", "idle", "section"}
           /\ InLoop' => cnt' \in SlaveId
           /\ cnt' = cnt \/ cnt' = cnt + 1
<1>1. CASE dir = "out"
  BY <1>1 DEF SectionDone, Typing, TypeOK, Dir, InLoop, SlaveId
<1>2. CASE dir # "out"
  BY <1>2, NextSlaveType DEF SectionDone, Typing, TypeOK
<1> QED
  BY <1>1, <1>2

\* The steps of the walk over the dictionary keep the types.
LEMMA SdoTyping ==
    ASSUME Typing, CountSM \/ ReadType \/ SdoDone \/ CountPdo \/ ReadPdo \/ ReadEntry
    PROVE  Typing'
<1>0. cnt \in SlaveId
  BY DEF CountSM, ReadType, SdoDone, CountPdo, ReadPdo, ReadEntry, Typing, WalkInv, InLoop
<1>1. CASE CountSM
  <2>1. sms' \in Seq(SyncManager)
    <3>1. bus[cnt].sms \in Seq(SyncManager)
      BY <1>0, SlaveType DEF Dir
    <3>2. SyncManagers(cnt) \in Seq(SyncManager)
      BY <3>1 DEF SyncManagers, EC_MAXSM
    <3> QED
      BY <1>1, <3>2 DEF CountSM
  <2> QED
    BY <1>0, <1>1, <2>1, UploadType DEF CountSM, Typing, TypeOK, WalkInv, InLoop
<1>2. CASE ReadType
  <2>1. Head(sms) \in SyncManager /\ sms' \in Seq(SyncManager)
    BY <1>2, HeadTail DEF ReadType, Typing, WalkInv
  <2>2. Head(sms).pdos \in Seq(Seq(Entry))
    BY <2>1 DEF SyncManager
  <2>3. pdos' \in Seq(Seq(Entry)) /\ dir' \in Dir /\ bugAdd' \in {0, 1} /\ pc' \in {"assign", "type"}
    BY <1>2, <2>2 DEF ReadType, Typing, TypeOK, WalkInv, DirOf, Dir
  <2>4. lost' \in 0 .. MaxLost /\ damaged' \subseteq SlaveId
    BY <1>0, <1>2, UploadType DEF ReadType
  <2> QED
    BY <1>0, <1>2, <2>1, <2>3, <2>4 DEF ReadType, Typing, TypeOK, WalkInv, InLoop
<1>3. CASE SdoDone
  BY <1>0, <1>3, NextSlaveType DEF SdoDone, loops, Typing, TypeOK, WalkInv
<1>4. CASE CountPdo
  <2>1. pdos' \in Seq(Seq(Entry)) /\ pc' = "pdo"
    BY <1>4 DEF CountPdo, Typing, WalkInv
  <2>2. lost' \in 0 .. MaxLost /\ damaged' \subseteq SlaveId
    BY <1>0, <1>4, UploadType DEF CountPdo
  <2> QED
    BY <1>0, <1>4, <2>1, <2>2 DEF CountPdo, Typing, TypeOK, WalkInv, InLoop
<1>5. CASE ReadPdo
  <2>1. CASE pdos = <<>>
    BY <1>0, <1>5, <2>1 DEF ReadPdo, Typing, TypeOK, WalkInv, InLoop
  <2>2. CASE pdos # <<>>
    <3>1. Head(pdos) \in Seq(Entry) /\ Tail(pdos) \in Seq(Seq(Entry))
      BY <2>2, HeadTail DEF Typing, WalkInv
    <3>2. lost' \in 0 .. MaxLost /\ damaged' \subseteq SlaveId
      BY <1>0, <1>5, <2>2, UploadType DEF ReadPdo
    <3>3. entries' \in {Head(pdos), <<>>} /\ pdos' = Tail(pdos) /\ pc' = "entry"
      BY <1>5, <2>2 DEF ReadPdo
    <3>4. entries' \in Seq(Entry)
      <4>1. <<>> \in Seq(Entry)
        OBVIOUS
      <4> QED
        BY <3>1, <3>3, <4>1
    <3> QED
      BY <1>0, <1>5, <3>1, <3>2, <3>3, <3>4 DEF ReadPdo, Typing, TypeOK, WalkInv, InLoop
  <2> QED
    BY <2>1, <2>2
<1>6. CASE ReadEntry
  <2>1. CASE entries = <<>>
    BY <1>0, <1>6, <2>1 DEF ReadEntry, Typing, TypeOK, WalkInv, InLoop
  <2>2. CASE entries # <<>>
    <3>1. Head(entries) \in Entry /\ Tail(entries) \in Seq(Entry)
      BY <2>2, HeadTail DEF Typing, WalkInv
    <3>2. bo' \in [Dir -> Nat]
      <4>1. PICK b \in Nat : bo' = [bo EXCEPT ![dir] = @ + b]
        <5>1. Head(entries).bits \in Nat
          BY <3>1 DEF Entry
        <5> QED
          BY <1>6, <2>2, <5>1 DEF ReadEntry
      <4> QED
        BY <4>1 DEF Typing, TypeOK
    <3>3. lost' \in 0 .. MaxLost /\ damaged' \subseteq SlaveId
      BY <1>0, <1>6, <2>2, UploadType DEF ReadEntry
    <3>4. UNCHANGED <<bus, calls, sock, printMAP, cnt, eep, bugAdd, sms, dir, pdos, unread,
                      nPDO, c, eectl, pc>> /\ entries' = Tail(entries)
      BY <1>6, <2>2 DEF ReadEntry
    <3>5. pc' = "entry" /\ cnt' \in SlaveId
      BY <1>0, <1>6, <3>4 DEF ReadEntry
    <3> QED
      BY <3>1, <3>2, <3>3, <3>4, <3>5 DEF Typing, TypeOK, WalkInv, InLoop
  <2> QED
    BY <2>1, <2>2
<1> QED
  BY <1>1, <1>2, <1>3, <1>4, <1>5, <1>6

\* A turn of the loop reads a PDO that SOEM reads, within the arrays of
\* ec_eepromPDOt, and the loop goes on exactly if it is not the last of them.
LEMMA SectionWalk ==
    ASSUME Typing, pc = "siiPdo"
    PROVE  LET p == Head(unread)
               n == nPDO + 1
           IN /\ cnt \in SlaveId /\ dir \in Dir /\ Section \in PdoSection /\ Section.present
              /\ n \in 1 .. LastPdo(Section) /\ LastPdo(Section) \in 1 .. Len(Section.pdos)
              /\ n \in 0 .. EC_MAXEEPDO - 1
              /\ p \in SiiPdo /\ p = Section.pdos[n]
              /\ Tail(unread) = SubSeq(Section.pdos, n + 1, Len(Section.pdos))
              /\ Consumed(p) \in Nat
              /\ More(p) <=> n < LastPdo(Section)
              /\ More(p) => Consumed(p) = 1 + Words(Section, n)
<1> DEFINE p == Head(unread)
           n == nPDO + 1
           last == LastPdo(Section)
           all == Section.pdos
<1>1. cnt \in SlaveId /\ dir \in Dir /\ SectionInv
  BY DEF Typing, TypeOK, WalkInv, InLoop
<1>2. /\ Section \in PdoSection /\ last \in 1 .. Len(all) /\ Ends(Section, last)
      /\ \A m \in 1 .. last - 1 : ~Ends(Section, m)
  BY <1>1, SlaveType, LastRead DEF Section
<1>3. all \in Seq(SiiPdo) /\ Len(all) \in Nat /\ Length \in Nat /\ Section.length = Length
  BY <1>2 DEF PdoSection, Length
<1>4. n \in 1 .. last /\ nPDO \in Nat /\ nPDO \in 0 .. Len(all) /\ n \in 1 .. Len(all)
  <2> HIDE DEF all, last
  <2>1. nPDO \in 0 .. last - 1
    BY <1>1 DEF SectionInv, last
  <2> QED
    BY <1>2, <1>3, <2>1
<1>5. EC_MAXEEPDO \in Nat /\ EC_MAXEEPDO > 1
  BY ProcessAssumption
<1>6. n \in 0 .. EC_MAXEEPDO - 1
  <2>1. CASE nPDO = 0
    BY <1>5, <2>1
  <2>2. CASE nPDO # 0
    <3>1. nPDO \in 1 .. last - 1
      BY <1>2, <1>4, <2>2
    <3>2. ~ (nPDO >= EC_MAXEEPDO - 1)
      BY <1>2, <3>1 DEF Ends
    <3> QED
      BY <1>4, <1>5, <3>2
  <2> QED
    BY <2>1, <2>2
<1>7. /\ p \in SiiPdo /\ p = all[n]
      /\ Tail(unread) = SubSeq(all, n + 1, Len(all))
  <2>1. unread = SubSeq(all, nPDO + 1, Len(all))
    BY <1>1 DEF SectionInv
  <2> HIDE DEF all, last
  <2>2. /\ unread \in Seq(SiiPdo) /\ Len(unread) = Len(all) - nPDO /\ Len(unread) > 0
        /\ \A i \in 1 .. Len(unread) : unread[i] = all[nPDO + i]
    BY <1>3, <1>4, <2>1
  <2>3. Head(unread) = unread[1] /\ unread[1] = all[nPDO + 1]
    BY <1>4, <2>2
  <2>4. all[n] \in SiiPdo
    BY <1>3, <1>4
  <2>5. Tail(unread) = SubSeq(all, n + 1, Len(all))
    BY <1>3, <1>4, <2>1
  <2> QED
    BY <2>3, <2>4, <2>5
<1>8. /\ Words(Section, n) \in Nat /\ Words(Section, nPDO) \in Nat
      /\ Words(Section, n) = Words(Section, nPDO) + PdoWords(p)
  <2>1. n \in 0 .. Len(all) /\ n - 1 = nPDO
    BY <1>4
  <2>2. Words(Section, n) = Words(Section, n - 1) + PdoWords(all[n])
    BY <1>2, <1>4, WordsAddUp
  <2> QED
    BY <1>2, <1>4, <1>7, <2>1, <2>2, WordsAddUp
<1>9. PdoWords(p) \in Nat
  <2>1. p.entries \in Seq(Entry)
    BY <1>7 DEF SiiPdo
  <2> QED
    BY <2>1 DEF PdoWords
<1>10. Consumed(p) = IF n >= EC_MAXEEPDO - 1 THEN Length ELSE 1 + Words(Section, n)
  <2>1. c = 1 + Words(Section, nPDO)
    BY <1>1 DEF SectionInv
  <2>2. c + PdoWords(p) = 1 + Words(Section, n)
    BY <1>8, <1>9, <2>1
  <2> QED
    BY <2>2 DEF Consumed
<1>11. Ends(Section, n) <=> n >= EC_MAXEEPDO - 1 \/ 1 + Words(Section, n) >= Length
  BY <1>3 DEF Ends, Words
<1>12. Consumed(p) \in Nat
  BY <1>3, <1>8, <1>10
<1>13. More(p) <=> ~Ends(Section, n)
  BY <1>3, <1>8, <1>10, <1>11 DEF More
<1>14. Ends(Section, n) <=> n = last
  <2>1. CASE n = last
    BY <1>2, <2>1
  <2>2. CASE n # last
    <3>1. n \in 1 .. last - 1
      <4> HIDE DEF last, all
      <4> QED
        BY <1>2, <1>3, <1>4, <2>2
    <3> QED
      BY <1>2, <2>2, <3>1
  <2> QED
    BY <2>1, <2>2
<1>15. More(p) <=> n < last
  <2> HIDE DEF last, all
  <2> QED
    BY <1>2, <1>3, <1>4, <1>13, <1>14
<1>16. More(p) => Consumed(p) = 1 + Words(Section, n)
  BY <1>10, <1>11, <1>13
<1> HIDE DEF n, p, last, all
<1> QED
  BY <1>1, <1>2, <1>4, <1>6, <1>7, <1>12, <1>15, <1>16 DEF SectionInv, n, p, last, all

\* The steps of the walk over the EEPROM keep the types.
LEMMA SiiTyping ==
    ASSUME Typing, FindSection \/ ReadSiiPdo
    PROVE  Typing'
<1>0. cnt \in SlaveId
  BY DEF FindSection, ReadSiiPdo, Typing, WalkInv, InLoop
<1>1. CASE FindSection
  <2>1. Section \in PdoSection /\ bus[cnt][dir] = Section /\ dir \in Dir
    BY <1>0, SlaveType DEF Typing, TypeOK, Section
  <2>2. unread' \in Seq(SiiPdo) /\ unread' = Section.pdos
    BY <1>1, <2>1 DEF FindSection, PdoSection
  <2>3. nPDO' = 0 /\ nPDO' \in 0 .. EC_MAXEEPDO - 1 /\ c' = 1 /\ c' \in Nat
    BY <1>1, ProcessAssumption DEF FindSection
  <2>4. eectl' \in BOOLEAN /\ eep' \subseteq SlaveId
    BY <1>1 DEF FindSection, SiiRead, Typing, TypeOK
  <2>5. /\ cnt' \in 1 .. NumSlaves + 1 /\ sock' \in BOOLEAN /\ dir' \in Dir
        /\ pc' \in {"general", "idle", "section", "siiPdo"}
        /\ InLoop' => cnt' \in SlaveId
        /\ pc' = "siiPdo" => Section.present /\ UNCHANGED <<dir, cnt>>
    <3>1. CASE Section.present
      BY <1>0, <1>1, <3>1 DEF FindSection, Typing, TypeOK
    <3>2. CASE ~Section.present
      BY <1>0, <1>1, <3>2, SectionDoneType DEF FindSection
    <3> QED
      BY <3>1, <3>2
  <2>6. UNCHANGED <<bus, calls, printMAP, bo, lost, damaged, bugAdd, sms, pdos, entries>>
    BY <1>1 DEF FindSection
  <2>7. TypeOK'
    BY <2>2, <2>3, <2>4, <2>5, <2>6 DEF Typing, TypeOK
  <2>8. pc' = "siiPdo" => SectionInv'
    <3>1. SUFFICES ASSUME pc' = "siiPdo" PROVE SectionInv'
      OBVIOUS
    <3>2. Section' = Section
      BY <2>5, <2>6, <3>1 DEF Section
    <3>3. Section.pdos \in Seq(SiiPdo)
      BY <2>1 DEF PdoSection
    <3>4. unread' = SubSeq(Section.pdos, 0 + 1, Len(Section.pdos))
      BY <2>2, <3>3
    <3>5. 0 \in 0 .. LastPdo(Section) - 1
      BY <1>0, <2>1, LastRead
    <3>6. 1 = 1 + Words(Section, 0)
      BY <2>1, WordsAddUp
    <3> QED
      BY <2>3, <2>5, <3>1, <3>2, <3>4, <3>5, <3>6 DEF SectionInv, Words
  <2>9. WalkInv'
    BY <2>2, <2>3, <2>4, <2>5, <2>6, <2>8 DEF Typing, WalkInv
  <2> QED
    BY <2>7, <2>9 DEF Typing
<1>2. CASE ReadSiiPdo
  <2> DEFINE p == Head(unread)
  <2>1. /\ nPDO' = nPDO + 1
        /\ c' = Consumed(p)
        /\ IF Active(p)
           THEN /\ printed' = [printed EXCEPT ![cnt][dir] = @ \o Lines(p)]
                /\ bo' = [bo EXCEPT ![dir] = @ + SumBits(p.entries)]
           ELSE UNCHANGED <<printed, bo>>
        /\ \E e \in SiiRead :
              IF More(p) THEN eep' = e /\ UNCHANGED <<pc, dir, cnt, sock>>
                         ELSE eep' = Restore(e) /\ SectionDone
        /\ pc = "siiPdo" /\ unread' = Tail(unread)
    BY <1>2 DEF ReadSiiPdo
  <2>2. /\ Section \in PdoSection /\ Section.present
        /\ p \in SiiPdo /\ Consumed(p) \in Nat /\ nPDO + 1 \in 0 .. EC_MAXEEPDO - 1
        /\ nPDO + 1 \in 1 .. LastPdo(Section) /\ LastPdo(Section) \in Nat
        /\ More(p) <=> nPDO + 1 < LastPdo(Section)
        /\ More(p) => Consumed(p) = 1 + Words(Section, nPDO + 1)
        /\ Tail(unread) = SubSeq(Section.pdos, (nPDO + 1) + 1, Len(Section.pdos))
    BY <2>1, SectionWalk
  <2> HIDE DEF p
  <2>3. nPDO' \in 0 .. EC_MAXEEPDO - 1 /\ c' \in Nat
    BY <2>1, <2>2
  <2>4. bo' \in [Dir -> Nat]
    <3>1. SumBits(p.entries) \in Nat
      BY <2>2, SumBitsType DEF SiiPdo
    <3> QED
      BY <2>1, <3>1 DEF Typing, TypeOK
  <2>5. eep' \subseteq SlaveId
    BY <1>0, <2>1 DEF SiiRead, Restore, Typing, TypeOK
  <2>6. /\ cnt' \in 1 .. NumSlaves + 1 /\ sock' \in BOOLEAN /\ dir' \in Dir
        /\ pc' \in {"general", "idle", "section", "siiPdo"}
        /\ InLoop' => cnt' \in SlaveId
        /\ pc' = "siiPdo" => More(p) /\ UNCHANGED <<dir, cnt>>
    <3>1. CASE More(p)
      BY <1>0, <1>2, <2>1, <3>1 DEF ReadSiiPdo, Typing, TypeOK
    <3>2. CASE ~More(p)
      <4>1. SectionDone
        BY <2>1, <3>2
      <4> QED
        BY <1>0, <4>1, SectionDoneType
    <3> QED
      BY <3>1, <3>2
  <2>7. unread' \in Seq(SiiPdo)
    <3>1. Section.pdos \in Seq(SiiPdo)
      BY <2>2 DEF PdoSection
    <3>2. Len(Section.pdos) \in Nat /\ (nPDO + 1) + 1 \in Nat /\ (nPDO + 1) + 1 >= 1
      BY <2>2, <3>1
    <3> HIDE DEF Section
    <3>3. SubSeq(Section.pdos, (nPDO + 1) + 1, Len(Section.pdos)) \in Seq(SiiPdo)
      BY <3>1, <3>2
    <3> QED
      BY <2>1, <2>2, <3>3
  <2>8. UNCHANGED <<bus, calls, printMAP, lost, damaged, bugAdd, sms, pdos, entries, eectl>>
    BY <1>2 DEF ReadSiiPdo
  <2>9. pc' = "siiPdo" => SectionInv'
    <3>1. SUFFICES ASSUME pc' = "siiPdo" PROVE SectionInv'
      OBVIOUS
    <3>2. Section' = Section /\ More(p)
      BY <2>6, <2>8, <3>1 DEF Section
    <3>3. nPDO' \in 0 .. LastPdo(Section) - 1
      BY <2>1, <2>2, <3>2
    <3> QED
      BY <2>1, <2>2, <3>2, <3>3 DEF SectionInv, Words
  <2> QED
    BY <2>3, <2>4, <2>5, <2>6, <2>7, <2>8, <2>9 DEF Typing, TypeOK, WalkInv
<1> QED
  BY <1>1, <1>2

\* Every step keeps the types.
LEMMA TypingStep ==
    ASSUME Typing, [Next]_vars
    PROVE  Typing'
<1>1. CASE Begin
  <2>0. sock' \in BOOLEAN
    BY <1>1 DEF Begin, Typing, TypeOK
  <2>1. pc' \in {"idle", "config"} /\ calls' \in 0 .. MaxCalls
    BY <1>1, ProcessAssumption DEF Begin, Typing, TypeOK
  <2>2. cnt' \in 1 .. NumSlaves + 1 /\ cnt' \in SlaveId /\ damaged' \subseteq SlaveId
        /\ printMAP' \in BOOLEAN
    BY <1>1, ProcessAssumption DEF Begin, SlaveId
  <2>3. UNCHANGED <<bus, eep, bo, lost, bugAdd, sms, dir, pdos, entries, unread, nPDO, c, eectl>>
    BY <1>1 DEF Begin, loops
  <2> QED
    BY <2>0, <2>1, <2>2, <2>3 DEF Typing, TypeOK, WalkInv, InLoop
<1>2. CASE Config
  <2>1. pc' \in {"general", "idle"} /\ eep' \subseteq SlaveId /\ sock' \in BOOLEAN
    BY <1>2 DEF Config, Close, Typing, TypeOK
  <2>2. UNCHANGED <<bus, calls, printMAP, cnt, bo, lost, damaged,
                    bugAdd, sms, dir, pdos, entries, unread, nPDO, c, eectl>>
    BY <1>2 DEF Config, loops
  <2>3. cnt' \in SlaveId
    BY <1>2, <2>2 DEF Config, Typing, WalkInv
  <2> QED
    BY <2>1, <2>2, <2>3 DEF Typing, TypeOK, WalkInv, InLoop
<1>3. CASE General
  <2>1. cnt \in SlaveId
    BY <1>3 DEF General, Typing, WalkInv, InLoop
  <2>2. eep' \subseteq SlaveId /\ bo' \in [Dir -> Nat] /\ dir' \in Dir /\ bugAdd' \in {0, 1}
    BY <1>3 DEF General, SiiRead, NoBits, Dir, Typing, TypeOK
  <2>3. /\ cnt' \in 1 .. NumSlaves + 1 /\ sock' \in BOOLEAN
        /\ pc' \in {"general", "idle", "count", "section"}
        /\ InLoop' => cnt' \in SlaveId
    BY <1>3, <2>1, NextSlaveType DEF General, Typing, TypeOK
  <2>4. UNCHANGED <<bus, calls, printMAP, lost, damaged, sms, pdos, entries, unread, nPDO, c, eectl>>
    BY <1>3 DEF General
  <2>5. TypeOK'
    BY <2>2, <2>3, <2>4 DEF Typing, TypeOK
  <2>6. WalkInv'
    BY <2>2, <2>3, <2>4 DEF Typing, WalkInv
  <2> QED
    BY <2>5, <2>6 DEF Typing
<1>4. CASE Destroy
  BY <1>4 DEF Destroy, loops, Typing, TypeOK, WalkInv, InLoop
<1>5. CASE UNCHANGED vars
  <2>1. SectionInv' <=> SectionInv
    BY <1>5 DEF vars, SectionInv, Section
  <2> QED
    BY <1>5, <2>1 DEF vars, Typing, TypeOK, WalkInv, InLoop
<1> QED
  BY <1>1, <1>2, <1>3, <1>4, <1>5, SdoTyping, SiiTyping DEF Next, Step

\* The walks stay inside what the slaves hold and inside the arrays of ec_eepromPDOt.
THEOREM WalksInside == Safety => []Typing
<1>1. ASSUME Init PROVE Typing
  <2>1. bus \in [SlaveId -> Slaves]
    BY <1>1 DEF Init
  <2>2. /\ calls \in 0 .. MaxCalls /\ lost \in 0 .. MaxLost /\ cnt \in 1 .. NumSlaves + 1
        /\ cnt \in SlaveId /\ nPDO \in 0 .. EC_MAXEEPDO - 1 /\ c \in Nat /\ bugAdd \in {0, 1}
    BY <1>1, ProcessAssumption DEF Init, SlaveId
  <2>3. sock \in BOOLEAN /\ printMAP \in BOOLEAN /\ eectl \in BOOLEAN
    BY <1>1, Zenon DEF Init
  <2>4. bo \in [Dir -> Nat] /\ dir \in Dir /\ eep = {} /\ damaged = {} /\ pc = "idle"
    BY <1>1 DEF Init, NoBits, Dir
  <2>5. /\ sms \in Seq(SyncManager) /\ pdos \in Seq(Seq(Entry)) /\ entries \in Seq(Entry)
        /\ unread \in Seq(SiiPdo)
    BY <1>1 DEF Init
  <2> QED
    BY <2>1, <2>2, <2>3, <2>4, <2>5 DEF Typing, TypeOK, WalkInv, InLoop
<1> QED
  BY <1>1, TypingStep, PTL DEF Safety

\* Every state is of the type of the module; a section never fills more than the
\* arrays hold, whatever its length word says and whatever lies behind it.
THEOREM TypeCorrect == Safety => []TypeOK
<1>1. Typing => TypeOK
  BY DEF Typing
<1> QED
  BY <1>1, WalksInside, PTL

----------------------------------------------------------------------------
(* Control of the EEPROM.                                                  *)

\* A slave whose EEPROM no read of the general section takes from it.
Spared(k) == ~bus[k].general

\* From ec_config on the EEPROM of such a slave is with the PDI, but for the slave whose
\* section is being read, and then si_siiPDO remembers to give it back.
EepromInv ==
    /\ \A k \in SlaveId : (InLoop \/ cnt > k) /\ Spared(k) =>
            k \in eep \/ (pc = "siiPdo" /\ k = cnt)
    /\ pc = "siiPdo" /\ Spared(cnt) => eectl

\* A step that leaves the EEPROMs alone and goes on inside the loop, or ends it, keeps
\* the account.
LEMMA EepromFrame ==
    ASSUME Typing, EepromInv, UNCHANGED <<bus, eep>>, InLoop,
           pc # "siiPdo", pc' # "siiPdo"
    PROVE  EepromInv'
BY DEF EepromInv, Spared

\* Every step keeps the account of who controls the EEPROMs.
LEMMA EepromStep ==
    ASSUME Typing, EepromInv, [Next]_vars
    PROVE  EepromInv'
<1>1. CASE Begin
  <2>1. cnt' = 1 /\ UNCHANGED <<bus, eep>> /\ ~InLoop' /\ pc' # "siiPdo"
    BY <1>1 DEF Begin, InLoop
  <2>2. \A k \in SlaveId : ~ (cnt' > k)
    BY <2>1, ProcessAssumption DEF SlaveId
  <2> QED
    BY <2>1, <2>2 DEF EepromInv
<1>2. CASE Config
  <2>1. CASE eep' = SlaveId /\ pc' = "general"
    BY <1>2, <2>1 DEF Config, EepromInv
  <2>2. CASE UNCHANGED <<eep, bus, cnt>> /\ pc' = "idle"
    BY <1>2, <2>2 DEF Config, EepromInv, InLoop, Spared
  <2> QED
    BY <1>2, <2>1, <2>2 DEF Config, Close
<1>3. CASE General
  <2>1. cnt \in SlaveId /\ InLoop /\ pc # "siiPdo" /\ bus' = bus
    BY <1>3 DEF General, Typing, WalkInv, InLoop
  <2>2. pc' # "siiPdo"
    BY <1>3 DEF General, NextSlave, Close
  <2>3. \A k \in SlaveId : Spared(k) /\ k \in eep => k \in eep'
    BY <1>3 DEF General, SiiRead, Spared
  <2> QED
    BY <2>1, <2>2, <2>3 DEF EepromInv, Spared
<1>4. CASE CountSM \/ ReadType \/ SdoDone \/ CountPdo \/ ReadPdo \/ ReadEntry
  <2>1. UNCHANGED <<bus, eep>> /\ InLoop /\ pc # "siiPdo" /\ pc' # "siiPdo"
    BY <1>4 DEF CountSM, ReadType, SdoDone, CountPdo, ReadPdo, ReadEntry, NextSlave, Close, InLoop
  <2> QED
    BY <2>1, EepromFrame
<1>5. CASE FindSection
  <2>1. cnt \in SlaveId /\ InLoop /\ pc # "siiPdo" /\ bus' = bus /\ eectl' = (cnt \in eep)
    BY <1>5 DEF FindSection, Typing, WalkInv, InLoop
  <2>2. CASE Section.present
    <3>1. pc' = "siiPdo" /\ cnt' = cnt /\ eep' \in {eep, eep \ {cnt}}
      BY <1>5, <2>2 DEF FindSection, SiiRead
    <3>2. Spared(cnt) => eectl'
      BY <2>1 DEF EepromInv
    <3> QED
      BY <2>1, <3>1, <3>2 DEF EepromInv, Spared
  <2>3. CASE ~Section.present
    <3>1. eep' = eep /\ pc' # "siiPdo"
      BY <1>5, <2>3 DEF FindSection, SectionDone, NextSlave, Close
    <3> QED
      BY <2>1, <3>1, EepromFrame
  <2> QED
    BY <2>2, <2>3
<1>6. CASE ReadSiiPdo
  <2>1. cnt \in SlaveId /\ InLoop /\ pc = "siiPdo" /\ UNCHANGED <<bus, eectl>>
    BY <1>6 DEF ReadSiiPdo, Typing, WalkInv, InLoop
  <2>2. PICK e \in {eep, eep \ {cnt}} :
           \/ eep' = e /\ UNCHANGED <<pc, cnt>>
           \/ eep' = Restore(e) /\ SectionDone
    BY <1>6 DEF ReadSiiPdo, SiiRead
  <2>3. CASE eep' = e /\ UNCHANGED <<pc, cnt>>
    BY <2>1, <2>2, <2>3 DEF EepromInv, Spared
  <2>4. CASE eep' = Restore(e) /\ SectionDone
    <3>1. pc' # "siiPdo"
      BY <2>4 DEF SectionDone, NextSlave, Close
    <3>2. \A k \in SlaveId : Spared(k) => k \in eep'
      BY <2>1, <2>2, <2>4 DEF EepromInv, Restore
    <3> QED
      BY <2>1, <3>1, <3>2 DEF EepromInv, Spared
  <2> QED
    BY <2>2, <2>3, <2>4
<1>7. CASE Destroy
  BY <1>7 DEF Destroy, EepromInv, InLoop, Spared
<1>8. CASE UNCHANGED vars
  BY <1>8 DEF vars, EepromInv, InLoop, Spared
<1> QED
  BY <1>1, <1>2, <1>3, <1>4, <1>5, <1>6, <1>7, <1>8 DEF Next, Step

\* Reading the PDO sections leaves the EEPROM of every slave where ec_config left it:
\* only the reads of the general section can leave one with the master.
THEOREM SectionsGiveBack == Safety => []EepromGivenBack
<1>1. Init => EepromInv
  <2>1. ASSUME Init PROVE cnt = 1 /\ ~InLoop /\ pc # "siiPdo"
    BY <2>1 DEF Init, InLoop
  <2>2. \A k \in SlaveId : ~ (1 > k)
    BY ProcessAssumption DEF SlaveId
  <2> QED
    BY <2>1, <2>2 DEF EepromInv
<1>2. Typing /\ EepromInv /\ [Next]_vars => EepromInv'
  BY EepromStep
<1>3. Typing /\ EepromInv => EepromGivenBack
  <2>1. SUFFICES ASSUME Typing, EepromInv, NEW k \in SlaveId, cnt > k, ~bus[k].general
                 PROVE  k \in eep
    BY DEF EepromGivenBack
  <2>2. k # cnt
    BY <2>1, ProcessAssumption DEF SlaveId
  <2> QED
    BY <2>1, <2>2 DEF EepromInv, Spared
<1> QED
  BY <1>1, <1>2, <1>3, WalksInside, PTL DEF Safety

----------------------------------------------------------------------------
(* The layout.                                                             *)

\* What SOEM mapped are PDOs.
AssignedType == assigned \in [SlaveId -> [Dir -> Seq(Seq(Entry))]]

\* The entries of a slave have a length.
LEMMA EntriesType ==
    ASSUME AssignedType, NEW k \in SlaveId, NEW d \in Dir
    PROVE  /\ Entries(k, d) \in Seq(Entry)
           /\ Bits(k, d) \in Nat /\ Bytes(k, d) \in Nat
<1>1. Entries(k, d) \in Seq(Entry)
  <2>1. assigned[k][d] \in Seq(Seq(Entry))
    BY DEF AssignedType
  <2> QED
    BY <2>1, Flattened DEF Entries
<1>2. Bits(k, d) \in Nat
  BY <1>1, SumBitsType DEF Bits
<1> QED
  BY <1>1, <1>2 DEF Bytes

\* The data of each slave ends at a bit of the image.
LEMMA EndsType ==
    ASSUME AssignedType, NEW d \in Dir
    PROVE  \A k \in 0 .. NumSlaves : ImageEnd(k, d) \in Nat
<1> DEFINE n == NumSlaves
           After(b, j) == IF Bytes(j, d) > 0
                          THEN StartAfter(b, j, d) + 8 * Bytes(j, d)
                          ELSE b + Bits(j, d)
           F == [j \in 1 .. n |-> [b \in Nat |-> After(b, j)]]
<1>1. n \in Nat /\ SlaveId = 1 .. n
  BY ProcessAssumption DEF SlaveId
<1>2. ASSUME NEW j \in 1 .. n, NEW b \in Nat PROVE After(b, j) \in Nat
  <2>1. Bytes(j, d) \in Nat /\ Bits(j, d) \in Nat
    BY <1>1, EntriesType
  <2> QED
    BY <2>1 DEF StartAfter, ByteAligned
<1> HIDE DEF n, After
<1>3. PICK h \in [0 .. n -> Nat] : Recurs(h, n, 0, F)
  <2>1. Recursive(n, Nat, 0, F)
    <3>1. F \in [1 .. n -> [Nat -> Nat]]
      BY <1>2
    <3> HIDE DEF F
    <3> QED
      BY <1>1, <3>1 DEF Recursive
  <2> HIDE DEF F
  <2> QED
    BY <2>1, RecursionExists
<1>4. h[0] = 0 /\ \A j \in 1 .. n : h[j] = After(h[j - 1], j)
  <2>1. \A j \in 1 .. n : j - 1 \in 0 .. n
    BY <1>1
  <2> QED
    BY <1>3, <2>1 DEF Recurs
<1> HIDE DEF F
<1>5. ASSUME NEW k \in 0 .. n PROVE ImageEnd(k, d) = h[k]
  <2> DEFINE Recursion(f) == f = [j \in 0 .. k |-> IF j = 0 THEN 0 ELSE After(f[j - 1], j)]
             end == CHOOSE f : Recursion(f)
             g == [j \in 0 .. k |-> h[j]]
  <2>1. ImageEnd(k, d) = end[k]
    BY Zenon DEF ImageEnd, After
  <2>2. Recursion(g)
    <3>1. ASSUME NEW j \in 0 .. k
          PROVE  h[j] = IF j = 0 THEN 0 ELSE After(g[j - 1], j)
      <4>1. CASE j = 0
        BY <1>4, <4>1
      <4>2. CASE j # 0
        <5>1. j \in 1 .. n /\ j - 1 \in 0 .. k
          BY <1>1, <4>2
        <5> QED
          BY <1>4, <4>2, <5>1
      <4> QED
        BY <4>1, <4>2
    <3> QED
      BY <3>1, Zenon
  <2>3. Recursion(end)
    <3> HIDE DEF g, Recursion
    <3> QED
      BY <2>2
  <2>4. \A j \in 0 .. k : end[j] = IF j = 0 THEN 0 ELSE After(end[j - 1], j)
    <3> HIDE DEF end
    <3> QED
      BY <2>3, Zenon
  <2> HIDE DEF end, Recursion, g
  <2> DEFINE N == {m \in Nat : m <= k => end[m] = h[m]}
  <2>5. k \in Nat
    BY <1>1
  <2>6. 0 \in N
    <3>1. 0 \in 0 .. k
      BY <2>5
    <3> QED
      BY <1>4, <2>4, <3>1
  <2>7. ASSUME NEW m \in Nat, m \in N PROVE m + 1 \in N
    <3>1. SUFFICES ASSUME m + 1 <= k PROVE end[m + 1] = h[m + 1]
      OBVIOUS
    <3>2. /\ m + 1 \in 0 .. k /\ m + 1 \in 1 .. n /\ m + 1 # 0
          /\ (m + 1) - 1 = m /\ m <= k
      BY <1>1, <2>5, <3>1
    <3>3. end[m] = h[m]
      BY <2>7, <3>2
    <3>4. end[m + 1] = After(end[m], m + 1)
      BY <2>4, <3>2
    <3>5. h[m + 1] = After(h[m], m + 1)
      BY <1>4, <3>2
    <3> QED
      BY <3>3, <3>4, <3>5
  <2>8. k \in N
    <3> HIDE DEF N
    <3> QED
      BY <2>5, <2>6, <2>7, Induction
  <2> QED
    BY <2>1, <2>5, <2>8
<1> QED
  BY <1>3, <1>5 DEF n

\* A slave's data starts at a bit of IOmap; on a byte, the offset the walks use is
\* that bit.
LEMMA StartType ==
    ASSUME AssignedType, NEW k \in SlaveId, NEW d \in Dir
    PROVE  /\ IOmapStart(k, d) \in Nat
           /\ IOmapStart(k, d) % 8 = 0 => 8 * (IOmapStart(k, d) \div 8) = IOmapStart(k, d)
<1>1. NumSlaves \in Nat /\ k - 1 \in 0 .. NumSlaves /\ NumSlaves \in 0 .. NumSlaves
  BY ProcessAssumption DEF SlaveId
<1>2. ImageEnd(k - 1, d) \in Nat /\ ImageEnd(NumSlaves, "out") \in Nat
  BY <1>1, EndsType DEF Dir
<1>3. ImageStart(k, d) \in Nat /\ ImageBytes("out") \in Nat
  BY <1>2 DEF ImageStart, StartAfter, ByteAligned, ImageBytes
<1>4. IOmapStart(k, d) \in Nat
  BY <1>3 DEF IOmapStart
<1> QED
  BY <1>4

\* The bits of two parts of a sequence of entries add up.
LEMMA BitsConcat ==
    ASSUME NEW p \in Seq(Entry), NEW q \in Seq(Entry)
    PROVE  SumBits(p \o q) = SumBits(p) + SumBits(q)
<1> DEFINE B(e) == [i \in DOMAIN e |-> e[i].bits]
<1>1. ASSUME NEW e \in Seq(Entry)
      PROVE  B(e) \in Seq(Nat) /\ Len(B(e)) = Len(e) /\ \A i \in 1 .. Len(e) : B(e)[i] = e[i].bits
  <2>1. DOMAIN e = 1 .. Len(e) /\ Len(e) \in Nat /\ \A i \in 1 .. Len(e) : e[i] \in Entry
    OBVIOUS
  <2>2. \A i \in 1 .. Len(e) : e[i].bits \in Nat
    BY <2>1 DEF Entry
  <2> QED
    BY <2>1, <2>2
<1>2. B(p \o q) = B(p) \o B(q)
  <2>1. /\ p \o q \in Seq(Entry) /\ Len(p) \in Nat /\ Len(q) \in Nat
        /\ Len(p \o q) = Len(p) + Len(q)
        /\ \A i \in 1 .. Len(p) : (p \o q)[i] = p[i]
        /\ \A i \in 1 .. Len(q) : (p \o q)[Len(p) + i] = q[i]
    BY Behind
  <2>2. /\ B(p) \in Seq(Nat) /\ Len(B(p)) = Len(p) /\ B(q) \in Seq(Nat) /\ Len(B(q)) = Len(q)
        /\ \A i \in 1 .. Len(p) : B(p)[i] = p[i].bits
        /\ \A i \in 1 .. Len(q) : B(q)[i] = q[i].bits
    BY <1>1
  <2>3. /\ B(p \o q) \in Seq(Nat) /\ Len(B(p \o q)) = Len(p) + Len(q)
        /\ \A i \in 1 .. Len(p) + Len(q) : B(p \o q)[i] = (p \o q)[i].bits
    BY <1>1, <2>1
  <2> HIDE DEF B
  <2>4. /\ \A i \in 1 .. Len(p) : B(p \o q)[i] = B(p)[i]
        /\ \A i \in 1 .. Len(q) : B(p \o q)[Len(p) + i] = B(q)[i]
    <3>1. \A i \in 1 .. Len(p) : i \in 1 .. Len(p) + Len(q)
      BY <2>1
    <3>2. \A i \in 1 .. Len(q) : Len(p) + i \in 1 .. Len(p) + Len(q)
      BY <2>1
    <3> QED
      BY <2>1, <2>2, <2>3, <3>1, <3>2
  <2>5. \A x, y, z \in Seq(Nat) :
           (/\ Len(z) = Len(x) + Len(y)
            /\ \A i \in 1 .. Len(x) : z[i] = x[i]
            /\ \A i \in 1 .. Len(y) : z[Len(x) + i] = y[i]) => z = x \o y
    BY Concatenation
  <2>6. PICK x \in Seq(Nat), y \in Seq(Nat), z \in Seq(Nat) :
           x = B(p) /\ y = B(q) /\ z = B(p \o q)
    BY <2>2, <2>3
  <2>7. /\ Len(z) = Len(x) + Len(y)
        /\ \A i \in 1 .. Len(x) : z[i] = x[i]
        /\ \A i \in 1 .. Len(y) : z[Len(x) + i] = y[i]
    BY <2>2, <2>3, <2>4, <2>6
  <2>8. z = x \o y
    BY <2>5, <2>7
  <2> QED
    BY <2>6, <2>8
<1>3. Total(B(p) \o B(q)) = Total(B(p)) + Total(B(q))
  <2> HIDE DEF B
  <2> QED
    BY <1>1, TotalConcat
<1>4. SumBits(p \o q) = Total(B(p \o q)) /\ SumBits(p) = Total(B(p)) /\ SumBits(q) = Total(B(q))
  BY DEF SumBits
<1> HIDE DEF B
<1> QED
  BY <1>2, <1>3, <1>4

----------------------------------------------------------------------------
(* Listings.                                                               *)

PrintedLine == [obj : Nat, bit : Nat]

\* The lines of the n-th of some entries.
LinesAt(k, list, b, n) ==
    IF bus[k].coe \/ list[n].obj # 0
    THEN <<[obj |-> list[n].obj, bit |-> b + SumBits(SubSeq(list, 1, n - 1))]>>
    ELSE <<>>

\* A listing joins the lines of its entries.
LEMMA ListingType ==
    ASSUME NEW k \in SlaveId, NEW list \in Seq(Entry), NEW b \in Nat
    PROVE  LET lines == [n \in 1 .. Len(list) |-> LinesAt(k, list, b, n)]
           IN /\ lines \in Seq(Seq(PrintedLine)) /\ Len(lines) = Len(list)
              /\ Listing(k, list, b) = FlattenSeq(lines)
              /\ Listing(k, list, b) \in Seq(PrintedLine)
<1> DEFINE lines == [n \in 1 .. Len(list) |-> LinesAt(k, list, b, n)]
<1>1. Len(list) \in Nat /\ DOMAIN list = 1 .. Len(list)
  OBVIOUS
<1>2. ASSUME NEW n \in 1 .. Len(list)
      PROVE  LinesAt(k, list, b, n) \in Seq(PrintedLine)
  <2>1. list[n] \in Entry /\ SubSeq(list, 1, n - 1) \in Seq(Entry)
    BY <1>1
  <2>2. list[n].obj \in Nat /\ SumBits(SubSeq(list, 1, n - 1)) \in Nat
    BY <2>1, SumBitsType DEF Entry
  <2> DEFINE line == [obj |-> list[n].obj, bit |-> b + SumBits(SubSeq(list, 1, n - 1))]
  <2>3. line \in PrintedLine
    BY <2>2 DEF PrintedLine
  <2> HIDE DEF line
  <2>4. <<line>> \in Seq(PrintedLine) /\ <<>> \in Seq(PrintedLine)
    BY <2>3
  <2>5. LinesAt(k, list, b, n) = IF bus[k].coe \/ list[n].obj # 0 THEN <<line>> ELSE <<>>
    BY DEF LinesAt, line
  <2> QED
    BY <2>4, <2>5
<1>3. lines \in Seq(Seq(PrintedLine)) /\ Len(lines) = Len(list)
  BY <1>1, <1>2
<1>4. Listing(k, list, b) = FlattenSeq(lines)
  BY <1>1 DEF Listing, LinesAt
<1> HIDE DEF lines
<1>5. FlattenSeq(lines) \in Seq(PrintedLine)
  BY <1>3, Flattened
<1> QED
  BY <1>3, <1>4, <1>5 DEF lines

\* What follows some entries is listed behind them.
LEMMA ListingConcat ==
    ASSUME NEW k \in SlaveId, NEW p \in Seq(Entry), NEW q \in Seq(Entry), NEW b \in Nat
    PROVE  Listing(k, p \o q, b) = Listing(k, p, b) \o Listing(k, q, b + SumBits(p))
<1> DEFINE r == p \o q
           m == Len(p)
           n == Len(q)
           from == b + SumBits(p)
           A == [i \in 1 .. m |-> LinesAt(k, p, b, i)]
           B == [i \in 1 .. n |-> LinesAt(k, q, from, i)]
           C == [i \in 1 .. m + n |-> LinesAt(k, r, b, i)]
<1>1. /\ r \in Seq(Entry) /\ m \in Nat /\ n \in Nat /\ Len(r) = m + n
      /\ \A i \in 1 .. m : r[i] = p[i]
      /\ \A i \in 1 .. n : r[m + i] = q[i]
  BY Behind
<1>2. from \in Nat
  BY SumBitsType
<1>3. /\ A \in Seq(Seq(PrintedLine)) /\ Len(A) = m /\ Listing(k, p, b) = FlattenSeq(A)
      /\ B \in Seq(Seq(PrintedLine)) /\ Len(B) = n /\ Listing(k, q, from) = FlattenSeq(B)
      /\ C \in Seq(Seq(PrintedLine)) /\ Len(C) = m + n /\ Listing(k, r, b) = FlattenSeq(C)
  <2> HIDE DEF r, from
  <2>1. \A list \in Seq(Entry), a \in Nat :
           LET lines == [i \in 1 .. Len(list) |-> LinesAt(k, list, a, i)]
           IN /\ lines \in Seq(Seq(PrintedLine)) /\ Len(lines) = Len(list)
              /\ Listing(k, list, a) = FlattenSeq(lines)
    BY ListingType
  <2>2. /\ A \in Seq(Seq(PrintedLine)) /\ Len(A) = m /\ Listing(k, p, b) = FlattenSeq(A)
        /\ B \in Seq(Seq(PrintedLine)) /\ Len(B) = n /\ Listing(k, q, from) = FlattenSeq(B)
    BY <1>2, <2>1
  <2>3. C = [i \in 1 .. Len(r) |-> LinesAt(k, r, b, i)]
    BY <1>1
  <2>4. C \in Seq(Seq(PrintedLine)) /\ Len(C) = Len(r) /\ Listing(k, r, b) = FlattenSeq(C)
    BY <1>1, <2>1, <2>3
  <2> QED
    BY <1>1, <2>2, <2>4
<1>4. ASSUME NEW i \in 1 .. m PROVE LinesAt(k, r, b, i) = LinesAt(k, p, b, i)
  <2>1. SubSeq(r, 1, i - 1) = SubSeq(p, 1, i - 1)
    BY <1>1
  <2>2. r[i] = p[i]
    BY <1>1
  <2> HIDE DEF r, m
  <2> QED
    BY <2>1, <2>2 DEF LinesAt
<1>5. ASSUME NEW i \in 1 .. n PROVE LinesAt(k, r, b, m + i) = LinesAt(k, q, from, i)
  <2> DEFINE s == SubSeq(q, 1, i - 1)
  <2>1. s \in Seq(Entry)
    BY <1>1
  <2>2. SubSeq(r, 1, (m + i) - 1) = p \o s
    BY <1>1
  <2> HIDE DEF s
  <2>3. SumBits(p \o s) = SumBits(p) + SumBits(s)
    BY <2>1, BitsConcat
  <2>4. b + SumBits(p \o s) = from + SumBits(s)
    <3>1. SumBits(p) \in Nat /\ SumBits(s) \in Nat
      BY <2>1, SumBitsType
    <3> QED
      BY <2>3, <3>1
  <2>5. r[m + i] = q[i]
    BY <1>1
  <2> HIDE DEF r, m, from
  <2> QED
    BY <2>2, <2>4, <2>5 DEF LinesAt, s
<1> HIDE DEF r, m, n, from
<1>6. C = A \o B
  <2>1. /\ \A i \in 1 .. m : C[i] = A[i]
        /\ \A i \in 1 .. n : C[m + i] = B[i]
    <3>1. ASSUME NEW i \in 1 .. m PROVE C[i] = A[i]
      BY <1>1, <1>4
    <3>2. ASSUME NEW i \in 1 .. n PROVE C[m + i] = B[i]
      BY <1>1, <1>5
    <3> QED
      BY <3>1, <3>2
  <2> HIDE DEF A, B, C
  <2>2. \A x, y, z \in Seq(Seq(PrintedLine)) :
           (/\ Len(z) = Len(x) + Len(y)
            /\ \A i \in 1 .. Len(x) : z[i] = x[i]
            /\ \A i \in 1 .. Len(y) : z[Len(x) + i] = y[i]) => z = x \o y
    BY Concatenation
  <2> QED
    BY <1>3, <2>1, <2>2
<1> HIDE DEF A, B, C
<1>7. FlattenSeq(A \o B) = FlattenSeq(A) \o FlattenSeq(B)
  BY <1>3, FlattenConcat
<1> QED
  BY <1>3, <1>6, <1>7 DEF r, from

\* No entries give no lines, a single one the line of its bit.
LEMMA ListingShort ==
    ASSUME NEW k \in SlaveId, NEW b \in Nat
    PROVE  /\ SumBits(<<>>) = 0 /\ Listing(k, <<>>, b) = <<>>
           /\ \A e \in Entry :
                 SumBits(<<e>>) = e.bits
                 /\ (bus[k].coe => Listing(k, <<e>>, b) = <<[obj |-> e.obj, bit |-> b]>>)
<1>1. SumBits(<<>>) = 0
  <2>1. [i \in DOMAIN <<>> |-> <<>>[i].bits] = <<>>
    OBVIOUS
  <2> QED
    BY <2>1, TotalSteps DEF SumBits
<1>2. Listing(k, <<>>, b) = <<>>
  <2>0. <<>> \in Seq(Entry)
    OBVIOUS
  <2>1. PICK q \in Seq(Entry) : q = <<>>
    BY <2>0
  <2> DEFINE lines == [n \in 1 .. Len(q) |-> LinesAt(k, q, b, n)]
  <2>2. lines \in Seq(Seq(PrintedLine)) /\ Len(lines) = Len(q) /\ Listing(k, q, b) = FlattenSeq(lines)
    BY ListingType
  <2> HIDE DEF lines
  <2>3. \A n \in 1 .. Len(lines) : lines[n] = <<>>
    BY <2>1, <2>2
  <2>4. FlattenSeq(lines) = <<>>
    BY <2>2, <2>3, FlattenEmpty
  <2> QED
    BY <2>1, <2>2, <2>4
<1>3. ASSUME NEW e \in Entry PROVE SumBits(<<e>>) = e.bits
  <2>1. PICK x \in Nat : x = e.bits
    BY DEF Entry
  <2>2. [i \in DOMAIN <<e>> |-> <<e>>[i].bits] = Append(<<>>, x)
    BY <2>1
  <2>3. <<>> \in Seq(Nat)
    OBVIOUS
  <2>4. Total(Append(<<>>, x)) = Total(<<>>) + x /\ Total(<<>>) = 0
    BY <2>3, TotalSteps
  <2>5. Total(Append(<<>>, x)) = x
    BY <2>4
  <2> QED
    BY <2>1, <2>2, <2>5 DEF SumBits
<1>4. ASSUME NEW e \in Entry, bus[k].coe
      PROVE  Listing(k, <<e>>, b) = <<[obj |-> e.obj, bit |-> b]>>
  <2> DEFINE line == [obj |-> e.obj, bit |-> b]
  <2>0. <<e>> \in Seq(Entry)
    OBVIOUS
  <2>1. PICK q \in Seq(Entry) : q = <<e>>
    BY <2>0
  <2>2. Len(q) = 1 /\ q[1] = e /\ SubSeq(q, 1, 1 - 1) = <<>>
    BY <2>1
  <2>3. LinesAt(k, q, b, 1) = <<line>>
    <3>1. b + SumBits(SubSeq(q, 1, 1 - 1)) = b
      <4>1. SumBits(SubSeq(q, 1, 1 - 1)) = SumBits(<<>>)
        BY <2>2, Zenon
      <4> QED
        BY <1>1, <4>1
    <3> QED
      BY <1>4, <2>2, <3>1 DEF LinesAt
  <2>4. line \in PrintedLine
    BY DEF line, PrintedLine, Entry
  <2> HIDE DEF line
  <2> DEFINE lines == [n \in 1 .. Len(q) |-> LinesAt(k, q, b, n)]
  <2>5. lines \in Seq(Seq(PrintedLine)) /\ Len(lines) = Len(q) /\ Listing(k, q, b) = FlattenSeq(lines)
    BY ListingType
  <2>6. lines = << <<line>> >>
    BY <2>2, <2>3
  <2>7. FlattenSeq(<< <<line>> >>) = <<line>>
    <3>1. <<line>> \in Seq(PrintedLine)
      BY <2>4
    <3> QED
      BY <3>1, FlattenOne
  <2> QED
    BY <2>1, <2>5, <2>6, <2>7 DEF line
<1> QED
  BY <1>1, <1>2, <1>3, <1>4

\* Entries `rest` of slave k are left to list; the ones before them end at bit b of its
\* data, and `shown` lists them.
Covers(k, d, shown, b, rest) ==
    \E p \in Seq(Entry) :
        /\ Entries(k, d) = p \o rest
        /\ b = SumBits(p)
        /\ shown = Listing(k, p, IOmapStart(k, d))

\* At first all the entries are left.
LEMMA CoversNone ==
    ASSUME AssignedType, NEW k \in SlaveId, NEW d \in Dir
    PROVE  Covers(k, d, <<>>, 0, Entries(k, d))
<1>1. Entries(k, d) \in Seq(Entry) /\ IOmapStart(k, d) \in Nat
  BY EntriesType, StartType
<1>2. <<>> \in Seq(Entry) /\ Entries(k, d) = <<>> \o Entries(k, d)
  <2>1. \A x \in Seq(Entry) : <<>> \o x = x
    BY JoinedTwice
  <2> QED
    BY <1>1, <2>1
<1>3. SumBits(<<>>) = 0 /\ Listing(k, <<>>, IOmapStart(k, d)) = <<>>
  BY <1>1, ListingShort
<1> QED
  BY <1>2, <1>3 DEF Covers

\* Entries that are listed at their bits are no longer left.
LEMMA CoversMore ==
    ASSUME AssignedType, NEW k \in SlaveId, NEW d \in Dir, NEW shown, NEW b,
           NEW x \in Seq(Entry), NEW rest \in Seq(Entry), Covers(k, d, shown, b, x \o rest)
    PROVE  /\ b \in Nat /\ shown \in Seq(PrintedLine)
           /\ Covers(k, d, shown \o Listing(k, x, IOmapStart(k, d) + b), b + SumBits(x), rest)
<1> DEFINE start == IOmapStart(k, d)
<1>1. start \in Nat
  BY StartType
<1>2. PICK p \in Seq(Entry) : /\ Entries(k, d) = p \o (x \o rest)
                             /\ b = SumBits(p) /\ shown = Listing(k, p, start)
  BY DEF Covers
<1> HIDE DEF start
<1>3. b \in Nat /\ shown \in Seq(PrintedLine)
  BY <1>1, <1>2, SumBitsType, ListingType
<1>4. p \o x \in Seq(Entry)
  OBVIOUS
<1>5. Entries(k, d) = (p \o x) \o rest
  <2>1. \A u, v, w \in Seq(Entry) : (u \o v) \o w = u \o (v \o w)
    BY Associates, SMTT(30)
  <2>2. (p \o x) \o rest = p \o (x \o rest)
    BY <1>2, <2>1, Zenon
  <2> QED
    BY <1>2, <2>2
<1>6. b + SumBits(x) = SumBits(p \o x)
  BY <1>2, BitsConcat
<1>7. shown \o Listing(k, x, start + b) = Listing(k, p \o x, start)
  BY <1>1, <1>2, ListingConcat
<1> QED
  BY <1>3, <1>4, <1>5, <1>6, <1>7 DEF Covers, start

\* What is listed while entries are left begins the whole listing; with none left it is
\* the whole.
LEMMA CoversWhole ==
    ASSUME AssignedType, NEW k \in SlaveId, NEW d \in Dir, NEW shown, NEW b,
           NEW rest \in Seq(Entry), Covers(k, d, shown, b, rest)
    PROVE  /\ IsPrefix(shown, Expected(k, d))
           /\ rest = <<>> => shown = Expected(k, d)
<1> DEFINE start == IOmapStart(k, d)
<1>1. start \in Nat
  BY StartType
<1>2. PICK p \in Seq(Entry) : /\ Entries(k, d) = p \o rest
                             /\ b = SumBits(p) /\ shown = Listing(k, p, start)
  BY DEF Covers
<1>3. Expected(k, d) = Listing(k, p \o rest, start)
  BY <1>2 DEF Expected
<1> HIDE DEF start
<1>4. start + SumBits(p) \in Nat
  BY <1>1, SumBitsType
<1>5. PICK y \in Seq(PrintedLine) : y = Listing(k, rest, start + SumBits(p))
  BY <1>4, ListingType
<1>6. shown \in Seq(PrintedLine)
  BY <1>1, <1>2, ListingType
<1>7. Expected(k, d) = shown \o y
  BY <1>1, <1>2, <1>3, <1>5, ListingConcat
<1>8. IsPrefix(shown, shown \o y)
  BY <1>6 DEF IsPrefix
<1>9. ASSUME rest = <<>> PROVE shown = Expected(k, d)
  <2>1. p \o <<>> = p
    OBVIOUS
  <2> QED
    BY <1>2, <1>3, <1>9, <2>1
<1> QED
  BY <1>7, <1>8, <1>9

\* The lines of a PDO from the EEPROM list its entries, for data that starts on a byte.
LEMMA LinesListed ==
    ASSUME AssignedType, cnt \in SlaveId, dir \in Dir, bo[dir] \in Nat, ~bus[cnt].coe,
           IOmapStart(cnt, dir) % 8 = 0, NEW p \in SiiPdo
    PROVE  Lines(p) = Listing(cnt, p.entries, IOmapStart(cnt, dir) + bo[dir])
<1> DEFINE e == p.entries
           start == IOmapStart(cnt, dir)
           at(n) == SumBits(SubSeq(e, 1, n - 1))
<1>1. start \in Nat /\ 8 * MapOffset(dir) = start
  BY StartType DEF MapOffset
<1>2. e \in Seq(Entry) /\ Len(e) \in Nat /\ DOMAIN e = 1 .. Len(e)
  BY DEF SiiPdo
<1>3. ASSUME NEW n \in 1 .. Len(e) PROVE at(n) \in Nat
  <2>1. SubSeq(e, 1, n - 1) \in Seq(Entry)
    BY <1>2
  <2> QED
    BY <2>1, SumBitsType
<1>4. ASSUME NEW n \in 1 .. Len(e)
      PROVE  Line(e[n], dir, OffsetIn(p, n)) = [obj |-> e[n].obj, bit |-> (start + bo[dir]) + at(n)]
  <2>1. OffsetIn(p, n) = bo[dir] + at(n)
    BY DEF OffsetIn
  <2> HIDE DEF at, start, e
  <2>2. 8 * MapOffset(dir) + (bo[dir] + at(n)) = (start + bo[dir]) + at(n)
    BY <1>1, <1>3
  <2> QED
    BY <2>1, <2>2 DEF Line
<1>5. Lines(p) = FlattenSeq([n \in DOMAIN e |->
                    IF e[n].obj # 0 THEN <<Line(e[n], dir, OffsetIn(p, n))>> ELSE <<>>])
  BY DEF Lines
<1>6. Listing(cnt, e, start + bo[dir]) =
         FlattenSeq([n \in DOMAIN e |->
            IF e[n].obj # 0 THEN <<[obj |-> e[n].obj, bit |-> (start + bo[dir]) + at(n)]>>
                            ELSE <<>>])
  BY DEF Listing
<1> HIDE DEF at, start, e
<1> QED
  BY <1>2, <1>4, <1>5, <1>6 DEF e, start

\* What the walks print are lines.
LEMMA LinesType ==
    ASSUME AssignedType, cnt \in SlaveId, NEW d \in Dir
    PROVE  /\ \A en \in Entry, b \in Nat : Line(en, d, b) \in PrintedLine
           /\ d = dir /\ bo[d] \in Nat => \A p \in SiiPdo : Lines(p) \in Seq(PrintedLine)
<1>1. MapOffset(d) \in Nat
  BY StartType DEF MapOffset
<1>2. ASSUME NEW en \in Entry, NEW b \in Nat PROVE Line(en, d, b) \in PrintedLine
  <2>1. en.obj \in Nat /\ 8 * MapOffset(d) + b \in Nat
    BY <1>1 DEF Entry
  <2> QED
    BY <2>1 DEF Line, PrintedLine
<1>3. ASSUME NEW p \in SiiPdo, d = dir, bo[d] \in Nat PROVE Lines(p) \in Seq(PrintedLine)
  <2> DEFINE e == p.entries
             F == [n \in DOMAIN e |->
                      IF e[n].obj # 0 THEN <<Line(e[n], d, OffsetIn(p, n))>> ELSE <<>>]
  <2>1. e \in Seq(Entry) /\ Len(e) \in Nat /\ DOMAIN e = 1 .. Len(e)
    BY DEF SiiPdo
  <2>2. ASSUME NEW n \in 1 .. Len(e)
        PROVE  e[n] \in Entry /\ OffsetIn(p, n) \in Nat
    <3>1. SubSeq(e, 1, n - 1) \in Seq(Entry)
      BY <2>1
    <3>2. SumBits(SubSeq(e, 1, n - 1)) \in Nat
      BY <3>1, SumBitsType
    <3> QED
      BY <1>3, <2>1, <3>2 DEF OffsetIn
  <2>3. \A x \in PrintedLine : <<x>> \in Seq(PrintedLine)
    OBVIOUS
  <2>4. <<>> \in Seq(PrintedLine)
    OBVIOUS
  <2>5. \A n \in 1 .. Len(e) : F[n] \in Seq(PrintedLine)
    BY <1>2, <2>1, <2>2, <2>3, <2>4
  <2>6. F \in Seq(Seq(PrintedLine))
    <3>1. F = [n \in 1 .. Len(e) |-> F[n]]
      BY <2>1
    <3> HIDE DEF F, e
    <3> QED
      BY <2>1, <2>5, <3>1
  <2>7. Lines(p) = FlattenSeq(F)
    BY <1>3 DEF Lines
  <2> HIDE DEF F
  <2> QED
    BY <2>6, <2>7, Flattened
<1> QED
  BY <1>2, <1>3

----------------------------------------------------------------------------
(* What the walks have left.                                               *)

Workaround(k) == IF bus[k].sms[1].type = 2 THEN 1 ELSE 0

\* The PDOs in direction d of some sync managers of slave k, by their types.
PdosOf(k, managers, d) ==
    FlattenSeq([i \in DOMAIN managers |->
        IF SmType(managers[i].type, Workaround(k)) = Wanted(d)
        THEN managers[i].pdos ELSE <<>>])

\* They are those of the first sync manager and those of the others.
LEMMA PdosStep ==
    ASSUME NEW k, NEW d \in Dir, NEW q \in Seq(SyncManager)
    PROVE  /\ FlattenSeq(PdosOf(k, q, d)) \in Seq(Entry)
           /\ q = <<>> => FlattenSeq(PdosOf(k, q, d)) = <<>>
           /\ q # <<>> =>
                 FlattenSeq(PdosOf(k, q, d)) =
                    (IF SmType(Head(q).type, Workaround(k)) = Wanted(d)
                     THEN FlattenSeq(Head(q).pdos) ELSE <<>>)
                    \o FlattenSeq(PdosOf(k, Tail(q), d))
<1> DEFINE Part(m) == IF SmType(m.type, Workaround(k)) = Wanted(d) THEN m.pdos ELSE <<>>
           F(r) == [i \in DOMAIN r |-> Part(r[i])]
<1>1. \A m \in SyncManager : Part(m) \in Seq(Seq(Entry))
  BY DEF SyncManager
<1>2. \A r \in Seq(SyncManager) : PdosOf(k, r, d) = FlattenSeq(F(r))
  BY DEF PdosOf
<1> HIDE DEF Part
<1>3. ASSUME NEW r \in Seq(SyncManager)
      PROVE  F(r) \in Seq(Seq(Seq(Entry))) /\ FlattenSeq(F(r)) \in Seq(Seq(Entry))
  <2>1. DOMAIN r = 1 .. Len(r) /\ Len(r) \in Nat /\ \A i \in 1 .. Len(r) : r[i] \in SyncManager
    OBVIOUS
  <2>2. F(r) \in Seq(Seq(Seq(Entry)))
    BY <1>1, <2>1
  <2> HIDE DEF F
  <2>3. FlattenSeq(F(r)) \in Seq(Seq(Entry))
    BY <2>2, Flattened
  <2> QED
    BY <2>2, <2>3
<1>4. FlattenSeq(PdosOf(k, q, d)) \in Seq(Entry)
  <2>1. PdosOf(k, q, d) \in Seq(Seq(Entry))
    BY <1>2, <1>3
  <2> QED
    BY <2>1, Flattened
<1>5. ASSUME q = <<>> PROVE FlattenSeq(PdosOf(k, q, d)) = <<>>
  <2>1. F(q) = <<>>
    BY <1>5
  <2>2. FlattenSeq(<<>>) = <<>>
    BY DEF FlattenSeq
  <2> HIDE DEF F
  <2> QED
    BY <1>2, <2>1, <2>2
<1>6. ASSUME q # <<>>
      PROVE  FlattenSeq(PdosOf(k, q, d)) =
                FlattenSeq(Part(Head(q))) \o FlattenSeq(PdosOf(k, Tail(q), d))
  <2>1. Head(q) \in SyncManager /\ Tail(q) \in Seq(SyncManager)
    BY <1>6, HeadTail
  <2>2. F(q) # <<>> /\ Head(F(q)) = Part(Head(q)) /\ Tail(F(q)) = F(Tail(q))
    BY <1>6
  <2> HIDE DEF F
  <2>3. PICK Q \in Seq(Seq(Seq(Entry))) : Q = F(q)
    BY <1>3
  <2>4. FlattenSeq(Q) = Head(Q) \o FlattenSeq(Tail(Q))
    BY <2>2, <2>3, FlattenCons
  <2>5. PICK a \in Seq(Seq(Entry)) : a = Part(Head(q))
    BY <1>1, <2>1
  <2>6. PICK b \in Seq(Seq(Entry)) : b = FlattenSeq(F(Tail(q)))
    BY <1>3, <2>1
  <2>7. FlattenSeq(a \o b) = FlattenSeq(a) \o FlattenSeq(b)
    BY FlattenConcat
  <2>8. FlattenSeq(F(q)) = a \o b
    BY <2>2, <2>3, <2>4, <2>5, <2>6
  <2> QED
    BY <1>2, <2>1, <2>5, <2>6, <2>7, <2>8
<1>7. FlattenSeq(<<>>) = <<>>
  BY DEF FlattenSeq
<1> QED
  BY <1>4, <1>5, <1>6, <1>7 DEF Part

\* Where SOEM and the walk read the dictionary alike, the sync managers that the walk
\* knows hold what SOEM mapped.
LEMMA CoeEntries ==
    ASSUME Typing, assigned = Mapped, NEW k \in SlaveId, NEW d \in Dir,
           bus[k].coe, ReadAlike(k)
    PROVE  Entries(k, d) = FlattenSeq(PdosOf(k, SyncManagers(k), d))
<1> DEFINE all == bus[k].sms
           known == SyncManagers(k)
           n == Len(all)
           m == Len(known)
           F == [i \in DOMAIN all |-> IF SoemType(bus[k], i) = Wanted(d) THEN all[i].pdos ELSE <<>>]
           A == [i \in DOMAIN known |-> IF SmType(known[i].type, Workaround(k)) = Wanted(d)
                                        THEN known[i].pdos ELSE <<>>]
           B == [i \in 1 .. n - m |-> <<>>]
<1>1. all \in Seq(SyncManager) /\ n \in Nat /\ DOMAIN all = 1 .. n
  BY SlaveType DEF Dir
<1>2. /\ m \in Nat /\ DOMAIN known = 1 .. m /\ m <= n
      /\ \A i \in 1 .. m : known[i] = all[i]
      /\ m < n => m = 7
  <2> DEFINE l == IF n < EC_MAXSM THEN n ELSE EC_MAXSM - 1
  <2>1. known = SubSeq(all, 1, l)
    BY DEF SyncManagers
  <2>2. l \in Nat /\ l <= n /\ (l < n => l = 7)
    BY <1>1 DEF EC_MAXSM
  <2> HIDE DEF l, all, known
  <2> QED
    BY <1>1, <2>1, <2>2
<1>3. /\ FromCoe(bus[k])
      /\ \A i \in 1 .. n : SoemType(bus[k], i) = SmType(all[i].type, Workaround(k))
  BY <1>1 DEF ReadAlike, Workaround
<1>4. \A i \in 1 .. n : i > 7 => SoemType(bus[k], i) # Wanted(d)
  BY <1>1 DEF SoemType, EC_MAXSM, Wanted
<1>5. \A i \in 1 .. n : all[i].pdos \in Seq(Seq(Entry))
  <2>1. \A x \in SyncManager : x.pdos \in Seq(Seq(Entry))
    BY DEF SyncManager
  <2>2. \A i \in 1 .. n : all[i] \in SyncManager
    BY <1>1
  <2> QED
    BY <2>1, <2>2
<1>6. /\ F \in Seq(Seq(Seq(Entry))) /\ Len(F) = n
      /\ \A i \in 1 .. m : F[i] = A[i]
      /\ \A i \in 1 .. n - m : F[m + i] = B[i]
  <2> HIDE DEF all, known, n, m
  <2>1. F \in Seq(Seq(Seq(Entry))) /\ Len(F) = n
    BY <1>1, <1>5
  <2>2. \A i \in 1 .. m : F[i] = A[i]
    <3> TAKE i \in 1 .. m
    <3>1. i \in 1 .. n
      BY <1>1, <1>2
    <3> QED
      BY <1>1, <1>2, <1>3, <3>1
  <2>3. \A i \in 1 .. n - m : F[m + i] = B[i]
    <3> TAKE i \in 1 .. n - m
    <3>1. m + i \in 1 .. n /\ m + i > 7
      BY <1>1, <1>2
    <3> QED
      BY <1>1, <1>4, <3>1
  <2> QED
    BY <2>1, <2>2, <2>3
<1>7. A \in Seq(Seq(Seq(Entry))) /\ Len(A) = m
  <2> HIDE DEF all, known, n, m
  <2>1. \A i \in 1 .. m : known[i].pdos \in Seq(Seq(Entry))
    BY <1>1, <1>2, <1>5
  <2> QED
    BY <1>2, <2>1
<1>8. /\ B \in Seq(Seq(Seq(Entry))) /\ Len(B) = n - m
      /\ \A i \in 1 .. Len(B) : B[i] = <<>>
  <2> HIDE DEF n, m
  <2> QED
    BY <1>1, <1>2
<1>9. CoePdos(bus[k], d) = FlattenSeq(F) /\ PdosOf(k, known, d) = FlattenSeq(A)
  BY DEF CoePdos, PdosOf
<1>10. Entries(k, d) = FlattenSeq(CoePdos(bus[k], d))
  BY <1>3 DEF Entries, Mapped
<1> HIDE DEF all, known, n, m, F, A, B
<1>11. F = A \o B
  <2>1. \A x, y, z \in Seq(Seq(Seq(Entry))) :
           (/\ Len(z) = Len(x) + Len(y)
            /\ \A i \in 1 .. Len(x) : z[i] = x[i]
            /\ \A i \in 1 .. Len(y) : z[Len(x) + i] = y[i]) => z = x \o y
    BY Concatenation
  <2>2. Len(F) = Len(A) + Len(B)
    BY <1>1, <1>2, <1>6, <1>7, <1>8
  <2> QED
    BY <1>6, <1>7, <1>8, <2>1, <2>2
<1>12. FlattenSeq(A \o B) = FlattenSeq(A) \o FlattenSeq(B)
  BY <1>7, <1>8, FlattenConcat
<1>13. FlattenSeq(B) = <<>>
  BY <1>8, FlattenEmpty
<1>14. FlattenSeq(A) \o <<>> = FlattenSeq(A)
  <2>1. PICK a \in Seq(Seq(Entry)) : a = FlattenSeq(A)
    BY <1>7, Flattened
  <2>2. a \o <<>> = a
    OBVIOUS
  <2> QED
    BY <2>1, <2>2
<1> QED
  BY <1>9, <1>10, <1>11, <1>12, <1>13, <1>14 DEF known

\* The entries of the PDOs behind the n-th of a section that SOEM reads.
SectionLeft(s, n) ==
    FlattenSeq(FlattenSeq([i \in 1 .. LastPdo(s) - n |-> Exchanged(s.pdos[n + i])]))

\* They are those of the next PDO, if it is active, and those behind it.
LEMMA SectionStep ==
    ASSUME NEW s \in PdoSection, LastPdo(s) \in 1 .. Len(s.pdos), NEW n \in 0 .. LastPdo(s)
    PROVE  /\ FlattenSeq([i \in 1 .. LastPdo(s) - n |-> Exchanged(s.pdos[n + i])])
                 \in Seq(Seq(Entry))
           /\ SectionLeft(s, n) \in Seq(Entry)
           /\ n = LastPdo(s) => SectionLeft(s, n) = <<>>
           /\ n < LastPdo(s) =>
                 SectionLeft(s, n) =
                    (IF Active(s.pdos[n + 1]) THEN s.pdos[n + 1].entries ELSE <<>>)
                    \o SectionLeft(s, n + 1)
<1> DEFINE last == LastPdo(s)
           F(j) == [i \in 1 .. last - j |-> Exchanged(s.pdos[j + i])]
<1>1. /\ Len(s.pdos) \in Nat /\ last \in Nat /\ last <= Len(s.pdos) /\ n \in Nat /\ n <= last
      /\ \A i \in 1 .. last : s.pdos[i] \in SiiPdo /\ s.pdos[i].entries \in Seq(Entry)
  <2>1. s.pdos \in Seq(SiiPdo)
    BY DEF PdoSection
  <2>2. Len(s.pdos) \in Nat /\ \A i \in 1 .. Len(s.pdos) : s.pdos[i] \in SiiPdo
    BY <2>1
  <2>3. \A x \in SiiPdo : x.entries \in Seq(Entry)
    BY DEF SiiPdo
  <2> QED
    BY <2>2, <2>3
<1>2. ASSUME NEW x, x.entries \in Seq(Entry)
      PROVE  /\ Exchanged(x) \in Seq(Seq(Entry))
             /\ FlattenSeq(Exchanged(x)) = IF Active(x) THEN x.entries ELSE <<>>
  <2>1. PICK e \in Seq(Entry) : e = x.entries
    BY <1>2
  <2>2. FlattenSeq(<<e>>) = e
    BY FlattenOne
  <2>3. FlattenSeq(<<>>) = <<>>
    BY DEF FlattenSeq
  <2>4. <<e>> \in Seq(Seq(Entry)) /\ <<>> \in Seq(Seq(Entry))
    OBVIOUS
  <2> QED
    BY <2>1, <2>2, <2>3, <2>4 DEF Exchanged
<1> HIDE DEF last
<1>3. ASSUME NEW j \in 0 .. last
      PROVE  F(j) \in Seq(Seq(Seq(Entry))) /\ FlattenSeq(F(j)) \in Seq(Seq(Entry))
  <2>1. \A i \in 1 .. last - j : j + i \in 1 .. last
    BY <1>1
  <2>2. last - j \in Nat
    BY <1>1
  <2>3. F(j) \in Seq(Seq(Seq(Entry)))
    BY <1>1, <1>2, <2>1, <2>2
  <2> HIDE DEF F
  <2>4. FlattenSeq(F(j)) \in Seq(Seq(Entry))
    BY <2>3, Flattened
  <2> QED
    BY <2>3, <2>4
<1>4. \A j \in 0 .. last : SectionLeft(s, j) = FlattenSeq(FlattenSeq(F(j)))
  BY DEF SectionLeft, last
<1>5. ASSUME NEW j \in 0 .. last PROVE SectionLeft(s, j) \in Seq(Entry)
  <2> HIDE DEF F
  <2>1. FlattenSeq(FlattenSeq(F(j))) \in Seq(Entry)
    BY <1>3, Flattened
  <2> QED
    BY <1>4, <2>1
<1>6. ASSUME n = last PROVE SectionLeft(s, n) = <<>>
  <2>1. F(n) = <<>>
    BY <1>1, <1>6
  <2>2. FlattenSeq(<<>>) = <<>>
    BY DEF FlattenSeq
  <2> HIDE DEF F
  <2> QED
    BY <1>1, <1>4, <2>1, <2>2
<1>7. ASSUME n < last
      PROVE  SectionLeft(s, n) =
                FlattenSeq(Exchanged(s.pdos[n + 1])) \o SectionLeft(s, n + 1)
  <2>1. n + 1 \in 1 .. last /\ n + 1 \in 0 .. last /\ n \in 0 .. last
    BY <1>1, <1>7
  <2>2. F(n) # <<>> /\ Head(F(n)) = Exchanged(s.pdos[n + 1])
    <3>1. last - n \in Nat /\ 1 \in 1 .. last - n
      BY <1>1, <1>7
    <3>2. Len(F(n)) = last - n /\ F(n)[1] = Exchanged(s.pdos[n + 1])
      BY <3>1
    <3>3. F(n) \in Seq(Seq(Seq(Entry)))
      BY <1>3, <2>1
    <3> HIDE DEF F
    <3> QED
      BY <3>1, <3>2, <3>3
  <2>3. Tail(F(n)) = F(n + 1)
    <3>1. /\ last - n \in Nat /\ last - (n + 1) \in Nat /\ (last - n) - 1 = last - (n + 1)
          /\ \A i \in 1 .. last - (n + 1) : n + (i + 1) = (n + 1) + i /\ i + 1 \in 1 .. last - n
      BY <1>1, <1>7
    <3>2. Len(F(n)) = last - n /\ Len(F(n + 1)) = last - (n + 1)
      BY <3>1
    <3>3. \A i \in 1 .. last - (n + 1) : F(n + 1)[i] = F(n)[i + 1]
      BY <3>1
    <3>4. F(n) \in Seq(Seq(Seq(Entry))) /\ F(n + 1) \in Seq(Seq(Seq(Entry)))
      BY <1>3, <2>1
    <3> HIDE DEF F
    <3> QED
      BY <2>2, <3>1, <3>2, <3>3, <3>4, TailGiven
  <2> HIDE DEF F
  <2>4. PICK Q \in Seq(Seq(Seq(Entry))) : Q = F(n)
    BY <1>3, <2>1
  <2>5. FlattenSeq(Q) = Head(Q) \o FlattenSeq(Tail(Q))
    BY <2>2, <2>4, FlattenCons
  <2>6. PICK a \in Seq(Seq(Entry)) : a = Exchanged(s.pdos[n + 1])
    BY <1>1, <1>2, <2>1
  <2>7. PICK b \in Seq(Seq(Entry)) : b = FlattenSeq(F(n + 1))
    BY <1>3, <2>1
  <2>8. FlattenSeq(a \o b) = FlattenSeq(a) \o FlattenSeq(b)
    BY FlattenConcat
  <2>9. FlattenSeq(F(n)) = a \o b
    BY <2>2, <2>3, <2>4, <2>5, <2>6, <2>7
  <2> QED
    BY <1>4, <2>1, <2>6, <2>7, <2>8, <2>9
<1>8. n < last => n + 1 \in 1 .. last
  BY <1>1
<1> QED
  BY <1>1, <1>2, <1>3, <1>5, <1>6, <1>7, <1>8 DEF last

\* What SOEM maps are PDOs; for a slave without CoE those of its sections.
LEMMA MappedType ==
    ASSUME Typing
    PROVE  /\ assigned = Mapped => AssignedType
           /\ \A k \in SlaveId, d \in Dir :
                 assigned = Mapped /\ ~bus[k].coe =>
                    Entries(k, d) = IF bus[k][d].present THEN SectionLeft(bus[k][d], 0) ELSE <<>>
<1>1. ASSUME NEW k \in SlaveId, NEW d \in Dir
      PROVE  CoePdos(bus[k], d) \in Seq(Seq(Entry))
  <2> DEFINE all == bus[k].sms
             F == [i \in DOMAIN all |-> IF SoemType(bus[k], i) = Wanted(d) THEN all[i].pdos ELSE <<>>]
  <2>1. all \in Seq(SyncManager) /\ Len(all) \in Nat /\ DOMAIN all = 1 .. Len(all)
    BY SlaveType
  <2>2. \A x \in SyncManager : x.pdos \in Seq(Seq(Entry))
    BY DEF SyncManager
  <2>3. \A i \in 1 .. Len(all) : all[i].pdos \in Seq(Seq(Entry))
    BY <2>1, <2>2
  <2>4. F \in Seq(Seq(Seq(Entry)))
    <3> HIDE DEF all
    <3> QED
      BY <2>1, <2>3
  <2>5. CoePdos(bus[k], d) = FlattenSeq(F)
    BY DEF CoePdos
  <2> HIDE DEF F
  <2> QED
    BY <2>4, <2>5, Flattened
<1>2. ASSUME NEW k \in SlaveId, NEW d \in Dir
      PROVE  LET s == bus[k][d]
             IN /\ SiiPdos(bus[k], d) \in Seq(Seq(Entry))
                /\ FlattenSeq(SiiPdos(bus[k], d)) =
                      IF s.present THEN SectionLeft(s, 0) ELSE <<>>
  <2> DEFINE s == bus[k][d]
             F == [i \in 1 .. LastPdo(s) - 0 |-> Exchanged(s.pdos[0 + i])]
  <2>1. s \in PdoSection /\ LastPdo(s) \in 1 .. Len(s.pdos)
    BY SlaveType, LastRead
  <2>2. LastPdo(s) \in Nat
    BY <2>1
  <2>3. F = [i \in 1 .. LastPdo(s) |-> Exchanged(s.pdos[i])]
    <3> HIDE DEF s
    <3>1. \A i \in 1 .. LastPdo(s) : 0 + i = i
      OBVIOUS
    <3>2. LastPdo(s) - 0 = LastPdo(s)
      BY <2>2
    <3> QED
      BY <3>1, <3>2
  <2>4. FlattenSeq(F) \in Seq(Seq(Entry))
    <3> HIDE DEF s
    <3>1. 0 \in 0 .. LastPdo(s)
      BY <2>2
    <3> QED
      BY <2>1, <3>1, SectionStep
  <2>5. SiiPdos(bus[k], d) = IF s.present THEN FlattenSeq(F) ELSE <<>>
    BY <2>3 DEF SiiPdos
  <2>6. SectionLeft(s, 0) = FlattenSeq(FlattenSeq(F))
    BY DEF SectionLeft
  <2>7. FlattenSeq(<<>>) = <<>> /\ <<>> \in Seq(Seq(Entry))
    BY DEF FlattenSeq
  <2> HIDE DEF F, s
  <2> QED
    BY <2>4, <2>5, <2>6, <2>7 DEF s
<1>3. \A k \in SlaveId, d \in Dir : Mapped[k][d] \in Seq(Seq(Entry))
  BY <1>1, <1>2 DEF Mapped
<1>4. Mapped \in [SlaveId -> [Dir -> Seq(Seq(Entry))]]
  BY <1>3 DEF Mapped
<1>5. ASSUME NEW k \in SlaveId, NEW d \in Dir, assigned = Mapped, ~bus[k].coe
      PROVE  Entries(k, d) = FlattenSeq(SiiPdos(bus[k], d))
  BY <1>5 DEF Entries, Mapped, FromCoe
<1> QED
  BY <1>2, <1>4, <1>5 DEF AssignedType

\* The layout and what is expected depend on the bus and on what is mapped.
LEMMA LayoutStays ==
    ASSUME UNCHANGED <<bus, assigned>>
    PROVE  /\ Mapped' = Mapped
           /\ \A k, d : /\ Entries(k, d)' = Entries(k, d)
                        /\ IOmapStart(k, d)' = IOmapStart(k, d)
                        /\ Expected(k, d)' = Expected(k, d)
           /\ \A k : ReadAlike(k)' <=> ReadAlike(k)
           /\ \A k : \A list, b : Listing(k, list, b)' = Listing(k, list, b)
<1>1. Mapped' = Mapped
  BY DEF Mapped
<1>2. \A k, d : Entries(k, d)' = Entries(k, d)
  BY DEF Entries
<1>3. \A k, d : Bits(k, d)' = Bits(k, d) /\ Bytes(k, d)' = Bytes(k, d)
  BY <1>2 DEF Bits, Bytes
<1>4. ASSUME NEW k, NEW d PROVE ImageEnd(k, d)' = ImageEnd(k, d)
  <2> DEFINE BitsIn(x, j) == SumBits(FlattenSeq(x[j][d]))
             BytesIn(x, j) == IF BitsIn(x, j) > 7 THEN (BitsIn(x, j) + 7) \div 8 ELSE 0
             End(x) == CHOOSE end : end = [j \in 0 .. k |->
                          IF j = 0 THEN 0
                          ELSE IF BytesIn(x, j) > 0
                               THEN (IF BytesIn(x, j) > 0 THEN ByteAligned(end[j - 1])
                                                          ELSE end[j - 1]) + 8 * BytesIn(x, j)
                               ELSE end[j - 1] + BitsIn(x, j)]
  <2>1. ImageEnd(k, d) = End(assigned)[k]
    BY Zenon DEF ImageEnd, StartAfter, Bytes, Bits, Entries
  <2>2. ImageEnd(k, d)' = End(assigned')[k]
    BY Zenon DEF ImageEnd, StartAfter, Bytes, Bits, Entries
  <2> HIDE DEF End
  <2> QED
    BY <2>1, <2>2
<1>5. \A k, d : IOmapStart(k, d)' = IOmapStart(k, d)
  BY <1>3, <1>4 DEF IOmapStart, ImageStart, StartAfter, ImageBytes
<1>6. \A k : \A list, b : Listing(k, list, b)' = Listing(k, list, b)
  BY DEF Listing
<1>7. \A k, d : Expected(k, d)' = Expected(k, d)
  BY <1>2, <1>5, <1>6 DEF Expected
<1>8. \A k : ReadAlike(k)' <=> ReadAlike(k)
  BY DEF ReadAlike
<1> QED
  BY <1>1, <1>2, <1>5, <1>6, <1>7, <1>8

----------------------------------------------------------------------------
(* The listing.                                                            *)

CoePlaces == {"count", "type", "assign", "pdo", "entry"}
SiiPlaces == {"section", "siiPdo"}

\* The walk is over slave cnt.
Walking == pc \in CoePlaces \cup SiiPlaces

\* The entries of slave cnt that the walk has left, from each of its loops on.
InSms(d) == FlattenSeq(PdosOf(cnt, sms, d))
InPdos(d) == IF d = dir THEN FlattenSeq(pdos) \o InSms(d) ELSE InSms(d)
InEntries(d) == IF d = dir THEN entries \o InPdos(d) ELSE InPdos(d)
InSections(d) == IF d = "out" /\ dir = "in" THEN <<>> ELSE Entries(cnt, d)
InSection(d) == IF d = dir THEN SectionLeft(Section, nPDO) ELSE InSections(d)

Left(d) ==
    CASE pc = "count"             -> Entries(cnt, d)
      [] pc = "type"              -> InSms(d)
      [] pc \in {"assign", "pdo"} -> InPdos(d)
      [] pc = "entry"             -> InEntries(d)
      [] pc = "section"           -> InSections(d)
      [] pc = "siiPdo"            -> InSection(d)

\* The walk has SOEM's mapping in front of it and takes the way the slave asks for.
PlaceInv ==
    /\ printed \in [SlaveId -> [Dir -> Seq(PrintedLine)]]
    /\ assigned = Mapped \/ assigned = [k \in SlaveId |-> NothingYet]
    /\ InLoop \/ cnt > 1 => assigned = Mapped
    /\ pc = "config" => cnt = 1
    /\ Walking => printMAP /\ (bus[cnt].coe <=> pc \in CoePlaces)

\* The first sync manager, and only it, switches the workaround on.
BugInv ==
    /\ pc = "count" => bugAdd = 0
    /\ pc \in CoePlaces \ {"count"} /\ cnt \notin damaged =>
          /\ Len(sms) <= Len(SyncManagers(cnt))
          /\ IF sms = SyncManagers(cnt) THEN bugAdd = 0 ELSE bugAdd = Workaround(cnt)

\* Slaves that the walk has passed are listed, those it has not reached are not; of
\* slave cnt it has listed what it has not left.
ListInv ==
    \A k \in SlaveId : \A d \in Dir :
        /\ ~printMAP \/ k > cnt \/ (k = cnt /\ ~Walking) => printed[k][d] = <<>>
        /\ printMAP /\ k < cnt /\ Sound(k, d) => printed[k][d] = Expected(k, d)
        /\ Walking /\ k = cnt /\ Sound(k, d) => Covers(k, d, printed[k][d], bo[d], Left(d))

Listed == PlaceInv /\ BugInv /\ ListInv

\* What is left are entries.
LEMMA LeftType ==
    ASSUME Typing, PlaceInv, NEW d \in Dir
    PROVE  /\ InSms(d) \in Seq(Entry) /\ InPdos(d) \in Seq(Entry) /\ InEntries(d) \in Seq(Entry)
           /\ Walking => /\ AssignedType /\ cnt \in SlaveId
                         /\ Entries(cnt, d) \in Seq(Entry) /\ Left(d) \in Seq(Entry)
<1>0. cnt \in 1 .. NumSlaves + 1 /\ sms \in Seq(SyncManager) /\ pdos \in Seq(Seq(Entry))
      /\ entries \in Seq(Entry)
  BY DEF Typing, TypeOK, WalkInv
<1>1. InSms(d) \in Seq(Entry)
  <2>1. ASSUME NEW k PROVE FlattenSeq(PdosOf(k, sms, d)) \in Seq(Entry)
    BY <1>0, PdosStep
  <2> QED
    BY <2>1 DEF InSms
<1>2. FlattenSeq(pdos) \in Seq(Entry)
  BY <1>0, Flattened
<1>3. \A x, y \in Seq(Entry) : x \o y \in Seq(Entry)
  OBVIOUS
<1>4. InPdos(d) \in Seq(Entry)
  BY <1>1, <1>2, <1>3 DEF InPdos
<1>5. InEntries(d) \in Seq(Entry)
  BY <1>0, <1>3, <1>4 DEF InEntries
<1>6. ASSUME Walking PROVE /\ AssignedType /\ cnt \in SlaveId
                           /\ Entries(cnt, d) \in Seq(Entry) /\ Left(d) \in Seq(Entry)
  <2>1. InLoop /\ cnt \in SlaveId /\ AssignedType
    <3>1. InLoop
      BY <1>6 DEF InLoop, Walking, CoePlaces, SiiPlaces
    <3> QED
      BY <3>1, MappedType DEF PlaceInv, Typing, WalkInv
  <2>2. Entries(cnt, d) \in Seq(Entry)
    BY <2>1, EntriesType
  <2>3. InSections(d) \in Seq(Entry)
    <3>1. <<>> \in Seq(Entry)
      OBVIOUS
    <3> QED
      BY <2>2, <3>1 DEF InSections
  <2>4. pc = "siiPdo" => InSection(d) \in Seq(Entry)
    <3>1. SUFFICES ASSUME pc = "siiPdo" PROVE SectionLeft(Section, nPDO) \in Seq(Entry)
      BY <2>3 DEF InSection
    <3>2. /\ Section \in PdoSection /\ LastPdo(Section) \in 1 .. Len(Section.pdos)
          /\ nPDO + 1 \in 1 .. LastPdo(Section) /\ nPDO \in Nat
      BY <3>1, SectionWalk DEF Typing, TypeOK
    <3>3. nPDO \in 0 .. LastPdo(Section)
      BY <3>2
    <3> QED
      BY <3>2, <3>3, SectionStep
  <2>5. pc \in {"count", "type", "assign", "pdo", "entry", "section", "siiPdo"}
    BY <1>6 DEF Walking, CoePlaces, SiiPlaces
  <2>6. Left(d) \in Seq(Entry)
    BY <1>1, <1>4, <1>5, <2>2, <2>3, <2>4, <2>5 DEF Left
  <2> QED
    BY <2>1, <2>2, <2>6
<1> QED
  BY <1>1, <1>4, <1>5, <1>6

\* A step within slave cnt that keeps track of it.
LEMMA WalkGoesOn ==
    ASSUME Typing, ListInv, Walking', cnt \in SlaveId,
           UNCHANGED <<bus, assigned, printMAP, cnt>>, printMAP,
           \A k \in damaged : k \in damaged',
           \A k \in SlaveId : k # cnt => printed'[k] = printed[k],
           \A d \in Dir : Sound(cnt, d) /\ cnt \notin damaged' =>
              Covers(cnt, d, printed'[cnt][d], bo'[d], Left(d)')
    PROVE  ListInv'
<1> SUFFICES ASSUME NEW k \in SlaveId, NEW d \in Dir
             PROVE  /\ (~printMAP \/ k > cnt \/ (k = cnt /\ ~Walking))' => printed'[k][d] = <<>>
                    /\ (printMAP /\ k < cnt /\ Sound(k, d))' => printed'[k][d] = Expected(k, d)'
                    /\ (Walking /\ k = cnt /\ Sound(k, d))' =>
                          Covers(k, d, printed[k][d], bo[d], Left(d))'
  BY DEF ListInv
<1>1. k \in Nat /\ cnt \in Nat
  BY DEF SlaveId
<1>2. Sound(k, d)' => Sound(k, d) /\ k \notin damaged'
  BY LayoutStays DEF Sound
<1>3. Expected(k, d)' = Expected(k, d)
  BY LayoutStays
<1>4. CASE k = cnt
  <2>1. ASSUME Sound(k, d)' PROVE Covers(k, d, printed[k][d], bo[d], Left(d))'
    <3>1. Covers(k, d, printed'[k][d], bo'[d], Left(d)')
      BY <1>2, <1>4, <2>1
    <3>2. PICK p \in Seq(Entry) : /\ Entries(k, d) = p \o Left(d)' /\ bo'[d] = SumBits(p)
                                 /\ printed'[k][d] = Listing(k, p, IOmapStart(k, d))
      BY <3>1 DEF Covers
    <3>3. /\ Entries(k, d)' = p \o Left(d)'
          /\ printed'[k][d] = Listing(k, p, IOmapStart(k, d))'
      BY <3>2, LayoutStays
    <3> QED
      BY <3>2, <3>3 DEF Covers
  <2> QED
    BY <1>1, <1>4, <2>1
<1>5. CASE k # cnt
  BY <1>2, <1>3, <1>5 DEF ListInv
<1> QED
  BY <1>4, <1>5

\* A step that passes slave cnt with nothing left.
LEMMA WalkPasses ==
    ASSUME Typing, ListInv, ~Walking', cnt \in SlaveId, cnt' = cnt + 1,
           UNCHANGED <<bus, assigned, printMAP>>,
           \A k \in damaged : k \in damaged',
           \A k \in SlaveId : k # cnt => printed'[k] = printed[k],
           ~printMAP => printed' = printed,
           \A d \in Dir : printMAP /\ Sound(cnt, d) => printed'[cnt][d] = Expected(cnt, d)
    PROVE  ListInv'
<1> SUFFICES ASSUME NEW k \in SlaveId, NEW d \in Dir
             PROVE  /\ (~printMAP \/ k > cnt \/ (k = cnt /\ ~Walking))' => printed'[k][d] = <<>>
                    /\ (printMAP /\ k < cnt /\ Sound(k, d))' => printed'[k][d] = Expected(k, d)'
                    /\ (Walking /\ k = cnt /\ Sound(k, d))' =>
                          Covers(k, d, printed[k][d], bo[d], Left(d))'
  BY DEF ListInv
<1>1. k \in Nat /\ cnt \in Nat
  BY DEF SlaveId
<1>2. Sound(k, d)' => Sound(k, d)
  BY LayoutStays DEF Sound
<1>3. Expected(k, d)' = Expected(k, d)
  BY LayoutStays
<1>4. CASE k = cnt
  BY <1>1, <1>2, <1>3, <1>4 DEF ListInv
<1>5. CASE k # cnt
  BY <1>1, <1>2, <1>3, <1>5 DEF ListInv
<1> QED
  BY <1>4, <1>5

\* The walk keeps to the mapping and to its way.
LEMMA PlaceStep ==
    ASSUME Typing, PlaceInv, [Next]_vars
    PROVE  PlaceInv'
<1>0. /\ cnt \in 1 .. NumSlaves + 1 /\ NumSlaves \in Nat
      /\ InLoop => cnt \in SlaveId /\ assigned = Mapped /\ AssignedType
  BY MappedType, ProcessAssumption DEF Typing, TypeOK, WalkInv, PlaceInv
<1>1. CASE Begin
  <2>1. /\ cnt' = 1 /\ pc' \in {"idle", "config"} /\ UNCHANGED <<bus, assigned>>
        /\ printed' = [k \in SlaveId |-> NothingYet]
    BY <1>1 DEF Begin
  <2>2. printed' \in [SlaveId -> [Dir -> Seq(PrintedLine)]]
    <3>1. <<>> \in Seq(PrintedLine)
      OBVIOUS
    <3> QED
      BY <2>1, <3>1 DEF NothingYet
  <2>3. Mapped' = Mapped
    BY <2>1, LayoutStays
  <2> QED
    BY <2>1, <2>2, <2>3 DEF PlaceInv, InLoop, Walking, CoePlaces, SiiPlaces
<1>2. CASE Config
  <2>1. /\ cnt' = 1 /\ bus' = bus /\ printed' = printed /\ pc' \in {"idle", "general"}
        /\ \/ assigned' = Mapped
           \/ assigned' = assigned /\ pc' = "idle"
    BY <1>2 DEF Config, Close, PlaceInv
  <2>2. Mapped' = Mapped
    BY <2>1 DEF Mapped
  <2> QED
    BY <2>1, <2>2 DEF PlaceInv, InLoop, Walking, CoePlaces, SiiPlaces
<1>3. CASE General
  <2>1. /\ InLoop /\ UNCHANGED <<bus, assigned, printed, printMAP>>
        /\ \/ pc' \in {"general", "idle"}
           \/ printMAP /\ cnt' = cnt /\ pc' = IF bus[cnt].coe THEN "count" ELSE "section"
    BY <1>3 DEF General, NextSlave, Close, InLoop
  <2>2. Mapped' = Mapped
    BY <2>1 DEF Mapped
  <2> QED
    BY <1>0, <2>1, <2>2 DEF PlaceInv, Walking, CoePlaces, SiiPlaces
<1>4. CASE CountSM \/ ReadType \/ CountPdo \/ ReadPdo
  <2>1. /\ Walking /\ pc \in CoePlaces /\ pc' \in CoePlaces /\ InLoop
        /\ UNCHANGED <<bus, assigned, printed, printMAP, cnt>>
    BY <1>4 DEF CountSM, ReadType, CountPdo, ReadPdo, InLoop, Walking, CoePlaces, SiiPlaces
  <2>2. Mapped' = Mapped
    BY <2>1 DEF Mapped
  <2> QED
    BY <1>0, <2>1, <2>2 DEF PlaceInv, Walking, CoePlaces
<1>5. CASE SdoDone
  <2>1. InLoop /\ UNCHANGED <<bus, assigned, printed>> /\ pc' \in {"general", "idle"}
    BY <1>5 DEF SdoDone, NextSlave, Close, InLoop
  <2>2. Mapped' = Mapped
    BY <2>1 DEF Mapped
  <2> QED
    BY <1>0, <2>1, <2>2 DEF PlaceInv, Walking, CoePlaces, SiiPlaces
<1>6. CASE ReadEntry
  <2>1. /\ Walking /\ pc \in CoePlaces /\ pc' \in CoePlaces /\ InLoop
        /\ UNCHANGED <<bus, assigned, printMAP, cnt>>
    BY <1>6 DEF ReadEntry, InLoop, Walking, CoePlaces, SiiPlaces
  <2>2. Mapped' = Mapped
    BY <2>1 DEF Mapped
  <2>3. printed' \in [SlaveId -> [Dir -> Seq(PrintedLine)]]
    <3>1. CASE entries = <<>>
      BY <1>6, <3>1 DEF ReadEntry, PlaceInv
    <3>2. CASE entries # <<>>
      <4>1. PICK en : /\ en \in {Head(entries), [obj |-> 0, bits |-> 0]}
                      /\ printed' = [printed EXCEPT ![cnt][dir] = Append(@, Line(en, dir, bo[dir]))]
        BY <1>6, <3>2 DEF ReadEntry
      <4>2. en \in Entry
        <5>1. Head(entries) \in Entry
          BY <3>2, HeadTail DEF Typing, WalkInv
        <5>2. [obj |-> 0, bits |-> 0] \in Entry
          BY DEF Entry
        <5> QED
          BY <4>1, <5>1, <5>2
      <4>3. dir \in Dir /\ bo[dir] \in Nat
        BY DEF Typing, TypeOK
      <4>4. Line(en, dir, bo[dir]) \in PrintedLine
        BY <1>0, <2>1, <4>2, <4>3, LinesType
      <4>5. \A x \in Seq(PrintedLine) : \A y \in PrintedLine : Append(x, y) \in Seq(PrintedLine)
        OBVIOUS
      <4> QED
        BY <1>0, <2>1, <4>1, <4>3, <4>4, <4>5 DEF PlaceInv
    <3> QED
      BY <3>1, <3>2
  <2> QED
    BY <1>0, <2>1, <2>2, <2>3 DEF PlaceInv, Walking, CoePlaces
<1>7. CASE FindSection
  <2>1. /\ Walking /\ pc \in SiiPlaces /\ InLoop /\ UNCHANGED <<bus, assigned, printed, printMAP>>
        /\ \/ pc' \in SiiPlaces /\ cnt' = cnt
           \/ pc' \in {"general", "idle"}
    BY <1>7 DEF FindSection, SectionDone, NextSlave, Close, InLoop, Walking, SiiPlaces
  <2>2. Mapped' = Mapped
    BY <2>1 DEF Mapped
  <2> QED
    BY <1>0, <2>1, <2>2 DEF PlaceInv, Walking, CoePlaces, SiiPlaces
<1>8. CASE ReadSiiPdo
  <2>1. /\ Walking /\ pc \in SiiPlaces /\ InLoop /\ UNCHANGED <<bus, assigned, printMAP>>
        /\ \/ pc' \in SiiPlaces /\ cnt' = cnt
           \/ pc' \in {"general", "idle"}
    BY <1>8 DEF ReadSiiPdo, SectionDone, NextSlave, Close, InLoop, Walking, SiiPlaces
  <2>2. Mapped' = Mapped
    BY <2>1 DEF Mapped
  <2>3. printed' \in [SlaveId -> [Dir -> Seq(PrintedLine)]]
    <3>1. dir \in Dir /\ bo[dir] \in Nat
      BY DEF Typing, TypeOK
    <3>2. Head(unread) \in SiiPdo
      BY <1>8, SectionWalk DEF ReadSiiPdo
    <3>3. Lines(Head(unread)) \in Seq(PrintedLine)
      BY <1>0, <2>1, <3>1, <3>2, LinesType
    <3>4. \/ printed' = printed
          \/ printed' = [printed EXCEPT ![cnt][dir] = @ \o Lines(Head(unread))]
      BY <1>8 DEF ReadSiiPdo
    <3>5. \A x, y \in Seq(PrintedLine) : x \o y \in Seq(PrintedLine)
      OBVIOUS
    <3>6. printed[cnt][dir] \o Lines(Head(unread)) \in Seq(PrintedLine)
      BY <1>0, <2>1, <3>1, <3>3, <3>5 DEF PlaceInv
    <3>7. PICK y \in Seq(PrintedLine) : \/ printed' = printed
                                        \/ printed' = [printed EXCEPT ![cnt][dir] = y]
      BY <3>4, <3>6, Zenon
    <3>8. printed \in [SlaveId -> [Dir -> Seq(PrintedLine)]] /\ cnt \in SlaveId
      BY <1>0, <2>1 DEF PlaceInv
    <3>9. [printed EXCEPT ![cnt][dir] = y] \in [SlaveId -> [Dir -> Seq(PrintedLine)]]
      BY <3>1, <3>8
    <3> QED
      BY <3>7, <3>8, <3>9
  <2> QED
    BY <1>0, <2>1, <2>2, <2>3 DEF PlaceInv, Walking, CoePlaces, SiiPlaces
<1>9. CASE Destroy
  BY <1>9 DEF Destroy, PlaceInv, Mapped, InLoop, Walking, CoePlaces, SiiPlaces
<1>10. CASE UNCHANGED vars
  BY <1>10 DEF vars, PlaceInv, Mapped, InLoop, Walking, CoePlaces, SiiPlaces
<1> QED
  BY <1>1, <1>2, <1>3, <1>4, <1>5, <1>6, <1>7, <1>8, <1>9, <1>10 DEF Next, Step

\* The workaround is on exactly behind a first sync manager that asks for it.
LEMMA BugStep ==
    ASSUME Typing, PlaceInv, BugInv, [Next]_vars
    PROVE  BugInv'
<1>1. CASE General
  <2>1. bugAdd' = 0 /\ pc' \in {"count", "section", "general", "idle"}
    BY <1>1 DEF General, NextSlave, Close
  <2> QED
    BY <2>1 DEF BugInv, CoePlaces
<1>2. CASE CountSM
  <2>1. /\ pc = "count" /\ pc' = "type" /\ UNCHANGED <<bus, cnt, bugAdd>>
        /\ cnt \notin damaged' => sms' = SyncManagers(cnt)
    BY <1>2 DEF CountSM, Upload
  <2>2. SyncManagers(cnt)' = SyncManagers(cnt)
    BY <2>1 DEF SyncManagers
  <2>3. sms' \in Seq(SyncManager)
    BY TypingStep DEF Typing, WalkInv
  <2>4. Len(sms') <= Len(sms')
    BY <2>3
  <2> QED
    BY <2>1, <2>2, <2>4 DEF BugInv
<1>3. CASE ReadType
  <2>1. PICK ok \in BOOLEAN :
           /\ Upload(ok)
           /\ bugAdd' = IF ok
                        THEN IF sms = SyncManagers(cnt) /\ Head(sms).type = 2 THEN 1 ELSE bugAdd
                        ELSE bugAdd
    BY <1>3 DEF ReadType
  <2>2. /\ pc = "type" /\ pc' \in {"type", "assign"} /\ sms # <<>> /\ sms' = Tail(sms)
        /\ UNCHANGED <<bus, cnt>>
    BY <1>3 DEF ReadType
  <2>3. SUFFICES ASSUME cnt \notin damaged'
                 PROVE  /\ Len(sms') <= Len(SyncManagers(cnt)) /\ sms' # SyncManagers(cnt)
                        /\ bugAdd' = Workaround(cnt)
    BY <2>2 DEF BugInv, SyncManagers, Workaround
  <2>4. ok /\ cnt \notin damaged
    BY <2>1, <2>3 DEF Upload
  <2>5. /\ Len(sms) <= Len(SyncManagers(cnt))
        /\ IF sms = SyncManagers(cnt) THEN bugAdd = 0 ELSE bugAdd = Workaround(cnt)
    BY <2>2, <2>4 DEF BugInv, CoePlaces
  <2>6. bus[cnt].sms \in Seq(SyncManager)
    BY <1>3, SlaveType DEF Dir, Typing, WalkInv, InLoop, ReadType
  <2>7. SyncManagers(cnt) \in Seq(SyncManager) /\ Len(SyncManagers(cnt)) \in Nat
    BY <2>6 DEF SyncManagers, EC_MAXSM
  <2>8. Len(Tail(sms)) < Len(SyncManagers(cnt)) /\ Len(Tail(sms)) \in Nat
    <3>1. sms \in Seq(SyncManager)
      BY DEF Typing, WalkInv
    <3>2. Len(Tail(sms)) = Len(sms) - 1 /\ Len(sms) \in Nat /\ Len(sms) # 0
      BY <2>2, <3>1
    <3> QED
      BY <2>5, <2>7, <3>2
  <2>9. sms = SyncManagers(cnt) => Head(sms) = bus[cnt].sms[1]
    <3>1. SUFFICES ASSUME SyncManagers(cnt) # <<>> PROVE Head(SyncManagers(cnt)) = bus[cnt].sms[1]
      BY <2>2
    <3> QED
      BY <2>6, <3>1 DEF SyncManagers, EC_MAXSM
  <2>10. bugAdd' = Workaround(cnt)
    BY <2>1, <2>4, <2>5, <2>9 DEF Workaround
  <2> QED
    BY <2>2, <2>7, <2>8, <2>10
<1>4. CASE CountPdo \/ ReadPdo \/ ReadEntry
  <2>1. /\ pc \in CoePlaces \ {"count"} /\ pc' \in CoePlaces \ {"count"}
        /\ UNCHANGED <<bus, cnt, bugAdd, sms>> /\ damaged \subseteq damaged'
    BY <1>4 DEF CountPdo, ReadPdo, ReadEntry, Upload, CoePlaces
  <2>2. SyncManagers(cnt)' = SyncManagers(cnt) /\ Workaround(cnt)' = Workaround(cnt)
    BY <2>1 DEF SyncManagers, Workaround
  <2> QED
    BY <2>1, <2>2 DEF BugInv
<1>5. CASE Begin \/ Config \/ SdoDone \/ FindSection \/ ReadSiiPdo \/ Destroy
  <2>1. pc' \notin CoePlaces
    BY <1>5 DEF Begin, Config, SdoDone, FindSection, ReadSiiPdo, Destroy, SectionDone,
                NextSlave, Close, CoePlaces
  <2> QED
    BY <2>1 DEF BugInv, CoePlaces
<1>6. CASE UNCHANGED vars
  BY <1>6 DEF vars, BugInv, SyncManagers, Workaround
<1> QED
  BY <1>1, <1>2, <1>3, <1>4, <1>5, <1>6 DEF Next, Step

\* A step within slave cnt that prints nothing and leaves the same entries.
LEMMA WalkStays ==
    ASSUME Typing, Listed, Walking, Walking',
           UNCHANGED <<bus, assigned, printMAP, cnt, printed, bo>>,
           \A k \in damaged : k \in damaged',
           \A d \in Dir : Sound(cnt, d) /\ cnt \notin damaged' => Left(d)' = Left(d)
    PROVE  ListInv'
<1>1. printMAP /\ cnt \in SlaveId
  <2>1. InLoop
    BY DEF InLoop, Walking, CoePlaces, SiiPlaces
  <2> QED
    BY <2>1 DEF Listed, PlaceInv, Typing, WalkInv
<1>2. ASSUME NEW d \in Dir, Sound(cnt, d), cnt \notin damaged'
      PROVE  Covers(cnt, d, printed'[cnt][d], bo'[d], Left(d)')
  BY <1>1, <1>2 DEF Listed, ListInv
<1> QED
  BY <1>1, <1>2, WalkGoesOn DEF Listed

\* What is left stays left while the bus does.
LEMMA LeftStays ==
    ASSUME UNCHANGED <<bus, assigned, cnt>>
    PROVE  /\ \A k, q, d : PdosOf(k, q, d)' = PdosOf(k, q, d)
           /\ \A d : InSms(d)' = FlattenSeq(PdosOf(cnt, sms', d))
           /\ \A d : Entries(cnt, d)' = Entries(cnt, d)
<1>1. \A k, q, d : PdosOf(k, q, d)' = PdosOf(k, q, d)
  BY DEF PdosOf, Workaround
<1>2. ASSUME NEW d PROVE InSms(d)' = FlattenSeq(PdosOf(cnt, sms', d))
  BY DEF InSms, PdosOf, Workaround
<1> QED
  BY <1>1, <1>2, LayoutStays

\* The first loops over the dictionary print nothing; what they go past is not in the
\* image.
LEMMA SdoListed ==
    ASSUME Typing, Listed, CountSM \/ ReadType \/ CountPdo \/ ReadPdo
    PROVE  ListInv'
<1>0. /\ Walking /\ Walking' /\ pc \in CoePlaces /\ bus[cnt].coe /\ cnt \in SlaveId
      /\ UNCHANGED <<bus, assigned, printMAP, cnt, printed, bo>>
      /\ assigned = Mapped
      /\ sms \in Seq(SyncManager) /\ pdos \in Seq(Seq(Entry)) /\ entries \in Seq(Entry)
  <2>1. /\ Walking /\ Walking' /\ pc \in CoePlaces /\ InLoop
        /\ UNCHANGED <<bus, assigned, printMAP, cnt, printed, bo>>
    BY DEF CountSM, ReadType, CountPdo, ReadPdo, Walking, CoePlaces, InLoop
  <2> QED
    BY <2>1 DEF Listed, PlaceInv, Typing, WalkInv
<1>1. \A k \in damaged : k \in damaged'
  BY DEF CountSM, ReadType, CountPdo, ReadPdo, Upload
<1>2. SUFFICES ASSUME NEW d \in Dir, Sound(cnt, d), cnt \notin damaged'
               PROVE  Left(d)' = Left(d)
  BY <1>0, <1>1, WalkStays
<1>3. \A x, y, z \in Seq(Entry) : (x \o y) \o z = x \o (y \o z) /\ <<>> \o x = x
  BY JoinedTwice
<1>4. InSms(d) \in Seq(Entry)
  BY LeftType DEF Listed
<1>5. CASE CountSM
  <2>1. pc = "count" /\ pc' = "type" /\ sms' = SyncManagers(cnt)
    BY <1>2, <1>5 DEF CountSM, Upload
  <2>2. Left(d)' = FlattenSeq(PdosOf(cnt, sms', d))
    BY <1>0, <2>1, LeftStays DEF Left
  <2>3. Left(d) = Entries(cnt, d)
    BY <2>1 DEF Left
  <2>4. Entries(cnt, d) = FlattenSeq(PdosOf(cnt, SyncManagers(cnt), d))
    BY <1>0, <1>2, CoeEntries DEF Sound
  <2> QED
    BY <2>1, <2>2, <2>3, <2>4
<1>6. CASE ReadType
  <2> DEFINE bug == IF sms = SyncManagers(cnt) /\ Head(sms).type = 2 THEN 1 ELSE bugAdd
             type == SmType(Head(sms).type, bug)
  <2>1. /\ pc = "type" /\ sms # <<>> /\ sms' = Tail(sms) /\ bugAdd' = bug
        /\ IF type \in {3, 4}
           THEN pc' = "assign" /\ dir' = DirOf(type) /\ pdos' = Head(sms).pdos
           ELSE pc' = pc
    BY <1>2, <1>6 DEF ReadType, Upload
  <2>2. bug = Workaround(cnt)
    <3>1. BugInv'
      BY <1>6, BugStep DEF Listed, Next, Step
    <3>2. /\ pc' \in CoePlaces \ {"count"} /\ sms' # SyncManagers(cnt)'
      <4>1. Len(sms) <= Len(SyncManagers(cnt))
        BY <1>1, <1>2, <2>1 DEF Listed, BugInv, CoePlaces
      <4>2. SyncManagers(cnt)' = SyncManagers(cnt)
        BY <1>0 DEF SyncManagers
      <4>3. Len(Tail(sms)) < Len(sms) /\ Len(Tail(sms)) \in Nat /\ Len(sms) \in Nat
        BY <1>0, <2>1
      <4>4. SyncManagers(cnt) \in Seq(SyncManager)
        <5>1. bus[cnt].sms \in Seq(SyncManager)
          BY <1>0, SlaveType DEF Dir
        <5> QED
          BY <5>1 DEF SyncManagers, EC_MAXSM
      <4>5. Len(SyncManagers(cnt)) \in Nat
        BY <4>4
      <4>6. Tail(sms) # SyncManagers(cnt)
        BY <4>1, <4>3, <4>5
      <4> QED
        BY <2>1, <4>2, <4>6 DEF CoePlaces
    <3>3. bugAdd' = Workaround(cnt)'
      BY <1>0, <1>2, <3>1, <3>2 DEF BugInv
    <3> QED
      BY <1>0, <2>1, <3>3 DEF Workaround
  <2>3. Left(d) = (IF type = Wanted(d) THEN FlattenSeq(Head(sms).pdos) ELSE <<>>)
                  \o FlattenSeq(PdosOf(cnt, Tail(sms), d))
    BY <1>0, <2>1, <2>2, PdosStep DEF Left, InSms
  <2>4. InSms(d)' = FlattenSeq(PdosOf(cnt, Tail(sms), d))
    BY <1>0, <2>1, LeftStays
  <2>5. FlattenSeq(PdosOf(cnt, Tail(sms), d)) \in Seq(Entry)
    BY <1>0, <2>1, HeadTail, PdosStep
  <2>6. Wanted(d) \in {3, 4} /\ \A x \in {3, 4} : d = DirOf(x) <=> x = Wanted(d)
    BY DEF Wanted, DirOf, Dir
  <2> HIDE DEF type
  <2>7. CASE type \in {3, 4}
    <3>1. Left(d)' = IF type = Wanted(d) THEN FlattenSeq(Head(sms).pdos) \o InSms(d)'
                                         ELSE InSms(d)'
      BY <2>1, <2>6, <2>7 DEF Left, InPdos
    <3> QED
      BY <1>3, <2>3, <2>4, <2>5, <3>1
  <2>8. CASE type \notin {3, 4}
    <3>1. Left(d)' = InSms(d)' /\ type # Wanted(d)
      BY <2>1, <2>6, <2>8 DEF Left
    <3> QED
      BY <1>3, <2>3, <2>4, <2>5, <3>1
  <2> QED
    BY <2>7, <2>8
<1>7. CASE CountPdo
  <2>1. pc = "assign" /\ pc' = "pdo" /\ UNCHANGED <<pdos, sms, dir>>
    BY <1>2, <1>7 DEF CountPdo, Upload
  <2>2. InSms(d)' = InSms(d)
    BY <1>0, <2>1, LeftStays DEF InSms
  <2> QED
    BY <2>1, <2>2 DEF Left, InPdos
<1>8. CASE ReadPdo
  <2>1. pc = "pdo" /\ UNCHANGED <<sms, dir>> /\ Left(d) = InPdos(d)
    BY <1>8 DEF ReadPdo, Left
  <2>2. InSms(d)' = InSms(d)
    BY <1>0, <2>1, LeftStays DEF InSms
  <2>3. CASE pdos = <<>>
    <3>1. pc' = "type" /\ Left(d)' = InSms(d)'
      BY <1>8, <2>3 DEF ReadPdo, Left
    <3>2. FlattenSeq(pdos) \o InSms(d) = InSms(d)
      <4>1. FlattenSeq(<<>>) = <<>>
        BY DEF FlattenSeq
      <4> QED
        BY <1>3, <1>4, <2>3, <4>1
    <3> QED
      BY <2>1, <2>2, <3>1, <3>2 DEF InPdos
  <2>4. CASE pdos # <<>>
    <3>1. pc' = "entry" /\ entries' = Head(pdos) /\ pdos' = Tail(pdos)
      BY <1>2, <1>8, <2>4 DEF ReadPdo, Upload
    <3>2. FlattenSeq(pdos) = Head(pdos) \o FlattenSeq(Tail(pdos))
      BY <1>0, <2>4, FlattenCons
    <3>3. Head(pdos) \in Seq(Entry) /\ FlattenSeq(Tail(pdos)) \in Seq(Entry)
      BY <1>0, <2>4, HeadTail, Flattened
    <3>4. Left(d)' = IF d = dir THEN Head(pdos) \o (FlattenSeq(Tail(pdos)) \o InSms(d))
                                ELSE InSms(d)
      BY <2>1, <2>2, <3>1 DEF Left, InEntries, InPdos
    <3>5. (Head(pdos) \o FlattenSeq(Tail(pdos))) \o InSms(d)
             = Head(pdos) \o (FlattenSeq(Tail(pdos)) \o InSms(d))
      BY <1>3, <1>4, <3>3
    <3> QED
      BY <2>1, <3>2, <3>4, <3>5 DEF InPdos
  <2> QED
    BY <2>3, <2>4
<1> QED
  BY <1>5, <1>6, <1>7, <1>8

\* An entry of the dictionary is printed with its bit.
LEMMA EntryListed ==
    ASSUME Typing, Listed, ReadEntry
    PROVE  ListInv'
<1>0. /\ Walking /\ Walking' /\ bus[cnt].coe /\ cnt \in SlaveId /\ printMAP /\ dir \in Dir
      /\ pc = "entry" /\ assigned = Mapped /\ AssignedType
      /\ UNCHANGED <<bus, assigned, printMAP, cnt, dir, sms, pdos>>
      /\ entries \in Seq(Entry) /\ bo \in [Dir -> Nat]
      /\ printed \in [SlaveId -> [Dir -> Seq(PrintedLine)]]
  <2>1. /\ Walking /\ Walking' /\ pc \in CoePlaces /\ InLoop /\ pc = "entry"
        /\ UNCHANGED <<bus, assigned, printMAP, cnt, dir, sms, pdos>>
    BY DEF ReadEntry, Walking, CoePlaces, InLoop
  <2> QED
    BY <2>1, MappedType DEF Listed, PlaceInv, Typing, TypeOK, WalkInv
<1>1. \A k \in damaged : k \in damaged'
  BY DEF ReadEntry, Upload
<1>2. \A x, y, z \in Seq(Entry) : (x \o y) \o z = x \o (y \o z) /\ <<>> \o x = x
  BY JoinedTwice
<1>3. ASSUME NEW d \in Dir PROVE InPdos(d)' = InPdos(d) /\ InPdos(d) \in Seq(Entry)
  <2>1. InSms(d)' = InSms(d)
    BY <1>0, LeftStays DEF InSms
  <2> QED
    BY <1>0, <2>1, LeftType DEF Listed, InPdos
<1>4. CASE entries = <<>>
  <2>1. pc' = "pdo" /\ UNCHANGED <<printed, bo>>
    BY <1>4 DEF ReadEntry
  <2>2. ASSUME NEW d \in Dir PROVE Left(d)' = Left(d)
    <3>1. Left(d)' = InPdos(d) /\ Left(d) = InEntries(d)
      BY <1>0, <1>3, <2>1 DEF Left
    <3>2. InEntries(d) = InPdos(d)
      BY <1>2, <1>3, <1>4 DEF InEntries
    <3> QED
      BY <3>1, <3>2
  <2> QED
    BY <1>0, <1>1, <2>1, <2>2, WalkStays
<1>5. CASE entries # <<>>
  <2>1. PICK ok \in BOOLEAN :
           LET en == IF ok THEN Head(entries) ELSE [obj |-> 0, bits |-> 0]
           IN /\ Upload(ok)
              /\ printed' = [printed EXCEPT ![cnt][dir] = Append(@, Line(en, dir, bo[dir]))]
              /\ bo' = [bo EXCEPT ![dir] = @ + en.bits]
    BY <1>5 DEF ReadEntry
  <2>2. pc' = "entry" /\ entries' = Tail(entries)
    BY <1>0, <1>5 DEF ReadEntry
  <2>3. \A k \in SlaveId : k # cnt => printed'[k] = printed[k]
    BY <1>0, <2>1
  <2>4. ASSUME NEW d \in Dir, Sound(cnt, d), cnt \notin damaged'
        PROVE  Covers(cnt, d, printed'[cnt][d], bo'[d], Left(d)')
    <3>1. Covers(cnt, d, printed[cnt][d], bo[d], Left(d))
      BY <1>0, <2>4 DEF Listed, ListInv
    <3>2. CASE d # dir
      <4>1. Left(d)' = Left(d)
        BY <1>0, <1>3, <2>2, <3>2 DEF Left, InEntries
      <4>2. printed'[cnt][d] = printed[cnt][d] /\ bo'[d] = bo[d]
        BY <1>0, <2>1, <3>2
      <4> QED
        BY <3>1, <4>1, <4>2
    <3>3. CASE d = dir
      <4>1. PICK en \in Entry, rest \in Seq(Entry) : en = Head(entries) /\ rest = Tail(entries)
        BY <1>0, <1>5, HeadTail
      <4>2. entries = <<en>> \o rest
        BY <1>0, <1>5, <4>1
      <4>3. ok
        BY <2>1, <2>4 DEF Upload
      <4>4. bo'[d] = bo[d] + en.bits
        BY <1>0, <2>1, <3>3, <4>1, <4>3
      <4>5. printed'[cnt][d] = Append(printed[cnt][d], Line(en, d, bo[d]))
        BY <1>0, <2>1, <3>3, <4>1, <4>3
      <4>6. PICK later \in Seq(Entry) : later = rest \o InPdos(d)
        <5>1. \A x, y \in Seq(Entry) : x \o y \in Seq(Entry)
          OBVIOUS
        <5> QED
          BY <1>3, <4>1, <5>1
      <4>7. Left(d)' = later
        BY <1>0, <1>3, <2>2, <3>3, <4>1, <4>6 DEF Left, InEntries
      <4>8. Left(d) = <<en>> \o later
        <5>1. <<en>> \in Seq(Entry)
          OBVIOUS
        <5>2. Left(d) = (<<en>> \o rest) \o InPdos(d)
          BY <1>0, <3>3, <4>2 DEF Left, InEntries
        <5> QED
          BY <1>2, <1>3, <4>1, <4>6, <5>1, <5>2
      <4>9. Line(en, d, bo[d]) = [obj |-> en.obj, bit |-> IOmapStart(cnt, d) + bo[d]]
        <5>1. 8 * MapOffset(d) = IOmapStart(cnt, d)
          BY <1>0, <2>4, StartType DEF Sound, MapOffset
        <5> QED
          BY <5>1 DEF Line
      <4>10. /\ SumBits(<<en>>) = en.bits
             /\ Listing(cnt, <<en>>, IOmapStart(cnt, d) + bo[d]) = <<Line(en, d, bo[d])>>
        <5>1. IOmapStart(cnt, d) + bo[d] \in Nat
          BY <1>0, StartType
        <5> QED
          BY <1>0, <4>9, <5>1, ListingShort
      <4>11. <<en>> \in Seq(Entry)
        OBVIOUS
      <4>12. /\ printed[cnt][d] \in Seq(PrintedLine)
             /\ Covers(cnt, d,
                       printed[cnt][d] \o Listing(cnt, <<en>>, IOmapStart(cnt, d) + bo[d]),
                       bo[d] + SumBits(<<en>>), later)
        BY <1>0, <3>1, <4>6, <4>8, <4>11, CoversMore
      <4>13. Line(en, d, bo[d]) \in PrintedLine
        BY <1>0, LinesType
      <4>14. \A x \in Seq(PrintedLine) : \A y \in PrintedLine : Append(x, y) = x \o <<y>>
        OBVIOUS
      <4>15. printed'[cnt][d] = printed[cnt][d] \o <<Line(en, d, bo[d])>>
        BY <4>5, <4>12, <4>13, <4>14
      <4> QED
        BY <4>4, <4>7, <4>10, <4>12, <4>15
    <3> QED
      BY <3>2, <3>3
  <2> QED
    BY <1>0, <1>1, <2>3, <2>4, WalkGoesOn DEF Listed
<1> QED
  BY <1>4, <1>5

\* The end of a section leaves the other one, or nothing.
LEMMA SectionsListed ==
    ASSUME Typing, Listed, pc \in SiiPlaces, SectionDone,
           UNCHANGED <<bus, assigned, printMAP>>,
           \A k \in damaged : k \in damaged',
           \A k \in SlaveId : k # cnt => printed'[k] = printed[k],
           \A d \in Dir : Sound(cnt, d) =>
              Covers(cnt, d, printed'[cnt][d], bo'[d],
                     IF d = dir THEN <<>> ELSE InSections(d))
    PROVE  ListInv'
<1>1. printMAP /\ cnt \in SlaveId /\ AssignedType /\ dir \in Dir
  <2>1. InLoop /\ Walking
    BY DEF InLoop, Walking, SiiPlaces
  <2> QED
    BY <2>1, MappedType DEF Listed, PlaceInv, Typing, TypeOK, WalkInv
<1>2. CASE dir = "out"
  <2>1. dir' = "in" /\ pc' = "section" /\ UNCHANGED <<cnt, sock>>
    BY <1>2 DEF SectionDone
  <2>2. Walking'
    BY <2>1 DEF Walking, SiiPlaces
  <2>3. ASSUME NEW d \in Dir
        PROVE  Left(d)' = IF d = dir THEN <<>> ELSE InSections(d)
    <3>1. Left(d)' = IF d = "out" THEN <<>> ELSE Entries(cnt, d)
      BY <2>1, LeftStays DEF Left, InSections
    <3> QED
      BY <1>2, <3>1 DEF InSections
  <2> QED
    BY <1>1, <2>1, <2>2, <2>3, WalkGoesOn DEF Listed
<1>3. CASE dir # "out"
  <2>1. dir = "in" /\ cnt' = cnt + 1 /\ pc' \in {"general", "idle"}
    BY <1>1, <1>3 DEF SectionDone, NextSlave, Close, Dir
  <2>2. ~Walking'
    BY <2>1 DEF Walking, CoePlaces, SiiPlaces
  <2>3. ASSUME NEW d \in Dir, Sound(cnt, d) PROVE printed'[cnt][d] = Expected(cnt, d)
    <3>1. Covers(cnt, d, printed'[cnt][d], bo'[d], <<>>)
      BY <2>1, <2>3 DEF InSections, Dir
    <3>2. <<>> \in Seq(Entry)
      OBVIOUS
    <3> QED
      BY <1>1, <3>1, <3>2, CoversWhole
  <2> QED
    BY <1>1, <2>1, <2>2, <2>3, WalkPasses DEF Listed
<1> QED
  BY <1>2, <1>3

\* The walk over the EEPROM prints what SOEM mapped from it.
LEMMA SiiListed ==
    ASSUME Typing, Listed, FindSection \/ ReadSiiPdo
    PROVE  ListInv'
<1>0. /\ Walking /\ pc \in SiiPlaces /\ ~bus[cnt].coe /\ cnt \in SlaveId /\ printMAP
      /\ dir \in Dir /\ assigned = Mapped /\ AssignedType
      /\ UNCHANGED <<bus, assigned, printMAP, damaged>>
      /\ bo \in [Dir -> Nat] /\ printed \in [SlaveId -> [Dir -> Seq(PrintedLine)]]
  <2>1. /\ Walking /\ pc \in SiiPlaces /\ pc \notin CoePlaces /\ InLoop
        /\ UNCHANGED <<bus, assigned, printMAP, damaged>>
    BY DEF FindSection, ReadSiiPdo, Walking, CoePlaces, SiiPlaces, InLoop
  <2> QED
    BY <2>1, MappedType DEF Listed, PlaceInv, Typing, TypeOK, WalkInv
<1>1. ASSUME NEW d \in Dir, Sound(cnt, d)
      PROVE  Covers(cnt, d, printed[cnt][d], bo[d], Left(d))
  BY <1>0, <1>1 DEF Listed, ListInv
<1>2. Entries(cnt, dir) = IF Section.present THEN SectionLeft(Section, 0) ELSE <<>>
  BY <1>0, MappedType DEF Section
<1>3. InSections(dir) = Entries(cnt, dir)
  BY DEF InSections
<1>4. CASE FindSection
  <2>1. pc = "section" /\ UNCHANGED <<printed, bo>> /\ nPDO' = 0
    BY <1>4 DEF FindSection
  <2>2. ASSUME NEW d \in Dir PROVE Left(d) = InSections(d)
    BY <2>1 DEF Left
  <2>3. CASE Section.present
    <3>1. pc' = "siiPdo" /\ UNCHANGED <<dir, cnt>>
      BY <1>4, <2>3 DEF FindSection
    <3>2. Section' = Section
      BY <1>0, <3>1 DEF Section
    <3>3. ASSUME NEW d \in Dir PROVE Left(d)' = Left(d)
      <4>1. InSections(d)' = InSections(d)
        BY <1>0, <3>1, LeftStays DEF InSections
      <4>2. Left(d)' = IF d = dir THEN SectionLeft(Section, 0) ELSE InSections(d)
        BY <2>1, <3>1, <3>2, <4>1 DEF Left, InSection
      <4> QED
        BY <1>2, <1>3, <2>2, <2>3, <4>2
    <3>4. Walking'
      BY <3>1 DEF Walking, SiiPlaces
    <3> QED
      BY <1>0, <2>1, <3>1, <3>3, <3>4, WalkStays
  <2>4. CASE ~Section.present
    <3>1. SectionDone
      BY <1>4, <2>4 DEF FindSection
    <3>2. ASSUME NEW d \in Dir
          PROVE  Left(d) = IF d = dir THEN <<>> ELSE InSections(d)
      BY <1>2, <1>3, <2>2, <2>4
    <3>3. ASSUME NEW d \in Dir, Sound(cnt, d)
          PROVE  Covers(cnt, d, printed'[cnt][d], bo'[d], IF d = dir THEN <<>> ELSE InSections(d))
      BY <1>1, <2>1, <3>2, <3>3
    <3> QED
      BY <1>0, <2>1, <3>1, <3>3, SectionsListed
  <2> QED
    BY <2>3, <2>4
<1>5. CASE ReadSiiPdo
  <2> DEFINE p == Head(unread)
             n == nPDO + 1
             rest == SectionLeft(Section, n)
  <2>1. /\ pc = "siiPdo" /\ nPDO' = n
        /\ IF Active(p)
           THEN /\ printed' = [printed EXCEPT ![cnt][dir] = @ \o Lines(p)]
                /\ bo' = [bo EXCEPT ![dir] = @ + SumBits(p.entries)]
           ELSE UNCHANGED <<printed, bo>>
        /\ IF More(p) THEN UNCHANGED <<pc, dir, cnt>> ELSE SectionDone
    BY <1>5 DEF ReadSiiPdo
  <2>2. /\ Section \in PdoSection /\ Section.present
        /\ n \in 1 .. LastPdo(Section) /\ LastPdo(Section) \in 1 .. Len(Section.pdos)
        /\ p \in SiiPdo /\ p = Section.pdos[n]
        /\ More(p) <=> n < LastPdo(Section)
    BY <2>1, SectionWalk
  <2>3. nPDO \in Nat
    BY DEF Typing, TypeOK
  <2> HIDE DEF p
  <2>4. /\ nPDO \in 0 .. LastPdo(Section) /\ nPDO < LastPdo(Section) /\ n \in 0 .. LastPdo(Section)
        /\ ~More(p) => n = LastPdo(Section)
    BY <2>2, <2>3
  <2>5. SectionLeft(Section, nPDO) = (IF Active(p) THEN p.entries ELSE <<>>) \o rest
    BY <2>2, <2>4, SectionStep
  <2>6. rest \in Seq(Entry) /\ (~More(p) => rest = <<>>)
    BY <2>2, <2>4, SectionStep
  <2> HIDE DEF n, rest
  <2>7. \A k \in SlaveId : k # cnt => printed'[k] = printed[k]
    BY <1>0, <2>1
  <2>8. p.entries \in Seq(Entry)
    BY <2>2 DEF SiiPdo
  <2>9. ASSUME NEW d \in Dir, Sound(cnt, d)
        PROVE  Covers(cnt, d, printed'[cnt][d], bo'[d], IF d = dir THEN rest ELSE InSections(d))
    <3>1. Covers(cnt, d, printed[cnt][d], bo[d],
                 IF d = dir THEN SectionLeft(Section, nPDO) ELSE InSections(d))
      BY <1>1, <2>1, <2>9 DEF Left, InSection
    <3>2. CASE d # dir
      <4>1. printed'[cnt][d] = printed[cnt][d] /\ bo'[d] = bo[d]
        BY <1>0, <2>1, <3>2
      <4> QED
        BY <3>1, <3>2, <4>1
    <3>3. CASE d = dir /\ ~Active(p)
      <4>1. <<>> \o rest = rest
        <5>1. \A x \in Seq(Entry) : <<>> \o x = x
          BY JoinedTwice
        <5> QED
          BY <2>6, <5>1
      <4>2. UNCHANGED <<printed, bo>>
        BY <2>1, <3>3
      <4> QED
        BY <2>5, <3>1, <3>3, <4>1, <4>2
    <3>4. CASE d = dir /\ Active(p)
      <4>1. Covers(cnt, d, printed[cnt][d], bo[d], p.entries \o rest)
        BY <2>5, <3>1, <3>4
      <4>2. Covers(cnt, d,
                   printed[cnt][d] \o Listing(cnt, p.entries, IOmapStart(cnt, d) + bo[d]),
                   bo[d] + SumBits(p.entries), rest)
        BY <1>0, <2>6, <2>8, <4>1, CoversMore
      <4>3. Lines(p) = Listing(cnt, p.entries, IOmapStart(cnt, d) + bo[d])
        <5>1. bo[dir] \in Nat /\ IOmapStart(cnt, dir) % 8 = 0
          BY <1>0, <2>9, <3>4 DEF Sound
        <5> QED
          BY <1>0, <2>2, <3>4, <5>1, LinesListed
      <4>4. /\ printed'[cnt][d] = printed[cnt][d] \o Lines(p)
            /\ bo'[d] = bo[d] + SumBits(p.entries)
        BY <1>0, <2>1, <3>4
      <4> QED
        BY <3>4, <4>2, <4>3, <4>4
    <3> QED
      BY <3>2, <3>3, <3>4
  <2>10. CASE More(p)
    <3>1. UNCHANGED <<pc, dir, cnt>>
      BY <2>1, <2>10
    <3>2. Section' = Section
      BY <1>0, <3>1 DEF Section
    <3>3. ASSUME NEW d \in Dir
          PROVE  Left(d)' = IF d = dir THEN rest ELSE InSections(d)
      <4>1. InSections(d)' = InSections(d)
        BY <1>0, <3>1, LeftStays DEF InSections
      <4> QED
        BY <2>1, <3>1, <3>2, <4>1 DEF Left, InSection, rest
    <3>4. Walking'
      BY <1>0, <3>1 DEF Walking
    <3> QED
      BY <1>0, <2>7, <2>9, <3>1, <3>3, <3>4, WalkGoesOn DEF Listed
  <2>11. CASE ~More(p)
    <3>1. SectionDone
      BY <2>1, <2>11
    <3> QED
      BY <1>0, <2>6, <2>7, <2>9, <2>11, <3>1, SectionsListed
  <2> QED
    BY <2>10, <2>11
<1> QED
  BY <1>4, <1>5

\* Every step lists what it goes past.
LEMMA ListStep ==
    ASSUME Typing, Listed, [Next]_vars
    PROVE  ListInv'
<1>0. InLoop => cnt \in SlaveId /\ AssignedType
  BY MappedType DEF Listed, PlaceInv, Typing, WalkInv
<1>1. CASE Begin
  <2>1. cnt' = 1 /\ ~Walking' /\ printed' = [k \in SlaveId |-> NothingYet]
    BY <1>1 DEF Begin, Walking, CoePlaces, SiiPlaces
  <2>2. \A k \in SlaveId, d \in Dir : printed'[k][d] = <<>> /\ ~ (k < 1)
    BY <2>1 DEF NothingYet, SlaveId
  <2> QED
    BY <2>1, <2>2 DEF ListInv
<1>2. CASE Config
  <2>1. /\ cnt = 1 /\ cnt' = 1 /\ ~Walking /\ ~Walking' /\ UNCHANGED <<printed, printMAP>>
    BY <1>2 DEF Config, Close, Walking, CoePlaces, SiiPlaces, Listed, PlaceInv
  <2>2. \A k \in SlaveId : (k > 1 \/ k = 1) /\ ~ (k < 1)
    BY DEF SlaveId
  <2>3. \A k \in SlaveId, d \in Dir : printed'[k][d] = <<>>
    BY <2>1, <2>2 DEF Listed, ListInv
  <2> QED
    BY <2>1, <2>2, <2>3 DEF ListInv
<1>3. CASE General
  <2>1. /\ InLoop /\ ~Walking /\ UNCHANGED <<bus, assigned, printed, printMAP, damaged>>
        /\ bo' = NoBits /\ dir' = "out"
    BY <1>3 DEF General, InLoop, Walking, CoePlaces, SiiPlaces
  <2>2. \A d \in Dir : printed[cnt][d] = <<>>
    BY <1>0, <2>1 DEF Listed, ListInv
  <2>3. CASE printMAP
    <3>1. cnt' = cnt /\ pc' = IF bus[cnt].coe THEN "count" ELSE "section"
      BY <1>3, <2>3 DEF General
    <3>2. Walking'
      BY <3>1 DEF Walking, CoePlaces, SiiPlaces
    <3>3. ASSUME NEW d \in Dir PROVE Left(d)' = Entries(cnt, d)
      BY <2>1, <3>1, LeftStays DEF Left, InSections
    <3>4. ASSUME NEW d \in Dir PROVE Covers(cnt, d, printed'[cnt][d], bo'[d], Left(d)')
      <4>1. printed'[cnt][d] = <<>> /\ bo'[d] = 0
        BY <2>1, <2>2 DEF NoBits
      <4> QED
        BY <1>0, <2>1, <3>3, <4>1, CoversNone
    <3> QED
      BY <1>0, <2>1, <2>3, <3>1, <3>2, <3>4, WalkGoesOn DEF Listed
  <2>4. CASE ~printMAP
    <3>1. cnt' = cnt + 1 /\ ~Walking'
      BY <1>3, <2>4 DEF General, NextSlave, Close, Walking, CoePlaces, SiiPlaces
    <3> QED
      BY <1>0, <2>1, <2>4, <3>1, WalkPasses DEF Listed
  <2> QED
    BY <2>3, <2>4
<1>4. CASE CountSM \/ ReadType \/ CountPdo \/ ReadPdo
  BY <1>4, SdoListed
<1>5. CASE SdoDone
  <2>1. /\ InLoop /\ Walking /\ pc = "type" /\ sms = <<>> /\ cnt' = cnt + 1 /\ ~Walking'
        /\ UNCHANGED <<bus, assigned, printed, printMAP, damaged>>
    BY <1>5 DEF SdoDone, NextSlave, Close, InLoop, Walking, CoePlaces, SiiPlaces
  <2>2. ASSUME NEW d \in Dir, Sound(cnt, d) PROVE printed[cnt][d] = Expected(cnt, d)
    <3>1. Covers(cnt, d, printed[cnt][d], bo[d], InSms(d))
      BY <1>0, <2>1, <2>2 DEF Listed, ListInv, Left
    <3>2. InSms(d) = <<>> /\ InSms(d) \in Seq(Entry)
      <4>1. <<>> \in Seq(SyncManager)
        OBVIOUS
      <4> QED
        BY <2>1, <4>1, PdosStep, LeftType DEF InSms, Listed
    <3> QED
      BY <1>0, <2>1, <3>1, <3>2, CoversWhole
  <2> QED
    BY <1>0, <2>1, <2>2, WalkPasses DEF Listed
<1>6. CASE ReadEntry
  BY <1>6, EntryListed
<1>7. CASE FindSection \/ ReadSiiPdo
  BY <1>7, SiiListed
<1>8. CASE Destroy \/ UNCHANGED vars
  <2>1. /\ UNCHANGED <<bus, assigned, printed, printMAP, damaged, cnt, bo>>
        /\ \/ ~Walking /\ ~Walking'
           \/ UNCHANGED vars
    BY <1>8 DEF Destroy, vars, Walking, CoePlaces, SiiPlaces
  <2>2. \A k \in SlaveId, d \in Dir : /\ Sound(k, d)' <=> Sound(k, d)
                                      /\ Expected(k, d)' = Expected(k, d)
    BY <2>1, LayoutStays DEF Sound
  <2>3. CASE ~Walking /\ ~Walking'
    BY <2>1, <2>2, <2>3 DEF Listed, ListInv
  <2>4. CASE UNCHANGED vars
    <3>1. Walking' <=> Walking
      BY <2>4 DEF vars, Walking
    <3>2. CASE ~Walking
      BY <2>1, <2>2, <3>1, <3>2 DEF Listed, ListInv
    <3>3. CASE Walking
      <4>1. ASSUME NEW d \in Dir PROVE Left(d)' = Left(d)
        BY <2>4, LeftStays DEF vars, Left, InSms, InPdos, InEntries, InSections, InSection, Section
      <4> QED
        BY <2>1, <3>1, <3>3, <4>1, WalkStays
    <3> QED
      BY <3>2, <3>3
  <2> QED
    BY <2>1, <2>3, <2>4
<1> QED
  BY <1>1, <1>2, <1>3, <1>4, <1>5, <1>6, <1>7, <1>8 DEF Next, Step

\* What the invariant says of the lines printed.
LEMMA ListedTells ==
    ASSUME Typing, Listed
    PROVE  ListingRight /\ ListingComplete
<1>1. ASSUME NEW k \in SlaveId, NEW d \in Dir, Sound(k, d)
      PROVE  /\ IsPrefix(printed[k][d], Expected(k, d))
             /\ printMAP /\ cnt > k => printed[k][d] = Expected(k, d)
  <2>1. k \in Nat /\ cnt \in Nat
    BY DEF SlaveId, Typing, TypeOK
  <2>2. AssignedType
    <3>1. CASE assigned = Mapped
      BY <3>1, MappedType
    <3>2. CASE assigned # Mapped
      <4>1. assigned = [j \in SlaveId |-> NothingYet]
        BY <3>2 DEF Listed, PlaceInv
      <4>2. <<>> \in Seq(Seq(Entry))
        OBVIOUS
      <4> QED
        BY <4>1, <4>2 DEF AssignedType, NothingYet
    <3> QED
      BY <3>1, <3>2
  <2>3. Entries(k, d) \in Seq(Entry)
    BY <2>2, EntriesType
  <2>4. CASE printMAP /\ k < cnt
    <3>1. printed[k][d] = Expected(k, d)
      BY <1>1, <2>4 DEF Listed, ListInv
    <3>2. Expected(k, d) \in Seq(PrintedLine)
      BY <2>2, <2>3, StartType, ListingType DEF Expected
    <3>3. \A x \in Seq(PrintedLine) : IsPrefix(x, x)
      BY DEF IsPrefix
    <3> QED
      BY <3>1, <3>2, <3>3
  <2>5. CASE Walking /\ k = cnt
    <3>1. Covers(k, d, printed[k][d], bo[d], Left(d))
      BY <1>1, <2>5 DEF Listed, ListInv
    <3>2. Left(d) \in Seq(Entry)
      BY <2>5, LeftType DEF Listed
    <3>3. IsPrefix(printed[k][d], Expected(k, d))
      BY <2>2, <3>1, <3>2, CoversWhole
    <3> QED
      BY <2>1, <2>5, <3>3
  <2>6. CASE ~ (printMAP /\ k < cnt) /\ ~ (Walking /\ k = cnt)
    <3>1. printed[k][d] = <<>>
      BY <2>1, <2>6 DEF Listed, ListInv
    <3>2. Covers(k, d, <<>>, 0, Entries(k, d))
      BY <2>2, CoversNone
    <3>3. IsPrefix(<<>>, Expected(k, d))
      BY <2>2, <2>3, <3>2, CoversWhole
    <3> QED
      BY <2>1, <2>6, <3>1, <3>3
  <2> QED
    BY <2>4, <2>5, <2>6
<1> QED
  BY <1>1 DEF ListingRight, ListingComplete

\* What is listed is inductive, given the types.
LEMMA WalksListed ==
    Safety => [](Typing /\ Listed)
<1>1. Init => Listed
  <2> SUFFICES ASSUME Init PROVE Listed
    OBVIOUS
  <2>1. /\ assigned = [k \in SlaveId |-> NothingYet] /\ pc = "idle" /\ cnt = 1
        /\ printed = [k \in SlaveId |-> NothingYet] /\ printMAP = FALSE
    BY DEF Init
  <2>2. printed \in [SlaveId -> [Dir -> Seq(PrintedLine)]]
    <3>1. <<>> \in Seq(PrintedLine)
      OBVIOUS
    <3> QED
      BY <2>1, <3>1 DEF NothingYet
  <2>3. ~Walking /\ ~InLoop
    BY <2>1 DEF Walking, CoePlaces, SiiPlaces, InLoop
  <2>4. PlaceInv /\ BugInv
    BY <2>1, <2>2, <2>3 DEF PlaceInv, BugInv, CoePlaces
  <2>5. ListInv
    BY <2>1, <2>3 DEF ListInv, NothingYet
  <2> QED
    BY <2>4, <2>5 DEF Listed
<1>2. Typing /\ Listed /\ [Next]_vars => Listed'
  BY PlaceStep, BugStep, ListStep DEF Listed
<1> QED
  BY <1>1, <1>2, WalksInside, PTL DEF Safety

\* Both walks print every entry with the byte and bit where SOEM exchanges it, whatever
\* the dictionaries and the EEPROMs hold.
THEOREM ListedRight == Safety => []ListingRight
BY WalksListed, ListedTells, PTL

\* A slave that the call has passed is listed completely.
THEOREM ListedCompletely == Safety => []ListingComplete
BY WalksListed, ListedTells, PTL

=============================================================================
