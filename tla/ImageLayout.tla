---------------------------- MODULE ImageLayout ----------------------------
(***************************************************************************)
(* How SOEM lays out the process image (ecx_config_map_group): the data of *)
(* the slaves follow each other, those of eight bits or more on whole      *)
(* bytes, those of less packed bit by bit; the outputs of all slaves come  *)
(* before the inputs.  assigned[k][d] are the PDOs of slave k in direction *)
(* d, each a sequence of entries with a number of bits.                    *)
(***************************************************************************)
EXTENDS Integers, Sequences, SequencesExt, Totals

CONSTANT NumSlaves      \* ec_slavecount
VARIABLE assigned

Entries(k, d) == FlattenSeq(assigned[k][d])

SumBits(entries) == Total([i \in DOMAIN entries |-> entries[i].bits])

\* Obits, Ibits
Bits(k, d) == SumBits(Entries(k, d))

\* Obytes, Ibytes: a slave of less than eight bits is bit oriented and has none.
Bytes(k, d) == IF Bits(k, d) > 7 THEN (Bits(k, d) + 7) \div 8 ELSE 0

ByteAligned(b) == 8 * ((b + 7) \div 8)

\* The bit where slave k's data starts when the slaves before it end at bit b.
StartAfter(b, k, d) == IF Bytes(k, d) > 0 THEN ByteAligned(b) ELSE b

\* The bit where the data of slaves 1..k ends in the image: bit oriented slaves
\* share bytes, the others start and end on bytes.
ImageEnd(k, d) ==
    LET end[j \in 0 .. k] ==
            IF j = 0 THEN 0
            ELSE IF Bytes(j, d) > 0
                 THEN StartAfter(end[j - 1], j, d) + 8 * Bytes(j, d)
                 ELSE end[j - 1] + Bits(j, d)
    IN end[k]

ImageStart(k, d) == StartAfter(ImageEnd(k - 1, d), k, d)

\* ec_slave[0].Obytes, ec_slave[0].Ibytes
ImageBytes(d) == ByteAligned(ImageEnd(NumSlaves, d)) \div 8

\* ec_slave[k].outputs, ec_slave[k].inputs: the bit of IOmap where slave k starts.
IOmapStart(k, d) == ImageStart(k, d) + (IF d = "in" THEN 8 * ImageBytes("out") ELSE 0)

\* Where the n-th entry of slave k starts, in bits of the image of its direction.
EntryStart(k, d, n) ==
    ImageStart(k, d) + SumBits(SubSeq(Entries(k, d), 1, n - 1))

=============================================================================
