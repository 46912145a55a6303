------------------------------ MODULE MCPdoMap ------------------------------
(* Dictionaries for PdoMap: a drive with two input PDOs, a slave that       *)
(* numbers its sync manager types from 0 and has a filler, a bit oriented   *)
(* input slave, an output slave with variables that cross bytes, and a      *)
(* digital output module with 26 one-byte channels.  0x1600 is the whole    *)
(* output of the drive, another PDO than the assigned one in the slave with *)
(* the odd types; 0x1a00 is the first of the two inputs of the drive, and   *)
(* the only one in its EEPROM.                                              *)
EXTENDS PdoMap

Both(o, i) == [out |-> o, in |-> i]
Var(o, b)  == [obj |-> o, bits |-> b]
Filler(b)  == [obj |-> 0, bits |-> b]

Drive   == [types |-> <<3, 4>>,
            out   |-> << <<Var(1, 16)>> >>,
            in    |-> << <<Var(3, 8)>>, <<Var(4, 16)>> >>,
            first |-> Both(<<Var(1, 16)>>, <<Var(3, 8)>>),
            sii   |-> Both(<< <<Var(1, 16)>> >>, << <<Var(3, 8)>> >>)]
OffType == [types |-> <<2, 3>>,
            out   |-> << <<Var(1, 8)>> >>,
            in    |-> << <<Filler(8), Var(2, 8)>> >>,
            first |-> Both(<<Var(3, 32), Var(1, 8)>>, <<Filler(8), Var(2, 8)>>),
            sii   |-> Both(<< <<Var(1, 8)>> >>, <<>>)]
Bit     == [types |-> <<0, 4>>,
            out   |-> <<>>,
            in    |-> << <<Var(1, 4)>> >>,
            first |-> Both(<<>>, <<Var(1, 4)>>),
            sii   |-> Both(<<>>, << <<Var(1, 4)>> >>)]
Nibbles == [types |-> <<3, 4, 3>>,
            out   |-> << <<Var(1, 4), Var(2, 8), Var(3, 8)>> >>,
            in    |-> << <<>> >>,
            first |-> Both(<<>>, <<>>),
            sii   |-> Both(<<>>, <<>>)]

SomeDictionaries == {Drive, OffType, Bit, Nibbles}
Channels == [types |-> <<3, 4>>,
             out   |-> << [i \in 1 .. 26 |-> Var(i, 8)] >>,
             in    |-> <<>>,
             first |-> Both(<<>>, <<>>),
             sii   |-> Both(<<>>, <<>>)]
OnlyChannels == {Channels}
=============================================================================
