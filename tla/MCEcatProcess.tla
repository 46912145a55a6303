--------------------------- MODULE MCEcatProcess ---------------------------
(* Slaves for EcatProcess: a CoE drive with the workaround, a filler and   *)
(* an unused sync manager; a module described by its EEPROM with an        *)
(* inactive PDO, a filler and a word of padding in the one section and two *)
(* in the other; a bit oriented one; one with more PDOs than the limit and *)
(* an empty output section.  Behind every section lies what reads as a PDO.*)
EXTENDS EcatProcess

Var(o, b)   == [obj |-> o, bits |-> b]
Filler(b)   == [obj |-> 0, bits |-> b]
Sm(t, p)    == [type |-> t, pdos |-> p]
Pdo(m, e)   == [sm |-> m, entries |-> e]
Behind      == Pdo(2, <<Var(9, 8)>>)
Sii(l, p)   == [present |-> TRUE, length |-> l, pdos |-> p \o <<Behind>>]
Absent      == [Sii(0, <<>>) EXCEPT !.present = FALSE]

Drive  == [coe |-> TRUE, general |-> TRUE, out |-> Absent, in |-> Absent,
           sms |-> <<Sm(2, << <<Var(1, 16), Filler(8)>> >>),
                     Sm(3, << <<Var(2, 8)>>, <<Var(3, 4)>> >>),
                     Sm(0, <<>>)>>]
Module == [coe |-> FALSE, general |-> FALSE, sms |-> <<>>,
           out |-> Sii(25, <<Pdo(255, <<Var(1, 8), Var(4, 8)>>),
                             Pdo(2, <<Filler(4), Var(2, 8)>>)>>),
           in  |-> Sii(10, <<Pdo(3, <<Var(3, 16)>>)>>)]
Bit    == [coe |-> FALSE, general |-> TRUE, sms |-> <<>>,
           out |-> Absent,
           in  |-> Sii(9, <<Pdo(0, <<Var(1, 1)>>)>>)]
Many   == [coe |-> FALSE, general |-> FALSE, sms |-> <<>>,
           out |-> Sii(0, <<>>),
           in  |-> Sii(32, [i \in 1 .. 4 |-> Pdo(3, <<Var(i, 8)>>)])]

SomeSlaves == {Drive, Module, Bit, Many}
=============================================================================
