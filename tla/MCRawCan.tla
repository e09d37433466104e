------------------------------ MODULE MCRawCan ------------------------------
\* Every parameter alone, and those that meet: the row's name with an entry of
\* the table, the three that select what raw CAN hears, the two UDS fields the
\* source forgets or names apart.
EXTENDS RawCan

MCWatches ==
  {{p} : p \in UNION {Fields(s) : s \in Stacks}}
    \cup {{CpEcuLayerShortName, CpCanRespUudtId}, ReceiveFields}
MCToldWatches == {{CpLoopback, CpBr}}

\* Each type's smallest value but the preset's and a large one: 5000 s
\* overflows 2^32 microseconds.
MCInputs ==
  [t \in Types |->
     CASE t = "u8"      -> {Num(1), Num(255)}
       [] t = "u32"     -> {Num(1), Of(<<Ones>>)}
       [] t = "bool"    -> {Flag(FALSE), Flag(TRUE)}
       [] t = "time"    -> {Millis(Word(3)), Secs(Word(5000))}
       [] t = "bytes"   -> {Of(<<>>), Of(<<Word(62), Word(0)>>)}
       [] t = "longs"   -> {Of(<<>>), Of(<<Ones, Word(1)>>)}
       [] t = "timings" -> {Of(<<>>), Of(<<Word(1)>>)}
       [] t = "text"    -> {Of(<<>>), Of(<<Word(69)>>)}]

MCJsonValues ==
  {Number(Word(300)), Number(<<Half, 0>>), Bool(TRUE), Text(<<Word(69)>>),
   Array(<<Word(7)>>)}
MCToldJsonValues == {Number(Word(7)), Bool(TRUE)}

MCResponseIds == {7, 2^28 + 7}

MCFrames ==
  {NewData(Standard(7), <<1, 255>>), NewData(Extended(2^28 + 7), <<>>),
   NewRemote(Standard(7), 2), NewFdData(Standard(7), [i \in 1..12 |-> i])}
MCTraffic ==
  {OnBus(Standard(7), FALSE, 8, [i \in 1..8 |-> i]),
   OnBus(Standard(7), TRUE, 8, <<>>), OnBus(Extended(2^28 + 7), TRUE, 9, <<>>),
   OnBus(Standard(6), FALSE, 0, <<>>), OnBus(Extended(7), FALSE, 1, <<1>>),
   OnBus(Standard(7), FALSE, 12, [i \in 1..12 |-> i])}
=============================================================================
