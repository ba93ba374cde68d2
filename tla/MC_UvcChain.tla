------------------------------ MODULE MC_UvcChain ------------------------------
EXTENDS UvcChain

Descriptor(type, id, sources) == [type |-> type, id |-> id, sources |-> sources]

\* The entities with identifier i and one source, in a device of n.
Simple(i, n) ==
  {Descriptor(t, i, <<>>) : t \in {"IT", "EXT"}} \cup {Descriptor(t, i, <<s>>) : t \in {"OT", "PU", "XU"}, s \in 1 .. n}
Selecting(i, n) == {Descriptor("SU", i, <<s, t>>) : s, t \in 1 .. n}

\* Every device of n simple entities with an output terminal.
SimpleDevices(n) ==
  {d \in [1 .. n -> UNION {Simple(i, n) : i \in 1 .. n}] :
     /\ \A i \in 1 .. n : d[i].id = i
     /\ \E i \in 1 .. n : d[i].type = "OT"}

\* Every device of an output terminal, a selector unit and two others.
SelectorDevices ==
  {<<Descriptor("OT", 1, <<s>>), u, x, y>> :
     s \in 1 .. 4, u \in Selecting(2, 4), x \in Simple(3, 4), y \in Simple(4, 4)}

\* Larger ones, in the order of the descriptors and in the opposite one.
Large == {
  \* two inputs, a selector unit, a processing unit, a branch and two outputs
  <<Descriptor("IT", 1, <<>>), Descriptor("IT", 2, <<>>), Descriptor("SU", 3, <<1, 2>>),
    Descriptor("PU", 4, <<3>>), Descriptor("XU", 5, <<4>>), Descriptor("OT", 6, <<4>>),
    Descriptor("OT", 7, <<4>>)>>,
  \* units on both sides of the processing unit and a branch of the terminal
  <<Descriptor("IT", 1, <<>>), Descriptor("XU", 2, <<1>>), Descriptor("SU", 3, <<1>>),
    Descriptor("PU", 4, <<3>>), Descriptor("XU", 5, <<4>>), Descriptor("OT", 6, <<5>>)>>,
  \* an extension unit of two inputs next to a selector unit
  <<Descriptor("IT", 1, <<>>), Descriptor("IT", 2, <<>>), Descriptor("SU", 3, <<1, 2>>),
    Descriptor("XU", 4, <<1, 2>>), Descriptor("OT", 5, <<3>>)>>,
  \* identifiers that are zero or taken
  <<Descriptor("OT", 1, <<2>>), Descriptor("PU", 2, <<3>>), Descriptor("IT", 2, <<>>)>>,
  <<Descriptor("IT", 0, <<>>), Descriptor("PU", 1, <<0>>), Descriptor("OT", 1, <<1>>)>>,
  \* an extension unit of two inputs, and one without
  <<Descriptor("IT", 1, <<>>), Descriptor("XU", 2, <<1, 1>>), Descriptor("OT", 3, <<2>>)>>,
  <<Descriptor("IT", 1, <<>>), Descriptor("SU", 2, <<>>), Descriptor("XU", 3, <<>>),
    Descriptor("OT", 4, <<3>>)>>,
  \* a selector unit without inputs
  <<Descriptor("IT", 1, <<>>), Descriptor("SU", 2, <<>>), Descriptor("OT", 4, <<2>>)>>,
  \* a privacy GPIO on a sound and on a broken device
  <<Descriptor("IT", 1, <<>>), Descriptor("OT", 2, <<1>>), Descriptor("GPIO", 0, <<>>)>>,
  <<Descriptor("IT", 1, <<>>), Descriptor("OT", 2, <<9>>), Descriptor("GPIO", 0, <<>>)>>}

AllDevices == SimpleDevices(3) \cup SimpleDevices(4) \cup SelectorDevices
                \cup Large \cup {Reverse(d) : d \in Large}
================================================================================
