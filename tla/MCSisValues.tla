------------------------------ MODULE MCSisValues ------------------------------
EXTENDS MCOpcGroups, SisValues

Pair == <<"X0.2", "X0.6">>
Swapped == <<"X0.6", "X0.2">>

\* Groups share nothing but the PLC and the connection, and the PLC may change at
\* any time, so reads and writes of two items are enough apart from each other:
\* formulas that read two parameters apart, write two, read and write one, read
\* and write a group (both have the same name at the server), read a group of
\* one, write two lists that have one name, and read and write such lists.
Formulas ==
  {Use(TwoBits, {}, {}, {}), Use({}, TwoBits, {}, {}), Use({"X0.2"}, {"X0.2"}, {}, {}),
   Use({}, {}, {Pair}, {Pair}), Use({}, {}, {<<"X0.2">>}, {}),
   Use({}, {}, {Pair}, {Swapped})}
  \cup SingleBits

StoredOne == {"X0.2"}
AllGroups == {Pair, <<"X0.2">>}
=============================================================================
