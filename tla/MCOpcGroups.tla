------------------------------ MODULE MCOpcGroups ------------------------------
EXTENDS OpcGroups, OpcListName

\* "S7:[C]DB1,X0.2" and "S7:[C]DB1,X0.6", whose hashes are equal.
Prefix == <<83, 55, 58, 91, 67, 93, 68, 66, 49, 44>>
TextOf == [a \in {"X0.2", "X0.6"} |->
             Prefix \o (IF a = "X0.2" THEN <<88, 48, 46, 50>> ELSE <<88, 48, 46, 54>>)]

MCParID == [a \in Addresses |-> IF a = "X0.2" THEN 1 ELSE 2]
MCListHash ==
  [l \in UNION {u.readLists \cup u.writeLists : u \in Uses} |->
     GetListName(<<>>, [k \in DOMAIN l |-> TextOf[l[k]]])[2]]

TwoBits == {"X0.2", "X0.6"}
Use(reads, writes, readLists, writeLists) ==
  [reads |-> reads, writes |-> writes, readLists |-> readLists, writeLists |-> writeLists]

SingleBits == {Use({}, {}, {}, {<<"X0.2">>, <<"X0.6">>})}
Unassigned == {0, 1}
=============================================================================
