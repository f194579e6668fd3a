---------------------------- MODULE SisValuesProofs ----------------------------
(***************************************************************************)
(* What OpcGroups and SisValues promise of the groups of OpcS7.dll and of  *)
(* the values of parameters, for every set of addresses, values, formulas  *)
(* and hashes of lists, every memory of new items and every answer of the  *)
(* OPC server.                                                             *)
(***************************************************************************)
EXTENDS SisValues, NaturalsInduction, WellFoundedInduction, TLAPS

-----------------------------------------------------------------------------
(* The inductive invariant                                                 *)

Item ==
  [id : Nat \ {0}, address : Addresses, status : SUBSET Flags, handle : Int,
   good : BOOLEAN, value : Values \cup {NoValue}]

\* It is to be written.
Chosen(item) == "ForWrite" \in item.status

\* An item has the handle of its state, a value of good quality only if the
\* server knows it, and a value if it is to be written.
ItemInv(item) ==
  /\ item \in Item
  /\ Known(item) => item.handle = item.id
  /\ "New" \in item.status => item.handle \in JunkHandles /\ "Invalid" \notin item.status
  /\ "Invalid" \in item.status => item.handle = NoHandle
  /\ item.good => Known(item) /\ item.value \in Values
  /\ Chosen(item) => item.value \in Values

\* The items of a group differ, and those that are new are the last.
GroupInv(g) ==
  /\ g \in Seq(Item)
  /\ \A k \in DOMAIN g : ItemInv(g[k])
  /\ \A j, k \in DOMAIN g : g[j].id = g[k].id \/ g[j].address = g[k].address => j = k
  /\ \A j, k \in DOMAIN g : "New" \in g[j].status /\ j <= k => "New" \in g[k].status

\* An item that the server knows is left chosen for a write only in a group of
\* which the server has refused another item.
Rested(g) ==
  \A k \in DOMAIN g : Chosen(g[k]) /\ Known(g[k]) => \E j \in DOMAIN g : ~Valid(g[j])

\* A group has the items its name stands for: those of single items are numbered,
\* those of a list have the identifiers in the name.  Their addresses are those
\* of the first list of that name.
NameInv(name, g) ==
  /\ name \in {ReadGp, WriteGp} => \A k \in DOMAIN g : g[k].id = k
  /\ name = ReadGp => \A k \in DOMAIN g : ~Chosen(g[k])
  /\ name \notin {ReadGp, WriteGp} =>
       DOMAIN g = DOMAIN name[1] /\ \A k \in DOMAIN g : g[k].id = name[1][k]

GroupsInv ==
  \A name \in DOMAIN groups :
    GroupInv(groups[name]) /\ Rested(groups[name]) /\ NameInv(name, groups[name])

OpcInv ==
  /\ use \in Uses
  /\ g_bInitOK \in BOOLEAN /\ g_bMainServer \in BOOLEAN /\ g_bSndServer \in BOOLEAN
  /\ alive \in BOOLEAN
  /\ plc \in [Addresses -> Values]
  /\ GroupsInv

\* Only numbers and read errors are shared.
PoolInv ==
  /\ pool \in [Addresses -> Values \cup {Empty, ErrorRead}]
  /\ \A k \in DOMAIN line.result : line.result[k].value \in Values \cup {ErrorRead}

-----------------------------------------------------------------------------
(* The positions whose answers the items of a group get                    *)

LEMMA LeastNumber ==
  ASSUME NEW T, T \subseteq Nat, T # {}
  PROVE  \E m \in T : \A k \in T : m <= k
<1>1. PICK m \in T : \A k \in T : ~(<<k, m>> \in OpToRel(<, Nat))
  BY WFMin, NatLessThanWellFounded, Zenon
<1>2. \A k \in T : ~(k < m)
  BY <1>1 DEF OpToRel
<1>. QED
  <2>. m \in Nat /\ \A k \in T : k \in Nat
    OBVIOUS
  <2>. QED
    BY <1>2

LEMMA FirstIsLeast ==
  ASSUME NEW T, T \subseteq Nat, T # {}
  PROVE  First(T) \in T /\ \A k \in T : First(T) <= k
BY LeastNumber DEF First

\* A set of positions has a last one.
LEMMA GreatestNumber ==
  ASSUME NEW n \in Nat, NEW T, T \subseteq 1 .. n, T # {}
  PROVE  \E m \in T : \A k \in T : k <= m
<1>. DEFINE S == {n - k : k \in T}
<1>1. S \subseteq Nat /\ S # {}
  <2>1. \A k \in T : n - k \in Nat
    OBVIOUS
  <2>2. PICK k \in T : TRUE
    OBVIOUS
  <2>3. n - k \in S
    BY <2>2
  <2>. QED
    BY <2>1, <2>3
<1>2. PICK i \in S : \A j \in S : i <= j
  <2>. HIDE DEF S
  <2>. QED
    BY <1>1, LeastNumber
<1>3. PICK m \in T : i = n - m
  OBVIOUS
<1>4. \A k \in T : n - m <= n - k
  BY <1>2, <1>3
<1>. QED
  BY <1>4

\* The first of a set is the one below all others.
LEMMA FirstIs ==
  ASSUME NEW T, T \subseteq Nat, NEW k \in T, \A j \in T : k <= j
  PROVE  First(T) = k
<1>1. First(T) \in T /\ First(T) <= k /\ k <= First(T)
  BY FirstIsLeast
<1>. QED
  <2>. First(T) \in Nat /\ k \in Nat
    BY <1>1
  <2>. QED
    BY <1>1

\* What is left of the positions asked for after an item with that key.
LeftAfter(S, key, asked) ==
  IF S # {} /\ key = asked[First(S)] THEN S \ {First(S)} ELSE S

\* The same after k items, if left[k - 1] is left after the one before.
Left(left, keys, asked, k) ==
  IF k = 0 THEN DOMAIN asked ELSE LeftAfter(left[k - 1], keys[k], asked)

\* The loop has a result: there is no first number of items after which it has none.
LEMMA LeftExists ==
  ASSUME NEW n \in Nat, NEW keys, NEW asked
  PROVE  \E f : f = [k \in {0} \cup (1 .. n) |-> Left(f, keys, asked, k)]
<1>. DEFINE Runs(f, m) == f = [k \in 0 .. m |-> Left(f, keys, asked, k)]
            T == {m \in 0 .. n : ~\E f : Runs(f, m)}
<1>1. CASE T # {}
  <2>1. PICK m \in T : \A k \in T : m <= k
    <3>. T \subseteq Nat
      OBVIOUS
    <3>. HIDE DEF T
    <3>. QED
      BY <1>1, LeastNumber
  <2>. m \in 0 .. n /\ m \in Nat
    OBVIOUS
  <2>2. CASE m = 0
    <3>. DEFINE f == [k \in 0 .. m |-> DOMAIN asked]
    <3>1. Runs(f, m)
      BY <2>2 DEF Left
    <3>. QED
      BY <3>1
  <2>3. CASE m # 0
    <3>1. PICK g : Runs(g, m - 1)
      <4>. m - 1 \in 0 .. n /\ m - 1 \notin T
        <5>. HIDE DEF T
        <5>. QED
          BY <2>1, <2>3
      <4>. QED
        OBVIOUS
    <3>. DEFINE f == [k \in 0 .. m |->
                        IF k = m THEN LeftAfter(g[m - 1], keys[m], asked) ELSE g[k]]
    <3>2. ASSUME NEW k \in 0 .. m
          PROVE  f[k] = Left(f, keys, asked, k)
      <4>1. f[m - 1] = g[m - 1] /\ f[m] = LeftAfter(g[m - 1], keys[m], asked)
        BY <2>3
      <4>2. CASE k = m
        BY <2>3, <4>1, <4>2 DEF Left
      <4>3. CASE k # m
        <5>1. f[k] = g[k] /\ k \in 0 .. m - 1
          BY <4>3
        <5>2. g[k] = Left(g, keys, asked, k)
          BY <3>1, <5>1
        <5>3. k # 0 => f[k - 1] = g[k - 1]
          BY <5>1
        <5>. HIDE DEF f
        <5>. QED
          BY <5>1, <5>2, <5>3 DEF Left
      <4>. QED
        BY <4>2, <4>3
    <3>3. Runs(f, m)
      <4>1. f = [k \in 0 .. m |-> f[k]]
        OBVIOUS
      <4>. HIDE DEF f
      <4>. QED
        BY <3>2, <4>1
    <3>. QED
      BY <3>3
  <2>. QED
    BY <2>2, <2>3
<1>2. CASE T = {}
  <2>1. PICK f : Runs(f, n)
    BY <1>2
  <2>2. 0 .. n = {0} \cup (1 .. n)
    OBVIOUS
  <2>. QED
    BY <2>1, <2>2
<1>. QED
  BY <1>1, <1>2

\* What is left after each item, and the answer each gets.
LEMMA AnswerLoop ==
  ASSUME NEW n \in Nat, NEW keys, DOMAIN keys = 1 .. n, NEW asked, DOMAIN asked \subseteq 1 .. n
  PROVE  \E left :
           /\ left[0] = DOMAIN asked
           /\ \A k \in 1 .. n : left[k] = LeftAfter(left[k - 1], keys[k], asked)
           /\ AnswerOf(keys, asked) =
                [k \in 1 .. n |-> IF left[k] = left[k - 1] THEN 0 ELSE First(left[k - 1])]
<1>. DEFINE f == CHOOSE f : f = [k \in {0} \cup DOMAIN keys |-> Left(f, keys, asked, k)]
<1>1. f = [k \in {0} \cup DOMAIN keys |-> Left(f, keys, asked, k)]
  BY LeftExists
<1>2. AnswerOf(keys, asked) =
        [k \in DOMAIN keys |-> IF f[k] = f[k - 1] THEN 0 ELSE First(f[k - 1])]
  BY DEF AnswerOf, Left, LeftAfter
<1>. HIDE DEF f
<1>3. \A k \in {0} \cup (1 .. n) : f[k] = Left(f, keys, asked, k)
  BY <1>1
<1>4. f[0] = DOMAIN asked /\ \A k \in 1 .. n : f[k] = LeftAfter(f[k - 1], keys[k], asked)
  BY <1>3 DEF Left
<1>. QED
  BY <1>2, <1>4

\* What is left are positions asked for, fewer with every item.
LEMMA LeftOnlyShrinks ==
  ASSUME NEW n \in Nat, NEW keys, NEW asked, DOMAIN asked \subseteq 1 .. n, NEW left,
         left[0] = DOMAIN asked,
         \A k \in 1 .. n : left[k] = LeftAfter(left[k - 1], keys[k], asked)
  PROVE  \A k \in 0 .. n : left[k] \subseteq DOMAIN asked
<1>. DEFINE T == {k \in 0 .. n : ~(left[k] \subseteq DOMAIN asked)}
<1>1. CASE T # {}
  <2>1. PICK m \in T : \A k \in T : m <= k
    <3>. T \subseteq Nat
      OBVIOUS
    <3>. HIDE DEF T
    <3>. QED
      BY <1>1, LeastNumber
  <2>2. m \in 1 .. n
    OBVIOUS
  <2>3. m - 1 \notin T
    <3>. HIDE DEF T
    <3>. QED
      BY <2>1, <2>2
  <2>4. left[m - 1] \subseteq DOMAIN asked
    BY <2>2, <2>3
  <2>5. left[m] = LeftAfter(left[m - 1], keys[m], asked)
    BY <2>2
  <2>6. left[m] \subseteq DOMAIN asked
    BY <2>4, <2>5 DEF LeftAfter
  <2>. QED
    BY <2>6
<1>. QED
  BY <1>1

\* An item gets the answer to a position asked for with its own key.
LEMMA AnswerFits ==
  ASSUME NEW n \in Nat, NEW keys, DOMAIN keys = 1 .. n, NEW asked, DOMAIN asked \subseteq 1 .. n,
         NEW k \in 1 .. n, AnswerOf(keys, asked)[k] # 0
  PROVE  /\ AnswerOf(keys, asked)[k] \in DOMAIN asked
         /\ keys[k] = asked[AnswerOf(keys, asked)[k]]
<1>1. PICK left :
           /\ left[0] = DOMAIN asked
           /\ \A i \in 1 .. n : left[i] = LeftAfter(left[i - 1], keys[i], asked)
           /\ AnswerOf(keys, asked) =
                [i \in 1 .. n |-> IF left[i] = left[i - 1] THEN 0 ELSE First(left[i - 1])]
  BY AnswerLoop
<1>2. left[k - 1] \subseteq DOMAIN asked
  <2>. k - 1 \in 0 .. n
    OBVIOUS
  <2>. QED
    BY <1>1, LeftOnlyShrinks
<1>3. left[k] # left[k - 1] /\ AnswerOf(keys, asked)[k] = First(left[k - 1])
  BY <1>1
<1>4. left[k - 1] # {} /\ keys[k] = asked[First(left[k - 1])]
  BY <1>1, <1>3 DEF LeftAfter
<1>5. First(left[k - 1]) \in left[k - 1]
  <2>. left[k - 1] \subseteq Nat
    BY <1>2
  <2>. QED
    BY <1>4, FirstIsLeast
<1>. QED
  BY <1>2, <1>3, <1>4, <1>5

\* All the positions up to p that are asked for are so with the keys of their
\* items, and no item before has that of p.
Aligned(keys, asked, p) ==
  /\ \A j \in DOMAIN asked : j <= p => asked[j] = keys[j]
  /\ \A k \in DOMAIN keys : keys[k] = asked[p] => p <= k

\* The item of such a position gets its own answer.
LEMMA AnswerOfItself ==
  ASSUME NEW n \in Nat, NEW keys, DOMAIN keys = 1 .. n, NEW asked, DOMAIN asked \subseteq 1 .. n,
         NEW p \in DOMAIN asked, Aligned(keys, asked, p)
  PROVE  AnswerOf(keys, asked)[p] = p
<1>. p \in 1 .. n /\ p \in Nat
  OBVIOUS
<1>1. PICK left :
           /\ left[0] = DOMAIN asked
           /\ \A i \in 1 .. n : left[i] = LeftAfter(left[i - 1], keys[i], asked)
           /\ AnswerOf(keys, asked) =
                [i \in 1 .. n |-> IF left[i] = left[i - 1] THEN 0 ELSE First(left[i - 1])]
  BY AnswerLoop
<1>2. \A k \in 0 .. n : left[k] \subseteq DOMAIN asked
  BY <1>1, LeftOnlyShrinks
<1>. DEFINE Good(k) == p \in left[k] /\ \A j \in left[k] : k < j
            T == {k \in 0 .. p - 1 : ~Good(k)}
<1>3. CASE T # {}
  <2>1. PICK m \in T : \A k \in T : m <= k
    <3>. T \subseteq Nat
      OBVIOUS
    <3>. HIDE DEF T
    <3>. QED
      BY <1>3, LeastNumber
  <2>. m \in 0 .. p - 1 /\ m \in Nat /\ ~Good(m)
    OBVIOUS
  <2>2. m # 0
    <3>. SUFFICES ASSUME m = 0 PROVE Good(m)
      OBVIOUS
    <3>. QED
      BY <1>1
  <2>3. Good(m - 1)
    <3>. m - 1 \in 0 .. p - 1 /\ m - 1 \notin T
      <4>. HIDE DEF T
      <4>. QED
        BY <2>1, <2>2
    <3>. QED
      OBVIOUS
  <2>. DEFINE S == left[m - 1]
  <2>4. left[m] = LeftAfter(S, keys[m], asked) /\ S \subseteq 1 .. n
    BY <1>1, <1>2, <2>2
  <2>5. p \in S /\ \A j \in S : m <= j
    BY <2>3, <2>4
  <2>6. First(S) \in S /\ \A j \in S : First(S) <= j
    <3>. S \subseteq Nat
      BY <2>4
    <3>. HIDE DEF S
    <3>. QED
      BY <2>5, FirstIsLeast
  <2>. HIDE DEF S, T
  <2>7. p \in left[m]
    <3>1. keys[m] # asked[p]
      <4>. m \in DOMAIN keys /\ ~(p <= m)
        BY <2>2
      <4>. QED
        BY DEF Aligned
    <3>. QED
      BY <2>4, <2>5, <3>1 DEF LeftAfter
  <2>8. m \notin left[m]
    <3>. SUFFICES ASSUME m \in S PROVE m \notin left[m]
      BY <2>4 DEF LeftAfter
    <3>1. First(S) = m
      <4>1. First(S) <= m /\ m <= First(S)
        BY <2>5, <2>6
      <4>2. First(S) \in Nat
        <5>. First(S) \in 1 .. n
          BY <2>4, <2>6
        <5>. QED
          OBVIOUS
      <4>. QED
        BY <4>1, <4>2
    <3>2. keys[m] = asked[m]
      <4>. m - 1 \in 0 .. n
        BY <2>2
      <4>. m \in DOMAIN asked
        BY <1>2 DEF S
      <4>. QED
        BY DEF Aligned
    <3>. QED
      BY <2>4, <3>1, <3>2 DEF LeftAfter
  <2>9. \A j \in left[m] : m < j
    <3>1. left[m] \subseteq S
      BY <2>4 DEF LeftAfter
    <3>2. ASSUME NEW j \in left[m] PROVE m < j
      <4>1. j \in 1 .. n /\ m <= j /\ j # m
        BY <2>4, <2>5, <2>8, <3>1
      <4>. QED
        BY <4>1
    <3>. QED
      BY <3>2
  <2>. QED
    BY <2>7, <2>9
<1>4. CASE T = {}
  <2>1. Good(p - 1)
    BY <1>4
  <2>2. left[p - 1] \subseteq Nat
    BY <1>2
  <2>3. First(left[p - 1]) = p
    <3>. \A j \in left[p - 1] : p <= j
      BY <2>1, <2>2
    <3>. QED
      BY <2>1, <2>2, FirstIs
  <2>4. left[p] = left[p - 1] \ {p}
    <3>. keys[p] = asked[p]
      BY DEF Aligned
    <3>. QED
      BY <1>1, <2>1, <2>3 DEF LeftAfter
  <2>5. left[p] # left[p - 1]
    BY <2>1, <2>4
  <2>. QED
    BY <1>1, <2>3, <2>5
<1>. QED
  BY <1>3, <1>4

-----------------------------------------------------------------------------
(* Items                                                                   *)

\* What a call asks for: items with different identifiers and addresses.
Entry == [id : Nat \ {0}, address : Addresses, value : Values \cup {NoValue}]

IsRequest(request) ==
  /\ request \in Seq(Entry) /\ request # <<>>
  /\ \A j, k \in DOMAIN request :
       request[j].id = request[k].id \/ request[j].address = request[k].address => j = k

LEMMA NewItemKeeps ==
  ASSUME OpcAssumption, NEW r \in Entry, NEW junk \in JunkHandles
  PROVE  LET item == NewItem(r, junk)
         IN /\ ItemInv(item) /\ item.status = {"New"}
            /\ item.id = r.id /\ item.address = r.address
BY DEF Entry, OpcAssumption, NoHandle, NewItem, ItemInv, Item, Known, Chosen, Flags

LEMMA StoredKeeps ==
  ASSUME OpcAssumption, NEW item, ItemInv(item), "New" \in item.status, NEW accepted \in BOOLEAN,
         NEW stored, stored = SetNewItemRes(item, accepted)
  PROVE  /\ ItemInv(stored) /\ stored.id = item.id /\ stored.address = item.address
         /\ "New" \notin stored.status /\ (Chosen(stored) => Chosen(item))
         /\ (~accepted => ~Valid(stored))
<1>1. /\ item \in Item /\ ~item.good /\ "Invalid" \notin item.status
      /\ item.status \subseteq Flags /\ (Chosen(item) => item.value \in Values)
      /\ item.id \in Nat /\ item.id \in Int
  BY DEF ItemInv, Known, Item
<1>2. CASE accepted
  <2>1. stored = [item EXCEPT !.handle = item.id, !.status = @ \ {"New"}]
    BY <1>2 DEF SetNewItemRes
  <2>2. stored \in Item
    BY <1>1, <2>1 DEF Item
  <2>3. /\ stored.id = item.id /\ stored.address = item.address /\ stored.handle = item.id
        /\ stored.status = item.status \ {"New"} /\ stored.good = item.good
        /\ stored.value = item.value
    BY <1>1, <2>1 DEF Item
  <2>. QED
    BY <1>1, <1>2, <2>2, <2>3 DEF ItemInv, Known, Chosen, Valid
<1>3. CASE ~accepted
  <2>1. stored = [item EXCEPT !.handle = NoHandle, !.status = {"Invalid"}]
    BY <1>3 DEF SetNewItemRes
  <2>2. stored \in Item
    <3>1. {"Invalid"} \in SUBSET Flags /\ NoHandle \in Int
      BY DEF Flags, NoHandle
    <3>. QED
      BY <1>1, <2>1, <3>1 DEF Item
  <2>3. /\ stored.id = item.id /\ stored.address = item.address /\ stored.handle = NoHandle
        /\ stored.status = {"Invalid"} /\ stored.good = item.good
        /\ stored.value = item.value
    BY <1>1, <2>1 DEF Item
  <2>. QED
    BY <1>1, <1>3, <2>2, <2>3 DEF ItemInv, Known, Chosen, Valid
<1>. QED
  BY <1>2, <1>3

\* An item whose state at the server is that of another.
Alike(item, other) ==
  /\ other.id = item.id /\ other.address = item.address
  /\ "New" \in other.status <=> "New" \in item.status
  /\ "Invalid" \in other.status <=> "Invalid" \in item.status

LEMMA ChosenToRead ==
  ASSUME NEW item, ItemInv(item), NEW chosen,
         chosen = [item EXCEPT !.status = @ \cup {"ForRead"}]
  PROVE  /\ ItemInv(chosen) /\ Alike(item, chosen)
         /\ chosen.status = item.status \cup {"ForRead"}
<1>1. item \in Item /\ item.status \cup {"ForRead"} \in SUBSET Flags
  BY DEF ItemInv, Item, Flags
<1>2. chosen \in Item
  BY <1>1 DEF Item
<1>3. /\ chosen.id = item.id /\ chosen.address = item.address /\ chosen.handle = item.handle
      /\ chosen.status = item.status \cup {"ForRead"} /\ chosen.good = item.good
      /\ chosen.value = item.value
  BY <1>1 DEF Item
<1>. QED
  BY <1>2, <1>3 DEF ItemInv, Known, Chosen, Alike

LEMMA ChosenToWrite ==
  ASSUME NEW item, ItemInv(item), NEW v \in Values, NEW chosen,
         chosen = [item EXCEPT !.status = @ \cup {"ForWrite"}, !.value = v]
  PROVE  /\ ItemInv(chosen) /\ Alike(item, chosen)
         /\ Chosen(chosen) /\ chosen.value = v
<1>1. item \in Item /\ item.status \cup {"ForWrite"} \in SUBSET Flags
  BY DEF ItemInv, Item, Flags
<1>2. chosen \in Item
  BY <1>1 DEF Item
<1>3. /\ chosen.id = item.id /\ chosen.address = item.address /\ chosen.handle = item.handle
      /\ chosen.status = item.status \cup {"ForWrite"} /\ chosen.good = item.good
      /\ chosen.value = v
  BY <1>1 DEF Item
<1>. QED
  BY <1>2, <1>3 DEF ItemInv, Known, Chosen, Alike

LEMMA WriteDone ==
  ASSUME NEW item, ItemInv(item), NEW done,
         done = [item EXCEPT !.status = @ \ {"ForWrite"}]
  PROVE  /\ ItemInv(done) /\ Alike(item, done) /\ ~Chosen(done)
         /\ done.value = item.value /\ done.handle = item.handle
<1>1. item \in Item /\ item.status \ {"ForWrite"} \in SUBSET Flags
  BY DEF ItemInv, Item, Flags
<1>2. done \in Item
  BY <1>1 DEF Item
<1>3. /\ done.id = item.id /\ done.address = item.address /\ done.handle = item.handle
      /\ done.status = item.status \ {"ForWrite"} /\ done.good = item.good
      /\ done.value = item.value
  BY <1>1 DEF Item
<1>. QED
  BY <1>2, <1>3 DEF ItemInv, Known, Chosen, Alike

\* An item after a read for which the server has said s of it.
ReadAs(item, s) ==
  [item EXCEPT !.status = @ \ {"ForRead"}, !.good = s.good, !.value = s.value]

LEMMA ReadDone ==
  ASSUME NEW item, ItemInv(item), Known(item),
         NEW s, s.good \in BOOLEAN, s.value \in Values, NEW done, done = ReadAs(item, s)
  PROVE  /\ ItemInv(done) /\ Alike(item, done) /\ (Chosen(done) <=> Chosen(item))
         /\ done.value = s.value
<1>1. item \in Item /\ item.status \ {"ForRead"} \in SUBSET Flags
  BY DEF ItemInv, Item, Flags
<1>2. done \in Item
  BY <1>1 DEF Item, ReadAs
<1>3. /\ done.id = item.id /\ done.address = item.address /\ done.handle = item.handle
      /\ done.status = item.status \ {"ForRead"} /\ done.value = s.value
  BY <1>1 DEF Item, ReadAs
<1>. QED
  BY <1>2, <1>3 DEF ItemInv, Known, Chosen, Alike

-----------------------------------------------------------------------------
(* Groups of items                                                         *)

\* The items of two groups have the same identifiers and addresses.
SameItems(g, h) ==
  /\ DOMAIN h = DOMAIN g
  /\ \A k \in DOMAIN g : h[k].id = g[k].id /\ h[k].address = g[k].address

\* Each item is known to the server, new or refused as it was.
AlikeItems(g, h) == DOMAIN h = DOMAIN g /\ \A k \in DOMAIN g : Alike(g[k], h[k])

LEMMA GroupIsFunction ==
  ASSUME NEW g, GroupInv(g)
  PROVE  /\ Len(g) \in Nat /\ DOMAIN g = 1 .. Len(g) /\ g = [k \in 1 .. Len(g) |-> g[k]]
         /\ \A k \in DOMAIN g : g[k] \in Item /\ g[k].id \in Nat \ {0} /\ g[k].handle \in Int
<1>1. g \in Seq(Item)
  BY DEF GroupInv
<1>2. Len(g) \in Nat /\ DOMAIN g = 1 .. Len(g) /\ \A k \in DOMAIN g : g[k] \in Item
  BY <1>1
<1>3. g = [k \in 1 .. Len(g) |-> g[k]]
  BY <1>1
<1>4. \A item \in Item : item.id \in Nat \ {0} /\ item.handle \in Int
  BY DEF Item
<1>. QED
  BY <1>2, <1>3, <1>4

\* A change of the items one by one keeps a group if each item stays as it is for
\* the server.
LEMMA GroupKept ==
  ASSUME NEW g, GroupInv(g), NEW h, h = [k \in DOMAIN g |-> h[k]], AlikeItems(g, h),
         \A k \in DOMAIN g : ItemInv(h[k])
  PROVE  GroupInv(h) /\ SameItems(g, h)
<1>1. Len(g) \in Nat /\ DOMAIN g = 1 .. Len(g)
  BY GroupIsFunction
<1>2. h \in Seq(Item)
  BY <1>1 DEF ItemInv
<1>3. \A k \in DOMAIN g : /\ h[k].id = g[k].id /\ h[k].address = g[k].address
                          /\ "New" \in h[k].status <=> "New" \in g[k].status
  BY DEF AlikeItems, Alike
<1>. QED
  BY <1>1, <1>2, <1>3 DEF GroupInv, SameItems, AlikeItems

\* Only one item has an identifier.
LEMMA ItemOfIts ==
  ASSUME NEW g, GroupInv(g), NEW k \in DOMAIN g
  PROVE  ItemOf(g, g[k].id) = g[k]
<1>1. Range(g) = {g[j] : j \in DOMAIN g}
  BY DEF Range
<1>2. \A item \in Range(g) : item.id = g[k].id => item = g[k]
  BY <1>1 DEF GroupInv
<1>. QED
  BY <1>1, <1>2 DEF ItemOf

\* The server knows a handle of the group as that of the item it has given it
\* to.  A new item may have it by chance, and comes later.
LEMMA HandlesKnown ==
  ASSUME OpcAssumption, NEW g, GroupInv(g)
  PROVE  /\ Registered(g) = {g[k].id : k \in {j \in DOMAIN g : Known(g[j])}}
         /\ \A k \in DOMAIN g : Known(g[k]) => /\ g[k].handle = g[k].id
                                              /\ g[k].handle \in Registered(g)
         /\ \A k \in DOMAIN g : g[k].handle \in Registered(g) => Valid(g[k])
         /\ \A j, k \in DOMAIN g : Known(g[k]) /\ g[j].handle = g[k].handle =>
              j = k \/ ("New" \in g[j].status /\ k < j)
<1>1. \A k \in DOMAIN g : ItemInv(g[k]) /\ g[k].id \in Nat \ {0}
  BY GroupIsFunction DEF GroupInv
<1>2. \A k \in DOMAIN g : Known(g[k]) => g[k].handle = g[k].id
  BY <1>1 DEF ItemInv
<1>3. \A k \in DOMAIN g : ~Valid(g[k]) => g[k].handle = NoHandle /\ NoHandle \notin Nat \ {0}
  BY <1>1 DEF ItemInv, Valid, NoHandle
<1>4. Registered(g) = {g[k].id : k \in {j \in DOMAIN g : Known(g[j])}}
  <2>1. Registered(g) = {g[k].handle : k \in {j \in DOMAIN g : Known(g[j])}}
    BY DEF Registered
  <2>. QED
    BY <1>2, <2>1
<1>5. \A k \in DOMAIN g : g[k].handle \in Registered(g) => Valid(g[k])
  BY <1>1, <1>3, <1>4
<1>6. \A k \in DOMAIN g : Known(g[k]) => g[k].handle \in Registered(g)
  BY <1>2, <1>4
<1>7. ASSUME NEW j \in DOMAIN g, NEW k \in DOMAIN g, Known(g[k]), g[j].handle = g[k].handle
      PROVE  j = k \/ ("New" \in g[j].status /\ k < j)
  <2>1. Valid(g[j])
    BY <1>5, <1>6, <1>7
  <2>2. CASE Known(g[j])
    BY <1>2, <1>7, <2>2 DEF GroupInv
  <2>3. CASE ~Known(g[j])
    <3>1. "New" \in g[j].status /\ "New" \notin g[k].status
      BY <1>7, <2>1, <2>3 DEF Known, Valid
    <3>2. ~(j <= k)
      BY <3>1 DEF GroupInv
    <3>3. j \in Nat /\ k \in Nat
      BY GroupIsFunction
    <3>. QED
      BY <3>1, <3>2, <3>3
  <2>. QED
    BY <2>2, <2>3
<1>. QED
  BY <1>2, <1>4, <1>5, <1>6, <1>7

\* AddItems chooses no item, knows all that were known, and leaves an item that it
\* does know chosen only if it refuses another.
LEMMA AddItemsKeeps ==
  ASSUME OpcAssumption, NEW g, GroupInv(g), NEW o \in AddItems(g)
  PROVE  /\ GroupInv(o.items) /\ SameItems(g, o.items)
         /\ \A k \in DOMAIN g : Chosen(o.items[k]) => Chosen(g[k])
         /\ \A k \in DOMAIN g : ~Valid(g[k]) => ~Valid(o.items[k])
         /\ Rested(g) /\ o.hr # "S_OK" => Rested(o.items)
<1>. DEFINE h == o.items
            new == {k \in DOMAIN g : "New" \in g[k].status}
<1>1. CASE h = g
  <2>. QED
    BY <1>1 DEF SameItems
<1>2. CASE h # g
  <2>1. PICK accepted \in SUBSET new :
          o = [items |-> [k \in DOMAIN g |->
                            IF k \in new THEN SetNewItemRes(g[k], k \in accepted) ELSE g[k]],
               hr |-> IF accepted = new THEN "S_OK" ELSE "S_FALSE"]
    BY <1>2 DEF AddItems
  <2>2. /\ h = [k \in DOMAIN g |->
                  IF k \in new THEN SetNewItemRes(g[k], k \in accepted) ELSE g[k]]
        /\ o.hr = IF accepted = new THEN "S_OK" ELSE "S_FALSE"
    BY <2>1
  <2>3. DOMAIN h = DOMAIN g /\ Len(g) \in Nat /\ DOMAIN g = 1 .. Len(g)
    BY <2>2, GroupIsFunction
  <2>4. \A k \in DOMAIN g : ItemInv(g[k])
    BY DEF GroupInv
  <2>. HIDE DEF h
  <2>5. ASSUME NEW k \in new
        PROVE  /\ ItemInv(h[k]) /\ h[k].id = g[k].id /\ h[k].address = g[k].address
               /\ "New" \notin h[k].status /\ (Chosen(h[k]) => Chosen(g[k]))
               /\ (k \notin accepted => ~Valid(h[k]))
    <3>1. h[k] = SetNewItemRes(g[k], k \in accepted)
      BY <2>2
    <3>2. "New" \in g[k].status /\ ItemInv(g[k])
      BY <2>4
    <3>. HIDE DEF new
    <3>3. CASE k \in accepted
      <4>1. h[k] = SetNewItemRes(g[k], TRUE)
        BY <3>1, <3>3 DEF SetNewItemRes
      <4>. QED
        BY <3>2, <3>3, <4>1, StoredKeeps
    <3>4. CASE k \notin accepted
      <4>1. h[k] = SetNewItemRes(g[k], FALSE)
        BY <3>1, <3>4 DEF SetNewItemRes
      <4>. QED
        BY <3>2, <3>4, <4>1, StoredKeeps
    <3>. QED
      BY <3>3, <3>4
  <2>6. \A k \in DOMAIN g : k \notin new => h[k] = g[k] /\ "New" \notin h[k].status
    BY <2>2
  <2>7. /\ \A k \in DOMAIN g : ItemInv(h[k])
        /\ SameItems(g, h)
    BY <2>3, <2>4, <2>5, <2>6 DEF SameItems
  <2>8. \A k \in DOMAIN g : "New" \notin h[k].status
    <3>. HIDE DEF new
    <3>. QED
      BY <2>5, <2>6
  <2>9. GroupInv(h)
    <3>1. h \in Seq(Item)
      <4>1. h = [k \in 1 .. Len(g) |-> h[k]]
        BY <2>2, <2>3
      <4>. QED
        BY <2>3, <2>7, <4>1 DEF ItemInv
    <3>2. \A j, k \in DOMAIN h : h[j].id = h[k].id \/ h[j].address = h[k].address => j = k
      BY <2>7 DEF SameItems, GroupInv
    <3>. QED
      BY <2>3, <2>7, <2>8, <3>1, <3>2 DEF GroupInv
  <2>10. \A k \in DOMAIN g : Chosen(h[k]) => Chosen(g[k])
    <3>. HIDE DEF new
    <3>. QED
      BY <2>5, <2>6
  <2>11. \A k \in DOMAIN g : ~Valid(g[k]) => ~Valid(h[k])
    <3>1. \A k \in new : Valid(g[k])
      BY <2>4 DEF ItemInv, Valid
    <3>. QED
      BY <2>6, <3>1
  <2>12. ASSUME o.hr # "S_OK" PROVE Rested(h)
    <3>1. PICK j \in new : j \notin accepted
      BY <2>2, <2>12
    <3>2. ~Valid(h[j]) /\ j \in DOMAIN h
      BY <2>3, <2>5, <3>1
    <3>. QED
      BY <3>2 DEF Rested
  <2>. QED
    BY <2>7, <2>9, <2>10, <2>11, <2>12 DEF h
<1>. QED
  BY <1>1, <1>2

\* How a request fits a group: a call of a single item asks for one, and an item
\* of the group has its identifier exactly if it has its address; the items of a
\* list are all in the group or make it.
Fits(g, request, single) ==
  /\ single => /\ Len(request) = 1
               /\ \A j \in DOMAIN g :
                    g[j].id = request[1].id <=> g[j].address = request[1].address
  /\ ~single => g = <<>> \/ \A k \in DOMAIN request : \E j \in DOMAIN g : g[j].id = request[k].id

\* The group has items for all entries.
HasAll(g, request) ==
  \A k \in DOMAIN request : \E j \in DOMAIN g : g[j].id = request[k].id

\* The group after n entries of a list, the first of which makes it.
Listed(request, junk, n) == [k \in 1 .. n |-> NewItem(request[k], junk)]

After(g, request, junk, k) ==
  IF \E item \in Range(g) : item.id = request[k].id THEN g
  ELSE Append(g, NewItem(request[k], junk))

LEMMA ListedGrows ==
  ASSUME NEW request, IsRequest(request), NEW junk, NEW k \in 1 .. Len(request)
  PROVE  After(Listed(request, junk, k - 1), request, junk, k) = Listed(request, junk, k)
<1>. DEFINE g == Listed(request, junk, k - 1)
<1>. k \in Nat /\ DOMAIN request = 1 .. Len(request)
  BY DEF IsRequest
<1>1. g = [j \in 1 .. k - 1 |-> NewItem(request[j], junk)]
  BY DEF Listed
<1>. HIDE DEF g
<1>2. \A j \in 1 .. k - 1 : g[j].id = request[j].id
  BY <1>1 DEF NewItem
<1>3. ~\E item \in Range(g) : item.id = request[k].id
  <2>1. \A item \in Range(g) : \E j \in 1 .. k - 1 : item = g[j]
    BY <1>1 DEF Range
  <2>2. \A j \in 1 .. k - 1 : request[j].id # request[k].id
    BY DEF IsRequest
  <2>. QED
    BY <1>2, <2>1, <2>2
<1>4. Len(g) = k - 1
  BY <1>1
<1>5. Append(g, NewItem(request[k], junk)) = Listed(request, junk, k)
  BY <1>1, <1>4 DEF Listed
<1>. QED
  BY <1>3, <1>5 DEF After, g

\* The groups after each entry, if f[k - 1] is that after the one before.
Afters(f, g, request, junk, k) == IF k = 0 THEN g ELSE After(f[k - 1], request, junk, k)

\* A function that is what the loop computes is the only one.
LEMMA LoopOfItems ==
  ASSUME NEW g, NEW request, Len(request) \in Nat, NEW junk, NEW w,
         w = [k \in 0 .. Len(request) |-> Afters(w, g, request, junk, k)]
  PROVE  FindOrAddItems(g, request, junk) = w[Len(request)]
<1>. DEFINE n == Len(request)
            f == CHOOSE f : f = [k \in 0 .. n |-> Afters(f, g, request, junk, k)]
            T == {k \in 0 .. n : f[k] # w[k]}
<1>1. f = [k \in 0 .. n |-> Afters(f, g, request, junk, k)]
  OBVIOUS
<1>2. FindOrAddItems(g, request, junk) = f[n]
  BY DEF FindOrAddItems, Afters, After
<1>. HIDE DEF f
<1>3. \A k \in 0 .. n : f[k] = Afters(f, g, request, junk, k)
  BY <1>1
<1>4. \A k \in 0 .. n : w[k] = Afters(w, g, request, junk, k)
  OBVIOUS
<1>5. CASE T # {}
  <2>1. PICK m \in T : \A k \in T : m <= k
    <3>. T \subseteq Nat
      OBVIOUS
    <3>. HIDE DEF T
    <3>. QED
      BY <1>5, LeastNumber
  <2>2. m \in 0 .. n /\ f[m] # w[m]
    OBVIOUS
  <2>3. m # 0
    BY <1>3, <1>4, <2>2 DEF Afters
  <2>4. f[m - 1] = w[m - 1]
    <3>1. m - 1 \in 0 .. n /\ m - 1 \notin T
      <4>. HIDE DEF T
      <4>. QED
        BY <2>1, <2>2, <2>3
    <3>. QED
      BY <3>1
  <2>. QED
    BY <1>3, <1>4, <2>2, <2>3, <2>4 DEF Afters
<1>6. CASE T = {}
  BY <1>2, <1>6
<1>. QED
  BY <1>5, <1>6

\* What a group becomes: it keeps its items, gets the single one it lacked, or is
\* made of those of a list.
Became(g, request, single, h) ==
  \/ SameItems(g, h)
  \/ /\ single /\ SameItems(Append(g, request[1]), h)
     /\ \A k \in DOMAIN g : g[k].id # request[1].id
  \/ ~single /\ g = <<>> /\ SameItems(request, h)

\* A new item of another identifier and address can be appended.
LEMMA AppendKeeps ==
  ASSUME OpcAssumption, NEW g, GroupInv(g), NEW r \in Entry, NEW junk \in JunkHandles,
         \A k \in DOMAIN g : g[k].id # r.id /\ g[k].address # r.address
  PROVE  LET h == Append(g, NewItem(r, junk))
         IN /\ GroupInv(h) /\ Len(h) = Len(g) + 1 /\ \A k \in DOMAIN g : h[k] = g[k]
            /\ h[Len(h)] = NewItem(r, junk)
<1>. DEFINE item == NewItem(r, junk)
            h == Append(g, item)
<1>1. /\ ItemInv(item) /\ item.status = {"New"} /\ item \in Item
      /\ item.id = r.id /\ item.address = r.address
  BY NewItemKeeps DEF ItemInv
<1>. HIDE DEF item
<1>2. g \in Seq(Item) /\ Len(g) \in Nat /\ DOMAIN g = 1 .. Len(g)
  BY GroupIsFunction DEF GroupInv
<1>3. /\ h \in Seq(Item) /\ Len(h) = Len(g) + 1 /\ DOMAIN h = 1 .. Len(g) + 1
      /\ h[Len(g) + 1] = item /\ \A k \in DOMAIN g : h[k] = g[k]
  BY <1>1, <1>2
<1>. HIDE DEF h
<1>4. \A k \in DOMAIN h : k \in DOMAIN g \/ k = Len(g) + 1
  BY <1>2, <1>3
<1>5. \A k \in DOMAIN h : ItemInv(h[k])
  BY <1>1, <1>3, <1>4 DEF GroupInv
<1>6. \A j, k \in DOMAIN h : h[j].id = h[k].id \/ h[j].address = h[k].address => j = k
  BY <1>1, <1>3, <1>4 DEF GroupInv
<1>7. ASSUME NEW j \in DOMAIN h, NEW k \in DOMAIN h, "New" \in h[j].status, j <= k
      PROVE  "New" \in h[k].status
  <2>1. CASE k = Len(g) + 1
    BY <1>1, <1>3, <2>1
  <2>2. CASE k \in DOMAIN g
    <3>1. j \in DOMAIN g
      BY <1>2, <1>3, <1>7, <2>2
    <3>2. h[j] = g[j] /\ h[k] = g[k]
      BY <1>3, <2>2, <3>1
    <3>. QED
      BY <1>7, <2>2, <3>1, <3>2 DEF GroupInv
  <2>. QED
    BY <1>4, <2>1, <2>2
<1>8. GroupInv(h)
  BY <1>3, <1>5, <1>6, <1>7 DEF GroupInv
<1>. QED
  BY <1>3, <1>8 DEF h, item

\* The items of a list make a group.
LEMMA ListedIsGroup ==
  ASSUME OpcAssumption, NEW request, IsRequest(request), NEW junk \in JunkHandles,
         NEW h, h = Listed(request, junk, Len(request))
  PROVE  GroupInv(h) /\ SameItems(request, h) /\ \A k \in DOMAIN h : "New" \in h[k].status
<1>1. request \in Seq(Entry) /\ Len(request) \in Nat /\ DOMAIN request = 1 .. Len(request)
  BY DEF IsRequest
<1>2. \A k \in DOMAIN request : request[k] \in Entry
  BY <1>1
<1>3. h = [k \in 1 .. Len(request) |-> NewItem(request[k], junk)]
  BY DEF Listed
<1>4. DOMAIN h = DOMAIN request /\ \A k \in DOMAIN request : h[k] = NewItem(request[k], junk)
  BY <1>1, <1>3
<1>5. ASSUME NEW k \in DOMAIN request
      PROVE  /\ ItemInv(h[k]) /\ "New" \in h[k].status
             /\ h[k].id = request[k].id /\ h[k].address = request[k].address
  BY <1>2, <1>4, NewItemKeeps
<1>6. h \in Seq(Item)
  <2>1. \A k \in 1 .. Len(request) : NewItem(request[k], junk) \in Item
    BY <1>1, <1>4, <1>5 DEF ItemInv
  <2>. QED
    BY <1>1, <1>3, <2>1
<1>7. \A j, k \in DOMAIN h : h[j].id = h[k].id \/ h[j].address = h[k].address => j = k
  BY <1>4, <1>5 DEF IsRequest
<1>. QED
  BY <1>4, <1>5, <1>6, <1>7 DEF GroupInv, SameItems

\* The items of a request are found in a group it fits, or added to it.
LEMMA FoundOrAdded ==
  ASSUME OpcAssumption, NEW g, GroupInv(g), NEW request, IsRequest(request),
         NEW single \in BOOLEAN, Fits(g, request, single), single \/ ~HasAll(g, request),
         NEW junk \in JunkHandles, NEW h, h = FindOrAddItems(g, request, junk)
  PROVE  /\ GroupInv(h) /\ HasAll(h, request) /\ Became(g, request, single, h)
         /\ DOMAIN g \subseteq DOMAIN h /\ \A k \in DOMAIN g : h[k] = g[k]
         /\ \A k \in DOMAIN h : k \notin DOMAIN g => ~Chosen(h[k])
<1>1. /\ Len(request) \in Nat /\ DOMAIN request = 1 .. Len(request) /\ Len(request) # 0
      /\ \A k \in DOMAIN request : request[k] \in Entry
  BY DEF IsRequest
<1>2. Len(g) \in Nat /\ DOMAIN g = 1 .. Len(g)
  BY GroupIsFunction
<1>3. CASE single
  <2>1. Len(request) = 1 /\ DOMAIN request = {1} /\ request[1] \in Entry
    BY <1>1, <1>3 DEF Fits
  <2>2. h = After(g, request, junk, 1)
    <3>. DEFINE w == [k \in 0 .. 1 |-> IF k = 0 THEN g ELSE After(g, request, junk, 1)]
    <3>1. w[0] = g /\ w[1] = After(g, request, junk, 1)
      OBVIOUS
    <3>2. w = [k \in 0 .. Len(request) |-> Afters(w, g, request, junk, k)]
      BY <2>1, <3>1 DEF Afters
    <3>. HIDE DEF w
    <3>3. FindOrAddItems(g, request, junk) = w[Len(request)]
      BY <1>1, <3>2, LoopOfItems
    <3>. QED
      BY <2>1, <3>1, <3>3
  <2>3. CASE \E j \in DOMAIN g : g[j].id = request[1].id
    <3>1. h = g
      <4>1. \E item \in Range(g) : item.id = request[1].id
        BY <2>3 DEF Range
      <4>. QED
        BY <2>2, <4>1 DEF After
    <3>2. HasAll(g, request)
      BY <1>3, <2>1, <2>3 DEF HasAll, Fits
    <3>3. SameItems(g, h)
      BY <3>1 DEF SameItems
    <3>. QED
      BY <3>1, <3>2, <3>3 DEF Became
  <2>4. CASE ~\E j \in DOMAIN g : g[j].id = request[1].id
    <3>1. h = Append(g, NewItem(request[1], junk))
      <4>1. ~\E item \in Range(g) : item.id = request[1].id
        BY <2>4 DEF Range
      <4>. QED
        BY <2>2, <4>1 DEF After
    <3>2. \A k \in DOMAIN g : g[k].id # request[1].id /\ g[k].address # request[1].address
      BY <2>1, <2>4 DEF Fits
    <3>3. /\ GroupInv(h) /\ Len(h) = Len(g) + 1 /\ \A k \in DOMAIN g : h[k] = g[k]
          /\ h[Len(h)] = NewItem(request[1], junk)
      <4>. DEFINE r == request[1]
      <4>1. /\ r \in Entry /\ h = Append(g, NewItem(r, junk))
            /\ \A k \in DOMAIN g : g[k].id # r.id /\ g[k].address # r.address
        BY <2>1, <3>1, <3>2
      <4>. HIDE DEF r
      <4>2. /\ GroupInv(h) /\ Len(h) = Len(g) + 1 /\ \A k \in DOMAIN g : h[k] = g[k]
            /\ h[Len(h)] = NewItem(r, junk)
        BY <4>1, AppendKeeps
      <4>. QED
        BY <4>2 DEF r
    <3>4. /\ h[Len(h)].id = request[1].id /\ h[Len(h)].address = request[1].address
          /\ ~Chosen(h[Len(h)])
      BY <3>3 DEF NewItem, Chosen
    <3>5. DOMAIN h = 1 .. Len(g) + 1
      BY <3>3, GroupIsFunction
    <3>6. HasAll(h, request)
      BY <1>2, <2>1, <3>3, <3>4, <3>5 DEF HasAll
    <3>7. SameItems(Append(g, request[1]), h)
      <4>. DEFINE p == Append(g, request[1])
      <4>1. /\ DOMAIN p = 1 .. Len(g) + 1 /\ p[Len(g) + 1] = request[1]
            /\ \A k \in DOMAIN g : p[k] = g[k]
        BY <1>2 DEF GroupInv
      <4>. HIDE DEF p
      <4>2. \A k \in DOMAIN p : k \in DOMAIN g \/ k = Len(g) + 1
        BY <1>2, <4>1
      <4>3. SameItems(p, h)
        BY <3>3, <3>4, <3>5, <4>1, <4>2 DEF SameItems
      <4>. QED
        BY <4>3 DEF p
    <3>8. \A k \in DOMAIN h : k \in DOMAIN g \/ k = Len(h)
      BY <1>2, <3>3, <3>5
    <3>9. DOMAIN g \subseteq DOMAIN h
      BY <1>2, <3>5
    <3>. QED
      BY <1>3, <3>2, <3>3, <3>4, <3>6, <3>7, <3>8, <3>9 DEF Became
  <2>. QED
    BY <2>3, <2>4
<1>4. CASE ~single
  <2>1. g = <<>>
    BY <1>4 DEF Fits, HasAll
  <2>2. h = Listed(request, junk, Len(request))
    <3>. DEFINE w == [k \in 0 .. Len(request) |-> Listed(request, junk, k)]
    <3>1. ASSUME NEW k \in 0 .. Len(request)
          PROVE  w[k] = Afters(w, g, request, junk, k)
      <4>1. CASE k = 0
        <5>1. Listed(request, junk, 0) = <<>>
          BY DEF Listed
        <5>. QED
          BY <2>1, <4>1, <5>1 DEF Afters
      <4>2. CASE k # 0
        <5>1. k \in 1 .. Len(request) /\ k - 1 \in 0 .. Len(request)
          BY <1>1, <4>2
        <5>2. w[k] = Listed(request, junk, k) /\ w[k - 1] = Listed(request, junk, k - 1)
          BY <5>1
        <5>. HIDE DEF w
        <5>. QED
          BY <4>2, <5>1, <5>2, ListedGrows DEF Afters
      <4>. QED
        BY <4>1, <4>2
    <3>2. w = [k \in 0 .. Len(request) |-> Afters(w, g, request, junk, k)]
      <4>1. w = [k \in 0 .. Len(request) |-> w[k]]
        OBVIOUS
      <4>. HIDE DEF w
      <4>. QED
        BY <3>1, <4>1
    <3>3. w[Len(request)] = Listed(request, junk, Len(request))
      BY <1>1
    <3>. HIDE DEF w
    <3>. QED
      BY <1>1, <3>2, <3>3, LoopOfItems
  <2>3. GroupInv(h) /\ SameItems(request, h) /\ \A k \in DOMAIN h : "New" \in h[k].status
    BY <2>2, ListedIsGroup
  <2>4. \A k \in DOMAIN h : ~Chosen(h[k])
    <3>1. \A k \in DOMAIN h : h[k] = NewItem(request[k], junk)
      BY <2>2 DEF Listed
    <3>. QED
      BY <3>1 DEF NewItem, Chosen
  <2>5. HasAll(h, request)
    BY <2>3 DEF HasAll, SameItems
  <2>6. DOMAIN g = {}
    BY <2>1
  <2>. QED
    BY <1>4, <2>1, <2>3, <2>4, <2>5, <2>6 DEF Became
<1>. QED
  BY <1>3, <1>4

\* The group of a call before the items are chosen: nothing is chosen that was not,
\* and if the call ends here no item that the server knows is left chosen but
\* beside one it has refused.
LEMMA Prepared ==
  ASSUME OpcAssumption, NEW g, GroupInv(g), Rested(g), NEW request,
         IsRequest(request), NEW single \in BOOLEAN, Fits(g, request, single),
         NEW q \in Prepare(g, request, single)
  PROVE  /\ GroupInv(q.items) /\ HasAll(q.items, request) /\ Became(g, request, single, q.items)
         /\ \A k \in DOMAIN q.items :
              Chosen(q.items[k]) =>
                /\ k \in DOMAIN g /\ Chosen(g[k]) /\ q.items[k].address = g[k].address
                /\ Valid(q.items[k]) => Valid(g[k])
         /\ ~single \/ ~q.ok => Rested(q.items)
<1>. DEFINE Missing == \/ \E r \in Range(request) : \A item \in Range(g) : item.id # r.id
                       \/ single /\ ~Valid(ItemOf(g, request[1].id))
<1>1. CASE ~Missing
  <2>1. q = [items |-> g, ok |-> TRUE]
    BY <1>1 DEF Prepare
  <2>2. q.items = g /\ q.ok
    BY <2>1
  <2>3. HasAll(g, request)
    <3>1. ASSUME NEW k \in DOMAIN request PROVE \E j \in DOMAIN g : g[j].id = request[k].id
      <4>1. request[k] \in Range(request)
        BY DEF Range
      <4>2. PICK item \in Range(g) : item.id = request[k].id
        BY <1>1, <4>1
      <4>. QED
        BY <4>2 DEF Range
    <3>. QED
      BY <3>1 DEF HasAll, Fits
  <2>4. SameItems(g, g)
    BY DEF SameItems
  <2>. QED
    BY <2>2, <2>3, <2>4 DEF Became
<1>2. CASE Missing
  <2>0. PICK junk \in JunkHandles : \E o \in AddItems(FindOrAddItems(g, request, junk)) :
          q = [items |-> o.items, ok |-> o.hr # "FAILED" /\ (single => o.hr = "S_OK")]
    BY <1>2 DEF Prepare
  <2>1. PICK o \in AddItems(FindOrAddItems(g, request, junk)) :
          q = [items |-> o.items, ok |-> o.hr # "FAILED" /\ (single => o.hr = "S_OK")]
    BY <2>0
  <2>2. q.items = o.items /\ (~q.ok => o.hr # "S_OK")
    BY <2>1
  <2>3. single \/ ~HasAll(g, request)
    <3>. SUFFICES ASSUME ~single PROVE ~HasAll(g, request)
      OBVIOUS
    <3>1. PICK r \in Range(request) : \A item \in Range(g) : item.id # r.id
      BY <1>2
    <3>. QED
      BY <3>1 DEF HasAll, Range
  <2>. DEFINE h == FindOrAddItems(g, request, junk)
  <2>4. /\ GroupInv(h) /\ HasAll(h, request) /\ Became(g, request, single, h)
        /\ DOMAIN g \subseteq DOMAIN h /\ \A k \in DOMAIN g : h[k] = g[k]
        /\ \A k \in DOMAIN h : k \notin DOMAIN g => ~Chosen(h[k])
    BY <2>3, FoundOrAdded
  <2>. o \in AddItems(h)
    OBVIOUS
  <2>. HIDE DEF h, Missing
  <2>5. /\ GroupInv(o.items) /\ SameItems(h, o.items)
        /\ \A k \in DOMAIN h : Chosen(o.items[k]) => Chosen(h[k])
        /\ \A k \in DOMAIN h : ~Valid(h[k]) => ~Valid(o.items[k])
        /\ Rested(h) /\ o.hr # "S_OK" => Rested(o.items)
    BY <2>4, AddItemsKeeps
  <2>6. Rested(h)
    BY <2>4 DEF Rested
  <2>7. HasAll(o.items, request)
    BY <2>4, <2>5 DEF HasAll, SameItems
  <2>8. Became(g, request, single, o.items)
    <3>1. \A w : SameItems(w, h) => SameItems(w, o.items)
      BY <2>5 DEF SameItems
    <3>. QED
      BY <2>4, <3>1 DEF Became
  <2>9. ASSUME NEW k \in DOMAIN o.items, Chosen(o.items[k])
        PROVE  /\ k \in DOMAIN g /\ Chosen(g[k]) /\ o.items[k].address = g[k].address
               /\ Valid(o.items[k]) => Valid(g[k])
    <3>1. k \in DOMAIN h /\ o.items[k].address = h[k].address
      BY <2>5 DEF SameItems
    <3>2. Chosen(h[k]) /\ (~Valid(h[k]) => ~Valid(o.items[k]))
      BY <2>5, <2>9, <3>1
    <3>3. k \in DOMAIN g /\ h[k] = g[k]
      BY <2>4, <3>1, <3>2
    <3>. QED
      BY <3>1, <3>2, <3>3
  <2>10. ~single => Rested(o.items)
    <3>. SUFFICES ASSUME ~single PROVE \A k \in DOMAIN o.items : ~Chosen(o.items[k])
      BY DEF Rested
    <3>1. g = <<>>
      BY <2>3 DEF Fits, HasAll
    <3>. QED
      BY <2>9, <3>1
  <2>. QED
    BY <2>2, <2>5, <2>6, <2>7, <2>8, <2>9, <2>10
<1>. QED
  BY <1>1, <1>2

-----------------------------------------------------------------------------
(* The items of a request are chosen                                       *)

\* Only one entry has the identifier of an item.
LEMMA EntryOf ==
  ASSUME NEW g, NEW request, IsRequest(request)
  PROVE  /\ \A j \in DOMAIN g : g[j].id \in Requested(request) <=>
              \E k \in DOMAIN request : g[j].id = request[k].id
         /\ \A k \in DOMAIN request :
              (CHOOSE r \in Range(request) : r.id = request[k].id) = request[k]
<1>1. \A j \in DOMAIN g : g[j].id \in Requested(request) <=>
        \E k \in DOMAIN request : g[j].id = request[k].id
  BY DEF Requested
<1>2. ASSUME NEW k \in DOMAIN request
      PROVE  (CHOOSE r \in Range(request) : r.id = request[k].id) = request[k]
  <2>1. Range(request) = {request[j] : j \in DOMAIN request}
    BY DEF Range
  <2>2. \A r \in Range(request) : r.id = request[k].id => r = request[k]
    BY <2>1 DEF IsRequest
  <2>. QED
    BY <2>1, <2>2
<1>. QED
  BY <1>1, <1>2

LEMMA InitReadingKeeps ==
  ASSUME NEW g, GroupInv(g), NEW request, NEW h, h = InitReading(g, request)
  PROVE  /\ GroupInv(h) /\ SameItems(g, h) /\ AlikeItems(g, h)
         /\ \A k \in DOMAIN g : /\ Chosen(h[k]) <=> Chosen(g[k])
                                /\ g[k].id \in Requested(request) => "ForRead" \in h[k].status
<1>1. h = [k \in DOMAIN g |-> h[k]] /\ DOMAIN h = DOMAIN g
  BY DEF InitReading
<1>2. ASSUME NEW k \in DOMAIN g
      PROVE  /\ ItemInv(h[k]) /\ Alike(g[k], h[k]) /\ (Chosen(h[k]) <=> Chosen(g[k]))
             /\ g[k].id \in Requested(request) => "ForRead" \in h[k].status
  <2>1. ItemInv(g[k])
    BY DEF GroupInv
  <2>2. CASE g[k].id \in Requested(request)
    <3>1. h[k] = [g[k] EXCEPT !.status = @ \cup {"ForRead"}]
      BY <2>2 DEF InitReading
    <3>. QED
      BY <2>1, <3>1, ChosenToRead DEF Chosen
  <2>3. CASE g[k].id \notin Requested(request)
    <3>1. h[k] = g[k]
      BY <2>3 DEF InitReading
    <3>. QED
      BY <2>1, <2>3, <3>1 DEF Alike
  <2>. QED
    BY <2>2, <2>3
<1>3. AlikeItems(g, h)
  BY <1>1, <1>2 DEF AlikeItems
<1>. QED
  BY <1>1, <1>2, <1>3, GroupKept

\* An item that is asked for gets the value to write, the others stay as they are.
LEMMA InitWritingKeeps ==
  ASSUME NEW g, GroupInv(g), NEW request, IsRequest(request),
         \A k \in DOMAIN request : request[k].value \in Values,
         NEW h, h = InitWriting(g, request)
  PROVE  /\ GroupInv(h) /\ SameItems(g, h) /\ AlikeItems(g, h)
         /\ \A j \in DOMAIN g :
              \/ h[j] = g[j] /\ \A k \in DOMAIN request : g[j].id # request[k].id
              \/ /\ Chosen(h[j])
                 /\ \E k \in DOMAIN request :
                      g[j].id = request[k].id /\ h[j].value = request[k].value
<1>1. h = [j \in DOMAIN g |-> h[j]] /\ DOMAIN h = DOMAIN g
  <2>. DEFINE e(j) == IF g[j].id \in Requested(request)
                      THEN [g[j] EXCEPT !.status = @ \cup {"ForWrite"},
                                        !.value = (CHOOSE r \in Range(request) :
                                                     r.id = g[j].id).value]
                      ELSE g[j]
  <2>1. h = [j \in DOMAIN g |-> e(j)]
    BY DEF InitWriting
  <2>. HIDE DEF e
  <2>. QED
    BY <2>1
<1>2. ASSUME NEW j \in DOMAIN g
      PROVE  /\ ItemInv(h[j]) /\ Alike(g[j], h[j])
             /\ \/ h[j] = g[j] /\ \A k \in DOMAIN request : g[j].id # request[k].id
                \/ /\ Chosen(h[j])
                   /\ \E k \in DOMAIN request :
                        g[j].id = request[k].id /\ h[j].value = request[k].value
  <2>1. ItemInv(g[j])
    BY DEF GroupInv
  <2>2. CASE g[j].id \in Requested(request)
    <3>1. PICK k \in DOMAIN request : g[j].id = request[k].id
      BY <2>2, EntryOf
    <3>2. /\ request[k].value \in Values
          /\ (CHOOSE r \in Range(request) : r.id = g[j].id) = request[k]
      BY <3>1, EntryOf
    <3>3. h[j] = [g[j] EXCEPT !.status = @ \cup {"ForWrite"}, !.value = request[k].value]
      BY <2>2, <3>2 DEF InitWriting
    <3>4. ItemInv(h[j]) /\ Alike(g[j], h[j]) /\ Chosen(h[j]) /\ h[j].value = request[k].value
      <4>. DEFINE v == request[k].value
                  item == g[j]
                  chosen == h[j]
      <4>1. /\ ItemInv(item) /\ v \in Values
            /\ chosen = [item EXCEPT !.status = @ \cup {"ForWrite"}, !.value = v]
        BY <2>1, <3>2, <3>3
      <4>. HIDE DEF v, item, chosen
      <4>2. ItemInv(chosen) /\ Alike(item, chosen) /\ Chosen(chosen) /\ chosen.value = v
        BY <4>1, ChosenToWrite
      <4>. QED
        BY <4>2 DEF v, item, chosen
    <3>. QED
      BY <3>1, <3>2, <3>4
  <2>3. CASE g[j].id \notin Requested(request)
    <3>1. h[j] = g[j]
      BY <2>3 DEF InitWriting
    <3>. QED
      BY <2>1, <2>3, <3>1, EntryOf DEF Alike
  <2>. QED
    BY <2>2, <2>3
<1>3. AlikeItems(g, h)
  BY <1>1, <1>2 DEF AlikeItems
<1>. QED
  BY <1>1, <1>2, <1>3, GroupKept

-----------------------------------------------------------------------------
(* Reads and writes of a group                                             *)

\* What the server says of a handle it knows is the value of one of its items, if
\* it says whose.
LEMMA StateOfIts ==
  ASSUME OpcAssumption, plc \in [Addresses -> Values],
         NEW g, GroupInv(g), NEW k \in DOMAIN g, NEW answer,
         NEW s, s = StateOf(g, g[k].handle, answer), s.client # NoHandle
  PROVE  \E j \in DOMAIN g : /\ Known(g[j]) /\ s.client = g[j].id
                             /\ s.value = plc[g[j].address] /\ s.value \in Values
                             /\ s.good \in BOOLEAN
<1>. DEFINE h == g[k].handle
<1>1. s = [client |-> IF h \in Registered(g) /\ answer # "silent" THEN h ELSE NoHandle,
           good |-> h \in Registered(g) /\ answer = "good",
           value |-> IF h \in Registered(g) THEN plc[ItemOf(g, h).address] ELSE NoValue]
  BY DEF StateOf
<1>. HIDE DEF h
<1>2. /\ h \in Registered(g) /\ s.client = h /\ s.value = plc[ItemOf(g, h).address]
      /\ s.good \in BOOLEAN
  BY <1>1
<1>3. PICK j \in DOMAIN g : Known(g[j]) /\ h = g[j].id
  BY <1>2, HandlesKnown
<1>4. ItemOf(g, h) = g[j]
  BY <1>3, ItemOfIts
<1>5. plc[g[j].address] \in Values
  BY GroupIsFunction DEF Item
<1>. QED
  BY <1>2, <1>3, <1>4, <1>5

\* A read stores in an item what the PLC holds at its address, whichever answer it
\* was, or leaves it to be read.
LEMMA ReadItemsKeeps ==
  ASSUME OpcAssumption, plc \in [Addresses -> Values],
         NEW g, GroupInv(g), NEW o \in ReadItems(g)
  PROVE  /\ GroupInv(o.items) /\ SameItems(g, o.items) /\ AlikeItems(g, o.items)
         /\ \A k \in DOMAIN g : Chosen(o.items[k]) <=> Chosen(g[k])
         /\ \A k \in DOMAIN g :
              "ForRead" \in g[k].status /\ "ForRead" \notin o.items[k].status =>
                o.items[k].value = plc[g[k].address]
<1>. DEFINE asked == GetItems2Read(g)
<1>1. \A k \in DOMAIN g : /\ ItemInv(g[k]) /\ g[k].id \in Nat \ {0}
                          /\ k \in asked <=> Valid(g[k]) /\ "ForRead" \in g[k].status
                          /\ Known(g[k]) => Valid(g[k])
  BY GroupIsFunction DEF GroupInv, GetItems2Read, Known, Valid
<1>2. Len(g) \in Nat /\ DOMAIN g = 1 .. Len(g) /\ asked \subseteq DOMAIN g
  BY GroupIsFunction DEF GetItems2Read
<1>. HIDE DEF asked
<1>3. CASE o.items = g /\ (o.raised \/ asked = {})
  <2>1. \A k \in DOMAIN g : Alike(g[k], g[k])
    BY DEF Alike
  <2>. QED
    BY <1>1, <1>3, <2>1 DEF SameItems, AlikeItems
<1>4. CASE ~(o.items = g /\ (o.raised \/ asked = {}))
  <2>1. PICK answers \in [asked -> {"good", "bad", "fail", "silent"}] :
          o = [items |-> SetReadValue(g, [n \in asked |->
                                            StateOf(g, g[n].handle, answers[n])]),
               raised |-> FALSE]
    <3>. DEFINE Outcome(answers) ==
                  [items |-> SetReadValue(g, [n \in asked |->
                                                StateOf(g, g[n].handle, answers[n])]),
                   raised |-> FALSE]
    <3>0. ReadItems(g) =
            IF asked = {} THEN {[items |-> g, raised |-> FALSE]}
            ELSE {[items |-> g, raised |-> TRUE]}
                 \cup {Outcome(answers) :
                         answers \in (IF alive THEN [asked -> {"good", "bad", "fail", "silent"}]
                                      ELSE {})}
      BY Zenon DEF ReadItems, asked
    <3>. HIDE DEF Outcome
    <3>1. \/ o = [items |-> g, raised |-> FALSE] /\ asked = {}
          \/ o = [items |-> g, raised |-> TRUE]
          \/ \E answers \in [asked -> {"good", "bad", "fail", "silent"}] : o = Outcome(answers)
      BY <3>0
    <3>2. o = [items |-> g, raised |-> FALSE] \/ o = [items |-> g, raised |-> TRUE]
            => o.items = g
      OBVIOUS
    <3>3. o = [items |-> g, raised |-> TRUE] => o.raised
      OBVIOUS
    <3>4. \E answers \in [asked -> {"good", "bad", "fail", "silent"}] : o = Outcome(answers)
      BY <1>4, <3>1, <3>2, <3>3
    <3>. QED
      BY <3>4 DEF Outcome
  <2>. DEFINE states == [n \in asked |-> StateOf(g, g[n].handle, answers[n])]
              clients == [n \in DOMAIN states |-> states[n].client]
              answer == AnswerOf(IDs(g), clients)
              h == o.items
  <2>2. h = SetReadValue(g, states)
    BY <2>1
  <2>. DEFINE e(k) == IF answer[k] = 0 THEN g[k] ELSE ReadAs(g[k], states[answer[k]])
  <2>3. /\ DOMAIN h = DOMAIN g /\ h = [k \in DOMAIN g |-> h[k]]
        /\ \A k \in DOMAIN g : h[k] = e(k)
    <3>1. h = [k \in DOMAIN g |-> e(k)]
      BY <2>2 DEF SetReadValue, ReadAs
    <3>. HIDE DEF e, h
    <3>. QED
      BY <3>1
  <2>4. DOMAIN IDs(g) = 1 .. Len(g) /\ \A k \in DOMAIN g : IDs(g)[k] = g[k].id
    BY <1>2 DEF IDs
  <2>5. ASSUME NEW n \in asked, clients[n] # NoHandle
        PROVE  \E j \in DOMAIN g : /\ Known(g[j]) /\ clients[n] = g[j].id
                                   /\ states[n].value = plc[g[j].address]
                                   /\ states[n].value \in Values /\ states[n].good \in BOOLEAN
    <3>. DEFINE s == StateOf(g, g[n].handle, answers[n])
    <3>1. n \in DOMAIN g /\ states[n] = s /\ clients[n] = s.client
      BY <1>2
    <3>2. \E j \in DOMAIN g : /\ Known(g[j]) /\ s.client = g[j].id
                              /\ s.value = plc[g[j].address] /\ s.value \in Values
                              /\ s.good \in BOOLEAN
      <4>. HIDE DEF states, clients
      <4>. QED
        BY <2>5, <3>1, StateOfIts
    <3>. HIDE DEF s, states, clients
    <3>. QED
      BY <3>1, <3>2
  <2>6. DOMAIN clients = asked /\ DOMAIN clients \subseteq 1 .. Len(g)
    BY <1>2
  <2>. HIDE DEF states, clients, e, h
  <2>7. ASSUME NEW k \in DOMAIN g, answer[k] # 0
        PROVE  /\ Known(g[k])
               /\ states[answer[k]].value = plc[g[k].address]
               /\ states[answer[k]].value \in Values /\ states[answer[k]].good \in BOOLEAN
    <3>. DEFINE p == answer[k]
    <3>1. p \in asked /\ g[k].id = clients[p]
      BY <1>2, <2>4, <2>6, <2>7, AnswerFits
    <3>. HIDE DEF p
    <3>2. clients[p] # NoHandle
      BY <1>1, <3>1 DEF NoHandle
    <3>3. PICK j \in DOMAIN g : /\ Known(g[j]) /\ clients[p] = g[j].id
                               /\ states[p].value = plc[g[j].address]
                               /\ states[p].value \in Values /\ states[p].good \in BOOLEAN
      BY <2>5, <3>1, <3>2
    <3>4. j = k
      BY <3>1, <3>3 DEF GroupInv
    <3>. QED
      BY <3>3, <3>4 DEF p
  <2>. HIDE DEF answer
  <2>8. ASSUME NEW k \in DOMAIN g
        PROVE  /\ ItemInv(h[k]) /\ Alike(g[k], h[k]) /\ (Chosen(h[k]) <=> Chosen(g[k]))
               /\ answer[k] # 0 => h[k].value = plc[g[k].address]
    <3>1. CASE answer[k] = 0
      BY <1>1, <2>3, <3>1 DEF Alike, e
    <3>2. CASE answer[k] # 0
      <4>. DEFINE item == g[k]
                  s == states[answer[k]]
                  done == h[k]
      <4>1. Known(item) /\ ItemInv(item)
        BY <1>1, <2>7, <3>2
      <4>2. /\ done = ReadAs(item, s)
            /\ s.value \in Values /\ s.good \in BOOLEAN /\ s.value = plc[item.address]
        BY <2>3, <2>7, <3>2 DEF e
      <4>. HIDE DEF item, s, done
      <4>3. /\ ItemInv(done) /\ Alike(item, done) /\ (Chosen(done) <=> Chosen(item))
            /\ done.value = s.value
        BY <4>1, <4>2, ReadDone
      <4>. QED
        BY <4>2, <4>3 DEF item, done
    <3>. QED
      BY <3>1, <3>2
  <2>9. AlikeItems(g, h)
    BY <2>3, <2>8 DEF AlikeItems
  <2>10. GroupInv(h) /\ SameItems(g, h)
    BY <2>3, <2>8, <2>9, GroupKept
  <2>11. \A k \in DOMAIN g : answer[k] = 0 => h[k] = g[k]
    BY <2>3 DEF e
  <2>. QED
    BY <2>8, <2>9, <2>10, <2>11 DEF h
<1>. QED
  BY <1>3, <1>4

\* No new item has the handle of that position by chance.
Alone(g, k) == \A i \in DOMAIN g : "New" \in g[i].status => g[i].handle # g[k].handle

\* The server writes to the address of the item it knows under a handle what the
\* item asked for with that handle holds, and to no other.
LEMMA WrittenIts ==
  ASSUME OpcAssumption, plc \in [Addresses -> Values], NEW g, GroupInv(g),
         NEW done \in SUBSET {k \in DOMAIN g : Chosen(g[k]) /\ g[k].handle \in Registered(g)}
  PROVE  /\ Written(g, done) \in [Addresses -> Values]
         /\ \A k \in done : Known(g[k]) /\ Alone(g, k) =>
              Written(g, done)[g[k].address] = g[k].value
         /\ \A a \in Addresses : Written(g, done)[a] # plc[a] =>
              \E k \in done, j \in DOMAIN g :
                /\ Known(g[j]) /\ g[k].handle = g[j].handle /\ g[j].address = a
                /\ Written(g, done)[a] = g[k].value
<1>. DEFINE At(a) == {k \in done : \E item \in Range(g) : item.id = g[k].handle
                                                          /\ item.address = a}
            w == Written(g, done)
<1>1. \A k \in DOMAIN g : g[k] \in Item /\ ItemInv(g[k])
  BY GroupIsFunction DEF GroupInv
<1>2. ASSUME NEW k \in done
      PROVE  k \in DOMAIN g /\ g[k].value \in Values /\ g[k].handle \in Registered(g)
  BY <1>1 DEF ItemInv
<1>3. ASSUME NEW a \in Addresses, NEW k \in At(a)
      PROVE  \E j \in DOMAIN g : Known(g[j]) /\ g[k].handle = g[j].handle /\ g[j].address = a
  <2>1. Range(g) = {g[j] : j \in DOMAIN g}
    BY DEF Range
  <2>2. PICK j \in DOMAIN g : g[j].id = g[k].handle /\ g[j].address = a
    BY <2>1
  <2>3. PICK i \in DOMAIN g : Known(g[i]) /\ g[k].handle = g[i].id /\ g[i].handle = g[i].id
    <3>1. g[k].handle \in Registered(g)
      BY <1>2
    <3>. QED
      BY <3>1, HandlesKnown
  <2>4. i = j
    BY <2>2, <2>3 DEF GroupInv
  <2>. QED
    BY <2>2, <2>3, <2>4
<1>4. ASSUME NEW k \in done, Known(g[k]) PROVE k \in At(g[k].address)
  <2>1. g[k] \in Range(g)
    BY <1>2 DEF Range
  <2>2. g[k].handle = g[k].id
    BY <1>1, <1>2, <1>4 DEF ItemInv
  <2>. QED
    BY <2>1, <2>2
<1>5. \A a : At(a) \subseteq done
  OBVIOUS
<1>. DEFINE m(a) == CHOOSE k \in At(a) : \A j \in At(a) : j <= k
            e(a) == IF At(a) = {} THEN plc[a] ELSE g[m(a)].value
<1>6. w = [a \in Addresses |-> e(a)]
  BY DEF Written
<1>. HIDE DEF w, At
<1>7. ASSUME NEW a, At(a) # {} PROVE m(a) \in At(a)
  <2>1. At(a) \subseteq 1 .. Len(g) /\ Len(g) \in Nat
    BY <1>2, <1>5, GroupIsFunction
  <2>2. \E k \in At(a) : \A j \in At(a) : j <= k
    BY <1>7, <2>1, GreatestNumber
  <2>. QED
    BY <2>2
<1>. HIDE DEF m
<1>8. \A a \in Addresses : w[a] = e(a)
  BY <1>6
<1>9. ASSUME NEW k \in done, Known(g[k]), Alone(g, k)
      PROVE  w[g[k].address] = g[k].value
  <2>. DEFINE a == g[k].address
  <2>1. a \in Addresses /\ k \in At(a)
    BY <1>1, <1>2, <1>4, <1>9 DEF Item
  <2>2. ASSUME NEW i \in At(a) PROVE i = k
    <3>1. i \in DOMAIN g /\ k \in DOMAIN g
      BY <1>2, <1>5
    <3>2. PICK j \in DOMAIN g : Known(g[j]) /\ g[i].handle = g[j].handle /\ g[j].address = a
      BY <1>3, <2>1
    <3>3. j = k
      BY <3>1, <3>2 DEF GroupInv
    <3>. QED
      BY <1>9, <3>1, <3>2, <3>3, HandlesKnown DEF Alone
  <2>3. m(a) = k
    BY <1>7, <2>1, <2>2
  <2>. QED
    BY <1>8, <2>1, <2>3
<1>10. ASSUME NEW a \in Addresses, w[a] # plc[a]
       PROVE  \E k \in done, j \in DOMAIN g :
                /\ Known(g[j]) /\ g[k].handle = g[j].handle /\ g[j].address = a
                /\ w[a] = g[k].value
  <2>1. At(a) # {} /\ w[a] = g[m(a)].value
    BY <1>8, <1>10
  <2>2. m(a) \in At(a) /\ m(a) \in done
    BY <1>5, <1>7, <2>1
  <2>. QED
    BY <1>3, <2>1, <2>2
<1>11. \A a \in Addresses : w[a] \in Values
  BY <1>2, <1>8, <1>10
<1>12. w \in [Addresses -> Values]
  BY <1>6, <1>11
<1>. QED
  BY <1>9, <1>10, <1>12 DEF w

\* A write leaves no item chosen that the server knows; it changes the addresses of
\* the handles of items that are chosen, and all of them if it says so.
LEMMA WriteItemsKeeps ==
  ASSUME OpcAssumption, plc \in [Addresses -> Values],
         NEW g, GroupInv(g), NEW o \in WriteItems(g)
  PROVE  /\ GroupInv(o.items) /\ SameItems(g, o.items) /\ AlikeItems(g, o.items)
         /\ \A k \in DOMAIN g :
              /\ Chosen(o.items[k]) => ~Known(o.items[k])
              /\ o.items[k].value = g[k].value /\ o.items[k].handle = g[k].handle
         /\ o.plc \in [Addresses -> Values]
         /\ \A a \in Addresses : o.plc[a] # plc[a] =>
              \E k, j \in DOMAIN g : /\ Chosen(g[k]) /\ Valid(g[k]) /\ o.plc[a] = g[k].value
                                     /\ Known(g[j]) /\ g[k].handle = g[j].handle
                                     /\ g[j].address = a
         /\ o.hr = "S_OK" =>
              \A k \in DOMAIN g : Chosen(g[k]) /\ Valid(g[k]) =>
                /\ g[k].handle \in Registered(g)
                /\ Known(g[k]) /\ Alone(g, k) => o.plc[g[k].address] = g[k].value
<1>. DEFINE asked == GetItems2Write(g)
            known == {k \in asked : g[k].handle \in Registered(g)}
            handles == [k \in asked |-> g[k].handle]
            keys == [k \in DOMAIN g |-> g[k].handle]
            answer == AnswerOf(keys, handles)
            done(items) == SetWriteResult(items, handles)
<1>1. \A k \in DOMAIN g : /\ ItemInv(g[k])
                          /\ k \in asked <=> Valid(g[k]) /\ Chosen(g[k])
                          /\ Known(g[k]) => Valid(g[k])
  BY DEF GroupInv, GetItems2Write, Known, Valid, Chosen
<1>2. Len(g) \in Nat /\ DOMAIN g = 1 .. Len(g) /\ asked \subseteq DOMAIN g
  BY GroupIsFunction DEF GetItems2Write
<1>3. known \subseteq {k \in DOMAIN g : Chosen(g[k]) /\ g[k].handle \in Registered(g)}
  BY <1>1, <1>2
<1>4. \/ o = [items |-> g, hr |-> "S_FALSE", plc |-> plc] /\ asked = {}
      \/ o = [items |-> done(g), hr |-> "FAILED", plc |-> plc]
      \/ \E d \in SUBSET known :
           o = [items |-> done(g), hr |-> IF d = asked THEN "S_OK" ELSE "S_FALSE",
                plc |-> Written(g, d)]
  BY DEF WriteItems
<1>. HIDE DEF asked, known
<1>5. /\ (o.items = g /\ asked = {}) \/ o.items = done(g)
      /\ \/ o.plc = plc /\ o.hr # "S_OK"
         \/ \E d \in SUBSET known :
              o.plc = Written(g, d) /\ (o.hr = "S_OK" => d = asked)
  BY <1>4
<1>6. /\ GroupInv(o.items) /\ SameItems(g, o.items) /\ AlikeItems(g, o.items)
      /\ \A k \in DOMAIN g :
           /\ Chosen(o.items[k]) => ~Known(o.items[k])
           /\ o.items[k].value = g[k].value /\ o.items[k].handle = g[k].handle
  <2>1. CASE o.items = g /\ asked = {}
    <3>1. AlikeItems(g, g) /\ SameItems(g, g)
      BY DEF AlikeItems, Alike, SameItems
    <3>. QED
      BY <1>1, <2>1, <3>1
  <2>2. CASE o.items = done(g)
    <3>. DEFINE h == o.items
                e(k) == IF answer[k] = 0 THEN g[k]
                        ELSE [g[k] EXCEPT !.status = @ \ {"ForWrite"}]
    <3>1. h = [k \in DOMAIN g |-> e(k)]
      BY <2>2 DEF SetWriteResult
    <3>2. DOMAIN handles = asked /\ \A k \in asked : handles[k] = g[k].handle
      OBVIOUS
    <3>3. DOMAIN keys = 1 .. Len(g) /\ \A k \in DOMAIN g : keys[k] = g[k].handle
      BY <1>2
    <3>. HIDE DEF handles, keys, h
    <3>4. ASSUME NEW k \in DOMAIN g, Known(g[k]), Chosen(g[k])
          PROVE  answer[k] = k
      <4>1. k \in asked
        BY <1>1, <3>4
      <4>2. Aligned(keys, handles, k)
        <5>1. \A j \in asked : handles[j] = keys[j]
          BY <1>2, <3>2, <3>3
        <5>2. \A i \in DOMAIN g : g[i].handle = g[k].handle => k <= i
          <6>1. \A i \in DOMAIN g : g[i].handle = g[k].handle => i = k \/ k < i
            BY <3>4, HandlesKnown
          <6>. QED
            BY <1>2, <6>1
        <5>. QED
          BY <1>2, <3>2, <3>3, <4>1, <5>1, <5>2 DEF Aligned
      <4>. QED
        BY <1>2, <3>2, <3>3, <4>1, <4>2, AnswerOfItself
    <3>. HIDE DEF answer
    <3>5. DOMAIN h = DOMAIN g /\ h = [k \in DOMAIN g |-> h[k]] /\ \A k \in DOMAIN g : h[k] = e(k)
      <4>. HIDE DEF e
      <4>. QED
        BY <3>1
    <3>6. ASSUME NEW k \in DOMAIN g
          PROVE  /\ ItemInv(h[k]) /\ Alike(g[k], h[k]) /\ (Chosen(h[k]) => ~Known(h[k]))
                 /\ h[k].value = g[k].value /\ h[k].handle = g[k].handle
      <4>1. CASE answer[k] = 0
        <5>1. h[k] = g[k]
          BY <3>5, <4>1
        <5>2. ~(Known(g[k]) /\ Chosen(g[k]))
          BY <1>2, <3>4, <4>1
        <5>. QED
          BY <1>1, <5>1, <5>2 DEF Alike
      <4>2. CASE answer[k] # 0
        <5>1. h[k] = [g[k] EXCEPT !.status = @ \ {"ForWrite"}]
          BY <3>5, <4>2
        <5>. QED
          BY <1>1, <5>1, WriteDone
      <4>. QED
        BY <4>1, <4>2
    <3>7. AlikeItems(g, h)
      BY <3>5, <3>6 DEF AlikeItems
    <3>8. GroupInv(h) /\ SameItems(g, h)
      BY <3>5, <3>6, <3>7, GroupKept
    <3>. QED
      BY <3>6, <3>7, <3>8 DEF h
  <2>. QED
    BY <1>5, <2>1, <2>2
<1>7. /\ o.plc \in [Addresses -> Values]
      /\ \A a \in Addresses : o.plc[a] # plc[a] =>
           \E k, j \in DOMAIN g : /\ Chosen(g[k]) /\ Valid(g[k]) /\ o.plc[a] = g[k].value
                                  /\ Known(g[j]) /\ g[k].handle = g[j].handle
                                  /\ g[j].address = a
      /\ o.hr = "S_OK" =>
           \A k \in DOMAIN g : Chosen(g[k]) /\ Valid(g[k]) =>
             /\ g[k].handle \in Registered(g)
             /\ Known(g[k]) /\ Alone(g, k) => o.plc[g[k].address] = g[k].value
  <2>1. CASE o.plc = plc /\ o.hr # "S_OK"
    BY <2>1
  <2>2. ASSUME NEW d \in SUBSET known, o.plc = Written(g, d), o.hr = "S_OK" => d = asked
        PROVE  <1>7!:
    <3>1. d \in SUBSET {k \in DOMAIN g : Chosen(g[k]) /\ g[k].handle \in Registered(g)}
      BY <1>3
    <3>2. /\ Written(g, d) \in [Addresses -> Values]
          /\ \A k \in d : Known(g[k]) /\ Alone(g, k) =>
               Written(g, d)[g[k].address] = g[k].value
          /\ \A a \in Addresses : Written(g, d)[a] # plc[a] =>
               \E k \in d, j \in DOMAIN g :
                 /\ Known(g[j]) /\ g[k].handle = g[j].handle /\ g[j].address = a
                 /\ Written(g, d)[a] = g[k].value
      BY <3>1, WrittenIts
    <3>3. \A k \in d : /\ k \in DOMAIN g /\ Chosen(g[k]) /\ Valid(g[k])
                       /\ g[k].handle \in Registered(g)
      BY <3>1, HandlesKnown
    <3>4. o.hr = "S_OK" => \A k \in DOMAIN g : Chosen(g[k]) /\ Valid(g[k]) => k \in d
      BY <1>1, <2>2
    <3>. QED
      BY <2>2, <3>2, <3>3, <3>4
  <2>. QED
    BY <1>5, <2>1, <2>2
<1>. QED
  BY <1>6, <1>7

-----------------------------------------------------------------------------
(* Calls                                                                   *)

LEMMA ConnectionTypes ==
  ASSUME OpcInv, OpcAssumption, NEW name, NEW found \in BOOLEAN, GetOPCGroup(name, found)
  PROVE  g_bMainServer' \in BOOLEAN /\ g_bSndServer' \in BOOLEAN
<1>1. g_bMainServer \in BOOLEAN /\ g_bSndServer \in BOOLEAN
  BY DEF OpcInv
<1>2. CASE UNCHANGED <<g_bMainServer, g_bSndServer>>
  BY <1>1, <1>2
<1>3. CASE /\ g_bMainServer' \in BOOLEAN
           /\ g_bSndServer' = (g_bSndServer \/ (~g_bInitOK /\ EmergencyNode))
  BY <1>3
<1>. QED
  BY <1>2, <1>3 DEF GetOPCGroup, ConnectToServer

LEMMA ItemsOfGroup ==
  ASSUME OpcInv, NEW name
  PROVE  /\ GroupInv(Items(name)) /\ Rested(Items(name))
         /\ Items(name) = <<>> \/ (name \in DOMAIN groups /\ Items(name) = groups[name])
         /\ name \in DOMAIN groups => NameInv(name, Items(name))
<1>1. GroupInv(<<>>) /\ Rested(<<>>)
  BY DEF GroupInv, Rested
<1>. QED
  BY <1>1 DEF Items, OpcInv, GroupsInv

\* The group of that name becomes h.  Only if the call writes are items chosen that
\* were not.
BecomesThat(name, request, single, call, h) ==
  /\ Became(Items(name), request, single, h) /\ HasAll(h, request)
  /\ call = "read" =>
       \A k \in DOMAIN h : Chosen(h[k]) => k \in DOMAIN Items(name) /\ Chosen(Items(name)[k])

\* What a call does to the groups: at most the one of that name changes.
Regrouped(name, request, single, call) ==
  \/ groups' = groups
  \/ \E h : /\ SetItems(name, h) /\ GroupInv(h) /\ Rested(h)
            /\ BecomesThat(name, request, single, call, h)

LEMMA SameBecomes ==
  ASSUME NEW g, NEW request, NEW single, NEW h, Became(g, request, single, h),
         NEW w, SameItems(h, w)
  PROVE  Became(g, request, single, w)
<1>1. \A v : SameItems(v, h) => SameItems(v, w)
  BY DEF SameItems
<1>. QED
  BY <1>1 DEF Became

\* A change that leaves the items chosen as they were.
LEMMA RestedKept ==
  ASSUME NEW g, Rested(g), NEW h, AlikeItems(g, h),
         \A k \in DOMAIN g : Chosen(h[k]) => Chosen(g[k])
  PROVE  Rested(h)
BY DEF Rested, AlikeItems, Alike, Known, Valid

\* Items, Unread, Misplaced and Misdirected, after the step, of an entry of the
\* request or of an address.
ItemsThen(name) == IF name \in DOMAIN groups' THEN groups'[name] ELSE <<>>

UnreadThen(r) ==
  \E item \in Range(ItemsThen(last'.name)) :
    item.id = r.id /\ ("ForRead" \in item.status \/ item.address # r.address)

MisplacedThen(r) ==
  \/ \E item \in Range(ItemsThen(last'.name)) : item.id = r.id /\ item.address # r.address
  \/ \E item, other \in Range(ItemsThen(last'.name)) :
       SharesHandle(item, other) /\ (item.id = r.id \/ other.address = r.address)

MisdirectedThen(request, a) ==
  \E item \in Range(ItemsThen(last'.name)) :
    /\ item.value = plc'[a]
    /\ \/ item.address = a
          /\ \E r \in Range(request) : r.id = item.id /\ r.address # a
       \/ \E other \in Range(ItemsThen(last'.name)) :
            SharesHandle(item, other) /\ other.address = a

LEMMA ThenIsPrime ==
  /\ \A r : UnreadThen(r) <=> Unread(r)'
  /\ \A r : MisplacedThen(r) <=> Misplaced(r)'
  /\ \A a : MisdirectedThen(last'.request, a) <=> Misdirected(a)'
BY DEF UnreadThen, MisplacedThen, MisdirectedThen, ItemsThen, Unread, Misplaced, OtherItem,
       Misdirected, Items

\* A read returns what the PLC holds at the addresses asked for, or no value, or
\* that of an item that is still to be read.
ReadReturns(request) ==
  /\ last'.ret = 0 \/ last'.ret < 0
  /\ last'.ret = 0 =>
       /\ DOMAIN last'.data = DOMAIN request /\ \E k \in DOMAIN request : last'.data[k] # NoValue
       /\ \A k \in DOMAIN request :
            /\ last'.data[k] \in Values \cup {NoValue}
            /\ last'.data[k] \in {NoValue, plc[request[k].address]} \/ UnreadThen(request[k])

LEMMA ResultsRead ==
  ASSUME NEW g, GroupInv(g), NEW request, IsRequest(request), HasAll(g, request)
  PROVE  /\ DOMAIN Results(g, request) = DOMAIN request
         /\ \A k \in DOMAIN request :
              \/ Results(g, request)[k] = NoValue
              \/ \E j \in DOMAIN g : /\ g[j].id = request[k].id
                                     /\ g[j].good /\ Results(g, request)[k] = g[j].value
                                     /\ g[j].value \in Values
<1>1. ASSUME NEW k \in DOMAIN request
      PROVE  \/ Results(g, request)[k] = NoValue
             \/ \E j \in DOMAIN g : /\ g[j].id = request[k].id
                                    /\ g[j].good /\ Results(g, request)[k] = g[j].value
                                    /\ g[j].value \in Values
  <2>1. PICK j \in DOMAIN g : g[j].id = request[k].id
    BY DEF HasAll
  <2>2. ItemOf(g, request[k].id) = g[j]
    BY <2>1, ItemOfIts
  <2>3. Results(g, request)[k] = IF g[j].good THEN g[j].value ELSE NoValue
    BY <2>2 DEF Results
  <2>4. g[j].good => g[j].value \in Values
    BY DEF GroupInv, ItemInv
  <2>. QED
    BY <2>1, <2>3, <2>4
<1>2. DOMAIN Results(g, request) = DOMAIN request
  BY DEF Results
<1>. QED
  BY <1>1, <1>2

LEMMA ReadCalled ==
  ASSUME OpcAssumption, OpcInv, NEW name, NEW request, IsRequest(request),
         NEW single \in BOOLEAN, Fits(Items(name), request, single),
         single => \A k \in DOMAIN Items(name) : ~Chosen(Items(name)[k]),
         ReadCall("read", name, request, single)
  PROVE  /\ Regrouped(name, request, single, "read")
         /\ g_bMainServer' \in BOOLEAN /\ g_bSndServer' \in BOOLEAN
         /\ UNCHANGED <<g_bInitOK, alive, plc>>
         /\ last'.call = "read" /\ last'.request = request /\ last' # NoCall
         /\ ReadReturns(request)
<1>. DEFINE g == Items(name)
<1>1. GroupInv(g) /\ Rested(g) /\ plc \in [Addresses -> Values]
  BY ItemsOfGroup DEF OpcInv
<1>2. PICK found \in BOOLEAN :
        /\ GetOPCGroup(name, found)
        /\ UNCHANGED <<g_bInitOK, alive, plc>>
        /\ \/ /\ ~found /\ UNCHANGED groups
              /\ Finish("read", name, request, IF single THEN -1 ELSE -2)
           \/ /\ found
              /\ \E p \in Prepare(g, request, single) :
                   \/ /\ ~p.ok /\ SetItems(name, p.items)
                      /\ Finish("read", name, request, -4)
                   \/ /\ p.ok
                      /\ \E o \in ReadItems(InitReading(p.items, request)) :
                           LET data == Results(o.items, request)
                           IN /\ SetItems(name, o.items)
                              /\ last' = [call |-> "read", name |-> name, request |-> request,
                                          ret |-> IF o.raised THEN -10
                                                  ELSE IF AnyGood(data) THEN 0
                                                  ELSE IF single THEN -5 ELSE -6,
                                          data |-> IF ~o.raised /\ AnyGood(data)
                                                   THEN data ELSE <<>>]
  BY Zenon DEF ReadCall
<1>3. /\ g_bMainServer' \in BOOLEAN /\ g_bSndServer' \in BOOLEAN
      /\ UNCHANGED <<g_bInitOK, alive, plc>>
  <2>1. GetOPCGroup(name, found) /\ UNCHANGED <<g_bInitOK, alive, plc>>
    BY <1>2
  <2>. QED
    BY <2>1, ConnectionTypes
<1>. HIDE DEF g
<1>4. ASSUME NEW ret \in Int, Finish("read", name, request, ret), ret < 0
      PROVE  /\ last'.call = "read" /\ last'.request = request /\ last' # NoCall
             /\ ReadReturns(request)
  <2>1. last' = [call |-> "read", name |-> name, request |-> request, ret |-> ret,
               data |-> <<>>]
    BY <1>4 DEF Finish, NoCall
  <2>2. last'.ret = ret /\ last'.call = "read" /\ last'.request = request
    BY <2>1
  <2>. QED
    BY <1>4, <2>2 DEF NoCall, ReadReturns
<1>5. CASE ~found
  <2>1. groups' = groups /\ Finish("read", name, request, IF single THEN -1 ELSE -2)
    BY <1>2, <1>5
  <2>2. Regrouped(name, request, single, "read")
    BY <2>1 DEF Regrouped
  <2>3. \E ret \in {-1, -2} : Finish("read", name, request, ret)
    BY <2>1
  <2>. QED
    BY <1>3, <1>4, <2>2, <2>3
<1>6. CASE found
  <2>1. PICK p \in Prepare(g, request, single) :
          \/ /\ ~p.ok /\ SetItems(name, p.items)
             /\ Finish("read", name, request, -4)
          \/ /\ p.ok
             /\ \E o \in ReadItems(InitReading(p.items, request)) :
                  LET data == Results(o.items, request)
                  IN /\ SetItems(name, o.items)
                     /\ last' = [call |-> "read", name |-> name, request |-> request,
                                 ret |-> IF o.raised THEN -10
                                         ELSE IF AnyGood(data) THEN 0
                                         ELSE IF single THEN -5 ELSE -6,
                                 data |-> IF ~o.raised /\ AnyGood(data)
                                          THEN data ELSE <<>>]
    BY <1>2, <1>6
  <2>2. /\ GroupInv(p.items) /\ HasAll(p.items, request)
        /\ Became(g, request, single, p.items)
        /\ \A k \in DOMAIN p.items : Chosen(p.items[k]) => k \in DOMAIN g /\ Chosen(g[k])
        /\ ~single \/ ~p.ok => Rested(p.items)
    BY <1>1, Prepared DEF g
  <2>3. CASE ~p.ok
    <3>1. SetItems(name, p.items) /\ Finish("read", name, request, -4)
      BY <2>1, <2>3
    <3>2. Regrouped(name, request, single, "read")
      BY <2>2, <2>3, <3>1 DEF Regrouped, BecomesThat, g
    <3>. QED
      BY <1>3, <1>4, <3>1, <3>2
  <2>4. CASE p.ok
    <3>. DEFINE i == InitReading(p.items, request)
    <3>1. PICK o \in ReadItems(i) :
            /\ SetItems(name, o.items)
            /\ last' = [call |-> "read", name |-> name, request |-> request,
                        ret |-> IF o.raised THEN -10
                                ELSE IF AnyGood(Results(o.items, request)) THEN 0
                                ELSE IF single THEN -5 ELSE -6,
                        data |-> IF ~o.raised /\ AnyGood(Results(o.items, request))
                                 THEN Results(o.items, request) ELSE <<>>]
      BY <2>1, <2>4
    <3>2. /\ GroupInv(i) /\ SameItems(p.items, i) /\ AlikeItems(p.items, i)
          /\ \A k \in DOMAIN p.items :
               /\ Chosen(i[k]) <=> Chosen(p.items[k])
               /\ p.items[k].id \in Requested(request) => "ForRead" \in i[k].status
      BY <2>2, InitReadingKeeps
    <3>. HIDE DEF i
    <3>3. /\ GroupInv(o.items) /\ SameItems(i, o.items) /\ AlikeItems(i, o.items)
          /\ \A k \in DOMAIN i : Chosen(o.items[k]) <=> Chosen(i[k])
          /\ \A k \in DOMAIN i :
               "ForRead" \in i[k].status /\ "ForRead" \notin o.items[k].status =>
                 o.items[k].value = plc[i[k].address]
      BY <1>1, <3>2, ReadItemsKeeps
    <3>4. Rested(p.items)
      <4>1. single => \A k \in DOMAIN p.items : ~Chosen(p.items[k])
        BY <2>2 DEF g
      <4>. QED
        BY <2>2, <4>1 DEF Rested
    <3>5. Rested(o.items)
      <4>1. Rested(i)
        BY <3>2, <3>4, RestedKept
      <4>. QED
        BY <3>3, <4>1, RestedKept
    <3>6. SameItems(p.items, o.items)
      BY <3>2, <3>3 DEF SameItems
    <3>7. HasAll(o.items, request)
      BY <2>2, <3>6 DEF HasAll, SameItems
    <3>8. Regrouped(name, request, single, "read")
      <4>1. Became(g, request, single, o.items)
        BY <2>2, <3>6, SameBecomes
      <4>2. \A k \in DOMAIN o.items : Chosen(o.items[k]) => k \in DOMAIN g /\ Chosen(g[k])
        BY <2>2, <3>2, <3>3, <3>6 DEF SameItems
      <4>. QED
        BY <3>1, <3>3, <3>5, <3>7, <4>1, <4>2 DEF Regrouped, BecomesThat, g
    <3>. DEFINE data == Results(o.items, request)
    <3>9. /\ DOMAIN data = DOMAIN request
          /\ \A k \in DOMAIN request :
               \/ data[k] = NoValue
               \/ \E j \in DOMAIN o.items :
                    /\ o.items[j].id = request[k].id
                    /\ o.items[j].good /\ data[k] = o.items[j].value
                    /\ o.items[j].value \in Values
      BY <3>3, <3>7, ResultsRead
    <3>10. /\ last'.call = "read" /\ last'.request = request /\ last'.name = name
           /\ last'.ret = IF o.raised THEN -10
                          ELSE IF AnyGood(data) THEN 0
                          ELSE IF single THEN -5 ELSE -6
           /\ last'.data = IF ~o.raised /\ AnyGood(data) THEN data ELSE <<>>
      BY <3>1
    <3>. HIDE DEF data
    <3>11. ASSUME NEW k \in DOMAIN request, data[k] # NoValue
           PROVE  data[k] = plc[request[k].address] \/ UnreadThen(request[k])
      <4>1. PICK j \in DOMAIN o.items :
              o.items[j].id = request[k].id /\ o.items[j].good /\ data[k] = o.items[j].value
        BY <3>9, <3>11
      <4>2. /\ j \in DOMAIN i /\ j \in DOMAIN p.items /\ p.items[j].id = request[k].id
            /\ i[j].address = o.items[j].address
        BY <3>2, <3>3, <4>1 DEF SameItems
      <4>3. "ForRead" \in i[j].status
        BY <3>2, <4>2 DEF Requested
      <4>4. o.items[j] \in Range(ItemsThen(last'.name))
        <5>1. ItemsThen(name) = o.items
          BY <3>1 DEF SetItems, ItemsThen
        <5>. QED
          BY <3>10, <4>1, <5>1 DEF Range
      <4>5. CASE "ForRead" \in o.items[j].status \/ o.items[j].address # request[k].address
        BY <4>1, <4>4, <4>5 DEF UnreadThen
      <4>6. CASE "ForRead" \notin o.items[j].status /\ o.items[j].address = request[k].address
        BY <3>3, <4>1, <4>2, <4>3, <4>6
      <4>. QED
        BY <4>5, <4>6
    <3>12. ReadReturns(request)
      <4>1. last'.ret = 0 => ~o.raised /\ AnyGood(data) /\ last'.data = data
        BY <3>10
      <4>2. last'.ret = 0 \/ last'.ret < 0
        BY <3>10
      <4>3. AnyGood(data) => \E k \in DOMAIN request : data[k] # NoValue
        BY <3>9 DEF AnyGood
      <4>4. \A k \in DOMAIN request : data[k] \in Values \cup {NoValue}
        BY <3>9
      <4>. QED
        BY <3>9, <3>11, <4>1, <4>2, <4>3, <4>4 DEF ReadReturns
    <3>. QED
      BY <1>3, <3>8, <3>10, <3>12 DEF NoCall
  <2>. QED
    BY <2>3, <2>4
<1>. QED
  BY <1>5, <1>6

\* Refused, after the step.
RefusedThen(a) ==
  \E g \in Range(groups') : \E item \in Range(g) : item.address = a /\ ~Valid(item)

\* The addresses that a write call changes, and what it confirms.
WriteDoes(request) ==
  /\ plc' \in [Addresses -> Values]
  /\ \A a \in Addresses : plc'[a] # plc[a] =>
       \/ \E k \in DOMAIN request : request[k].address = a /\ request[k].value = plc'[a]
       \/ LeftChosen(a)
       \/ MisdirectedThen(request, a)
  /\ last'.ret = 0 \/ last'.ret < 0
  /\ last'.ret = 0 =>
       \A k \in DOMAIN request :
         \/ plc'[request[k].address] = request[k].value
         \/ RefusedThen(request[k].address)
         \/ MisplacedThen(request[k])

LEMMA WriteCalled ==
  ASSUME OpcAssumption, OpcInv, NEW name, NEW request, IsRequest(request),
         NEW single \in BOOLEAN, Fits(Items(name), request, single),
         \A k \in DOMAIN request : request[k].value \in Values,
         WriteCall("write", name, request, single)
  PROVE  /\ Regrouped(name, request, single, "write")
         /\ g_bMainServer' \in BOOLEAN /\ g_bSndServer' \in BOOLEAN
         /\ UNCHANGED <<g_bInitOK, alive>>
         /\ last'.call = "write" /\ last'.request = request /\ last' # NoCall
         /\ WriteDoes(request)
<1>. DEFINE g == Items(name)
<1>1. /\ GroupInv(g) /\ Rested(g) /\ plc \in [Addresses -> Values]
      /\ g = <<>> \/ (name \in DOMAIN groups /\ g = groups[name])
  BY ItemsOfGroup DEF OpcInv
<1>2. PICK found \in BOOLEAN :
        /\ GetOPCGroup(name, found)
        /\ UNCHANGED <<g_bInitOK, alive>>
        /\ \/ /\ ~found /\ UNCHANGED <<groups, plc>>
              /\ Finish("write", name, request, IF single THEN -1 ELSE -2)
           \/ /\ found
              /\ \E p \in Prepare(g, request, single) :
                   \/ /\ ~p.ok /\ SetItems(name, p.items) /\ UNCHANGED plc
                      /\ Finish("write", name, request, -4)
                   \/ /\ p.ok
                      /\ \E o \in WriteItems(InitWriting(p.items, request)) :
                           /\ SetItems(name, o.items)
                           /\ plc' = o.plc
                           /\ last' = [NoCall EXCEPT
                                        !.call = "write", !.name = name, !.request = request,
                                        !.ret = IF o.hr = "S_OK" THEN 0
                                                ELSE IF o.hr = "FAILED" /\ ~single THEN -5
                                                ELSE -6]
  BY Zenon DEF WriteCall
<1>3. /\ g_bMainServer' \in BOOLEAN /\ g_bSndServer' \in BOOLEAN
      /\ UNCHANGED <<g_bInitOK, alive>>
  <2>1. GetOPCGroup(name, found) /\ UNCHANGED <<g_bInitOK, alive>>
    BY <1>2
  <2>. QED
    BY <2>1, ConnectionTypes
<1>. HIDE DEF g
<1>4. ASSUME NEW ret \in Int, Finish("write", name, request, ret), ret < 0, UNCHANGED plc
      PROVE  /\ last'.call = "write" /\ last'.request = request /\ last' # NoCall
             /\ WriteDoes(request)
  <2>1. last' = [call |-> "write", name |-> name, request |-> request, ret |-> ret,
               data |-> <<>>]
    BY <1>4 DEF Finish, NoCall
  <2>2. last'.ret = ret /\ last'.call = "write" /\ last'.request = request
    BY <2>1
  <2>. QED
    BY <1>1, <1>4, <2>2 DEF NoCall, WriteDoes
<1>5. CASE ~found
  <2>1. /\ groups' = groups /\ Finish("write", name, request, IF single THEN -1 ELSE -2)
        /\ UNCHANGED plc
    BY <1>2, <1>5
  <2>2. Regrouped(name, request, single, "write")
    BY <2>1 DEF Regrouped
  <2>3. \E ret \in {-1, -2} : Finish("write", name, request, ret)
    BY <2>1
  <2>. QED
    BY <1>3, <1>4, <2>1, <2>2, <2>3
<1>6. CASE found
  <2>1. PICK p \in Prepare(g, request, single) :
          \/ /\ ~p.ok /\ SetItems(name, p.items) /\ UNCHANGED plc
             /\ Finish("write", name, request, -4)
          \/ /\ p.ok
             /\ \E o \in WriteItems(InitWriting(p.items, request)) :
                  /\ SetItems(name, o.items)
                  /\ plc' = o.plc
                  /\ last' = [NoCall EXCEPT
                               !.call = "write", !.name = name, !.request = request,
                               !.ret = IF o.hr = "S_OK" THEN 0
                                       ELSE IF o.hr = "FAILED" /\ ~single THEN -5
                                       ELSE -6]
    BY <1>2, <1>6
  <2>2. /\ GroupInv(p.items) /\ HasAll(p.items, request)
        /\ Became(g, request, single, p.items)
        /\ \A k \in DOMAIN p.items :
             Chosen(p.items[k]) =>
               /\ k \in DOMAIN g /\ Chosen(g[k]) /\ p.items[k].address = g[k].address
               /\ Valid(p.items[k]) => Valid(g[k])
        /\ ~single \/ ~p.ok => Rested(p.items)
    BY <1>1, Prepared DEF g
  <2>3. CASE ~p.ok
    <3>1. SetItems(name, p.items) /\ Finish("write", name, request, -4) /\ UNCHANGED plc
      BY <2>1, <2>3
    <3>2. Regrouped(name, request, single, "write")
      BY <2>2, <2>3, <3>1 DEF Regrouped, BecomesThat, g
    <3>. QED
      BY <1>3, <1>4, <3>1, <3>2
  <2>4. CASE p.ok
    <3>. DEFINE i == InitWriting(p.items, request)
    <3>1. PICK o \in WriteItems(i) :
            /\ SetItems(name, o.items)
            /\ plc' = o.plc
            /\ last' = [NoCall EXCEPT
                         !.call = "write", !.name = name, !.request = request,
                         !.ret = IF o.hr = "S_OK" THEN 0
                                 ELSE IF o.hr = "FAILED" /\ ~single THEN -5
                                 ELSE -6]
      BY <2>1, <2>4
    <3>2. /\ GroupInv(i) /\ SameItems(p.items, i) /\ AlikeItems(p.items, i)
          /\ \A j \in DOMAIN p.items :
               \/ i[j] = p.items[j] /\ \A k \in DOMAIN request : p.items[j].id # request[k].id
               \/ /\ Chosen(i[j])
                  /\ \E k \in DOMAIN request :
                       p.items[j].id = request[k].id /\ i[j].value = request[k].value
      BY <2>2, InitWritingKeeps
    <3>. HIDE DEF i
    <3>3. /\ GroupInv(o.items) /\ SameItems(i, o.items) /\ AlikeItems(i, o.items)
          /\ \A k \in DOMAIN i :
               /\ Chosen(o.items[k]) => ~Known(o.items[k])
               /\ o.items[k].value = i[k].value /\ o.items[k].handle = i[k].handle
          /\ o.plc \in [Addresses -> Values]
          /\ \A a \in Addresses : o.plc[a] # plc[a] =>
               \E k, j \in DOMAIN i : /\ Chosen(i[k]) /\ Valid(i[k]) /\ o.plc[a] = i[k].value
                                      /\ Known(i[j]) /\ i[k].handle = i[j].handle
                                      /\ i[j].address = a
          /\ o.hr = "S_OK" =>
               \A k \in DOMAIN i : Chosen(i[k]) /\ Valid(i[k]) =>
                 /\ i[k].handle \in Registered(i)
                 /\ Known(i[k]) /\ Alone(i, k) => o.plc[i[k].address] = i[k].value
      BY <1>1, <3>2, WriteItemsKeeps
    <3>4. Rested(o.items)
      BY <3>3 DEF Rested, AlikeItems
    <3>5. SameItems(p.items, o.items)
      BY <3>2, <3>3 DEF SameItems
    <3>6. Regrouped(name, request, single, "write")
      <4>1. Became(g, request, single, o.items)
        BY <2>2, <3>5, SameBecomes
      <4>2. HasAll(o.items, request)
        BY <2>2, <3>5 DEF HasAll, SameItems
      <4>. QED
        BY <3>1, <3>3, <3>4, <4>1, <4>2 DEF Regrouped, BecomesThat, g
    <3>7. /\ last'.call = "write" /\ last'.request = request /\ last'.name = name
          /\ last'.ret = IF o.hr = "S_OK" THEN 0
                         ELSE IF o.hr = "FAILED" /\ ~single THEN -5
                         ELSE -6
      BY <3>1 DEF NoCall
    <3>. DEFINE h == ItemsThen(last'.name)
    <3>8. h = o.items /\ h \in Range(groups')
      <4>1. groups'[name] = o.items /\ name \in DOMAIN groups'
        BY <3>1 DEF SetItems
      <4>2. ItemsThen(name) = o.items
        BY <4>1 DEF ItemsThen
      <4>. QED
        BY <3>7, <4>1, <4>2 DEF Range
    <3>9. /\ DOMAIN i = DOMAIN h /\ DOMAIN p.items = DOMAIN h
          /\ \A k \in DOMAIN i : /\ h[k] \in Range(h) /\ h[k].value = i[k].value
                                 /\ h[k].id = i[k].id /\ h[k].id = p.items[k].id
                                 /\ h[k].address = i[k].address
                                 /\ h[k].address = p.items[k].address
                                 /\ h[k].handle = i[k].handle
                                 /\ "New" \in h[k].status <=> "New" \in i[k].status
                                 /\ Known(h[k]) <=> Known(i[k])
                                 /\ Valid(h[k]) <=> Valid(i[k])
      <4>1. DOMAIN h = DOMAIN i /\ \A k \in DOMAIN i : Alike(i[k], h[k])
        BY <3>3, <3>8 DEF AlikeItems
      <4>2. \A k \in DOMAIN i : /\ h[k].id = i[k].id /\ h[k].address = i[k].address
                                /\ "New" \in h[k].status <=> "New" \in i[k].status
                                /\ Known(h[k]) <=> Known(i[k])
                                /\ Valid(h[k]) <=> Valid(i[k])
        BY <4>1 DEF Alike, Known, Valid
      <4>3. \A k \in DOMAIN h : h[k] \in Range(h)
        BY DEF Range
      <4>. HIDE DEF h
      <4>. QED
        BY <3>2, <3>3, <3>8, <4>1, <4>2, <4>3 DEF SameItems
    <3>10. ASSUME NEW k \in DOMAIN i, NEW j \in DOMAIN i, "New" \in i[k].status, Known(i[j]),
                  i[k].handle = i[j].handle
           PROVE  SharesHandle(h[k], h[j])
      <4>. HIDE DEF h
      <4>. QED
        BY <3>9, <3>10 DEF SharesHandle
    <3>11. ASSUME NEW a \in Addresses, plc'[a] # plc[a]
           PROVE  \/ \E k \in DOMAIN request : request[k].address = a /\ request[k].value = plc'[a]
                  \/ LeftChosen(a)
                  \/ MisdirectedThen(request, a)
      <4>1. PICK k \in DOMAIN i, j \in DOMAIN i :
              /\ Chosen(i[k]) /\ Valid(i[k]) /\ plc'[a] = i[k].value
              /\ Known(i[j]) /\ i[k].handle = i[j].handle /\ i[j].address = a
        BY <3>1, <3>3, <3>11
      <4>2. CASE k # j
        <5>1. "New" \in i[k].status
          BY <3>2, <4>1, <4>2, HandlesKnown
        <5>2. SharesHandle(h[k], h[j]) /\ h[k].value = plc'[a] /\ h[j].address = a
          BY <3>9, <3>10, <4>1, <5>1
        <5>. QED
          BY <3>9, <5>2 DEF MisdirectedThen
      <4>3. CASE k = j /\ i[k] # p.items[k]
        <5>1. PICK n \in DOMAIN request :
                p.items[k].id = request[n].id /\ i[k].value = request[n].value
          BY <3>2, <3>9, <4>3
        <5>2. CASE request[n].address = a
          BY <4>1, <5>1, <5>2
        <5>3. CASE request[n].address # a
          <6>1. request[n] \in Range(request)
            BY DEF Range
          <6>2. h[k].id = request[n].id /\ h[k].value = plc'[a] /\ h[k].address = a
            BY <3>9, <4>1, <4>3, <5>1
          <6>. QED
            BY <3>9, <5>3, <6>1, <6>2 DEF MisdirectedThen
        <5>. QED
          BY <5>2, <5>3
      <4>4. CASE k = j /\ i[k] = p.items[k]
        <5>0. k \in DOMAIN p.items /\ Chosen(p.items[k]) /\ Valid(p.items[k]) /\ p.items[k].address = a
          BY <3>9, <4>1, <4>4
        <5>1. k \in DOMAIN g /\ Chosen(g[k]) /\ g[k].address = a /\ Valid(g[k])
          BY <2>2, <5>0
        <5>2. g \in Range(groups)
          BY <1>1, <5>1 DEF Range
        <5>3. g[k] \in Range(g)
          BY <5>1 DEF Range
        <5>4. "New" \in g[k].status \/ \E other \in Range(g) : ~Valid(other)
          <6>1. CASE Known(g[k])
            <7>1. PICK n \in DOMAIN g : ~Valid(g[n])
              BY <1>1, <5>1, <6>1 DEF Rested
            <7>. QED
              BY <7>1 DEF Range
          <6>2. CASE ~Known(g[k])
            BY <5>1, <6>2 DEF Known, Valid
          <6>. QED
            BY <6>1, <6>2
        <5>. QED
          BY <5>1, <5>2, <5>3, <5>4 DEF LeftChosen, Chosen
      <4>. QED
        BY <4>2, <4>3, <4>4
    <3>12. ASSUME o.hr = "S_OK", NEW k \in DOMAIN request
           PROVE  \/ plc'[request[k].address] = request[k].value
                  \/ RefusedThen(request[k].address)
                  \/ MisplacedThen(request[k])
      <4>. DEFINE a == request[k].address
      <4>1. PICK j \in DOMAIN p.items : p.items[j].id = request[k].id
        BY <2>2 DEF HasAll
      <4>2. Chosen(i[j]) /\ i[j].value = request[k].value /\ j \in DOMAIN i
        <5>1. PICK n \in DOMAIN request : /\ p.items[j].id = request[n].id /\ Chosen(i[j])
                                          /\ i[j].value = request[n].value
          BY <3>2, <4>1
        <5>2. n = k
          BY <4>1, <5>1 DEF IsRequest
        <5>. QED
          BY <3>9, <5>1, <5>2
      <4>3. h[j].id = request[k].id /\ h[j] \in Range(h)
        BY <3>9, <4>1, <4>2
      <4>4. CASE h[j].address # a
        BY <4>3, <4>4 DEF MisplacedThen
      <4>5. CASE h[j].address = a /\ ~Valid(i[j])
        <5>1. ~Valid(h[j])
          BY <3>9, <4>2, <4>5
        <5>. QED
          BY <3>8, <4>3, <4>5, <5>1 DEF RefusedThen
      <4>6. CASE Valid(i[j]) /\ ~Known(i[j])
        <5>1. "New" \in i[j].status
          BY <4>6 DEF Known, Valid
        <5>2. i[j].handle \in Registered(i)
          BY <3>3, <3>12, <4>2, <4>6
        <5>3. PICK m \in DOMAIN i : Known(i[m]) /\ i[j].handle = i[m].handle
          BY <3>2, <5>2, HandlesKnown
        <5>4. SharesHandle(h[j], h[m]) /\ h[m] \in Range(h)
          BY <3>9, <3>10, <4>2, <5>1, <5>3
        <5>. QED
          BY <4>3, <5>4 DEF MisplacedThen
      <4>7. CASE h[j].address = a /\ Known(i[j]) /\ ~Alone(i, j)
        <5>1. PICK m \in DOMAIN i : "New" \in i[m].status /\ i[m].handle = i[j].handle
          BY <4>7 DEF Alone
        <5>2. SharesHandle(h[m], h[j]) /\ h[m] \in Range(h)
          BY <3>9, <3>10, <4>2, <4>7, <5>1
        <5>. QED
          BY <4>3, <4>7, <5>2 DEF MisplacedThen
      <4>8. CASE h[j].address = a /\ Known(i[j]) /\ Alone(i, j)
        <5>1. Valid(i[j])
          BY <4>8 DEF Known, Valid
        <5>2. i[j].address = a
          BY <3>9, <4>2, <4>8
        <5>. QED
          BY <3>1, <3>3, <3>12, <4>2, <4>8, <5>1, <5>2
      <4>. QED
        BY <4>4, <4>5, <4>6, <4>7, <4>8 DEF Known, Valid
    <3>13. WriteDoes(request)
      BY <3>1, <3>3, <3>7, <3>11, <3>12 DEF WriteDoes
    <3>. QED
      BY <1>3, <3>6, <3>7, <3>13 DEF NoCall
  <2>. QED
    BY <2>3, <2>4
<1>. QED
  BY <1>5, <1>6

-----------------------------------------------------------------------------
(* The calls of the two groups of single items, and of those of lists      *)

LEMMA RegroupedKeeps ==
  ASSUME OpcInv, NEW name, NEW request, NEW single, NEW call,
         Regrouped(name, request, single, call),
         \A h : BecomesThat(name, request, single, call, h) => NameInv(name, h)
  PROVE  GroupsInv'
<1>1. GroupsInv
  BY DEF OpcInv
<1>2. CASE groups' = groups
  BY <1>1, <1>2 DEF GroupsInv
<1>3. CASE groups' # groups
  <2>1. PICK h : /\ SetItems(name, h) /\ GroupInv(h) /\ Rested(h)
                 /\ BecomesThat(name, request, single, call, h)
    BY <1>3 DEF Regrouped
  <2>2. NameInv(name, h)
    BY <2>1
  <2>3. \A n \in DOMAIN groups' :
          GroupInv(groups'[n]) /\ Rested(groups'[n]) /\ NameInv(n, groups'[n])
    BY <1>1, <2>1, <2>2 DEF SetItems, GroupsInv
  <2>. QED
    BY <2>3 DEF GroupsInv
<1>. QED
  BY <1>2, <1>3

\* A single item is found by its address, or gets the next number.
LEMMA SingleFits ==
  ASSUME NEW g, GroupInv(g), \A k \in DOMAIN g : g[k].id = k, NEW a \in Addresses,
         NEW v \in Values \cup {NoValue}, NEW request,
         request = <<[id |-> SingleID(g, a), address |-> a, value |-> v]>>
  PROVE  /\ IsRequest(request) /\ Fits(g, request, TRUE)
         /\ \A h : Became(g, request, TRUE, h) => \A k \in DOMAIN h : h[k].id = k
<1>. DEFINE id == SingleID(g, a)
<1>1. Len(g) \in Nat /\ DOMAIN g = 1 .. Len(g) /\ g \in Seq(Item)
  BY GroupIsFunction DEF GroupInv
<1>2. Range(g) = {g[k] : k \in DOMAIN g}
  BY DEF Range
<1>3. id \in Nat \ {0} /\ \A k \in DOMAIN g : g[k].id = id <=> g[k].address = a
  <2>1. CASE \E item \in Range(g) : item.address = a
    <3>1. (CHOOSE item \in Range(g) : item.address = a) \in Range(g)
          /\ (CHOOSE item \in Range(g) : item.address = a).address = a
      BY <2>1
    <3>2. PICK j \in DOMAIN g : g[j].address = a /\ id = g[j].id
      BY <1>2, <2>1, <3>1 DEF SingleID
    <3>. QED
      BY <1>1, <3>2 DEF GroupInv
  <2>2. CASE ~\E item \in Range(g) : item.address = a
    <3>1. id = Len(g) + 1
      BY <2>2 DEF SingleID
    <3>. QED
      BY <1>1, <1>2, <2>2, <3>1
  <2>. QED
    BY <2>1, <2>2
<1>4. /\ Len(request) = 1 /\ DOMAIN request = {1} /\ request[1].id = id /\ request[1].address = a
      /\ request[1] = [id |-> id, address |-> a, value |-> v]
  OBVIOUS
<1>5. (\A k \in DOMAIN g : g[k].id # id) => id = Len(g) + 1
  <2>. SUFFICES ASSUME \A k \in DOMAIN g : g[k].id # id PROVE id = Len(g) + 1
    OBVIOUS
  <2>1. ~\E item \in Range(g) : item.address = a
    BY <1>2, <1>3
  <2>. QED
    BY <2>1 DEF SingleID
<1>. HIDE DEF id
<1>6. IsRequest(request)
  <2>1. request[1] \in Entry
    BY <1>3, <1>4 DEF Entry
  <2>2. request = <<request[1]>>
    BY <1>4
  <2>3. request \in Seq(Entry) /\ request # <<>>
    BY <2>1, <2>2
  <2>. QED
    BY <1>4, <2>3 DEF IsRequest
<1>7. Fits(g, request, TRUE)
  BY <1>3, <1>4 DEF Fits
<1>8. ASSUME NEW h, Became(g, request, TRUE, h), NEW k \in DOMAIN h PROVE h[k].id = k
  <2>1. CASE SameItems(g, h)
    BY <2>1 DEF SameItems
  <2>2. CASE SameItems(Append(g, request[1]), h) /\ \A j \in DOMAIN g : g[j].id # request[1].id
    <3>. DEFINE p == Append(g, request[1])
    <3>1. /\ DOMAIN p = 1 .. Len(g) + 1 /\ p[Len(g) + 1] = request[1]
          /\ \A j \in DOMAIN g : p[j] = g[j]
      BY <1>1
    <3>2. SameItems(p, h)
      BY <2>2
    <3>. HIDE DEF p
    <3>3. k \in DOMAIN g \/ k = Len(g) + 1
      BY <1>1, <3>1, <3>2 DEF SameItems
    <3>4. h[k].id = p[k].id
      BY <3>2 DEF SameItems
    <3>5. request[1].id = Len(g) + 1
      BY <1>4, <1>5, <2>2
    <3>. QED
      BY <3>1, <3>3, <3>4, <3>5
  <2>. QED
    BY <1>8, <2>1, <2>2 DEF Became
<1>. QED
  BY <1>6, <1>7, <1>8

\* The items of a group have the identifiers of a list.
IsList(g, ids, l) == DOMAIN g = DOMAIN l /\ \A k \in DOMAIN l : g[k].id = ids[k]

\* A list without repetitions is asked for under different identifiers, from a
\* group whose items have them or that has none.
ListCall(g, l, ids, v, request) ==
  /\ l \in Seq(Addresses) /\ l # <<>> /\ \A j, k \in DOMAIN l : l[j] = l[k] => j = k
  /\ \A k \in DOMAIN l : ids[k] \in Nat \ {0} /\ v[k] \in Values \cup {NoValue}
  /\ \A j, k \in DOMAIN l : ids[j] = ids[k] => j = k
  /\ g = <<>> \/ IsList(g, ids, l)
  /\ request = [k \in DOMAIN l |-> [id |-> ids[k], address |-> l[k], value |-> v[k]]]

LEMMA ListFits ==
  ASSUME NEW g, NEW l, NEW ids, NEW v, NEW request, ListCall(g, l, ids, v, request),
         NEW single, single = FALSE
  PROVE  /\ IsRequest(request) /\ Fits(g, request, single)
         /\ \A h : Became(g, request, single, h) /\ HasAll(h, request) => IsList(h, ids, l)
<1>0. /\ l \in Seq(Addresses) /\ l # <<>> /\ \A j, k \in DOMAIN l : l[j] = l[k] => j = k
      /\ \A k \in DOMAIN l : ids[k] \in Nat \ {0} /\ v[k] \in Values \cup {NoValue}
      /\ \A j, k \in DOMAIN l : ids[j] = ids[k] => j = k
      /\ g = <<>> \/ IsList(g, ids, l)
      /\ request = [k \in DOMAIN l |-> [id |-> ids[k], address |-> l[k], value |-> v[k]]]
  BY DEF ListCall
<1>1. Len(l) \in Nat /\ DOMAIN l = 1 .. Len(l) /\ Len(l) # 0 /\ \A k \in DOMAIN l : l[k] \in Addresses
  BY <1>0
<1>2. DOMAIN request = DOMAIN l /\ \A k \in DOMAIN l : /\ request[k] \in Entry
                                                       /\ request[k].id = ids[k]
                                                       /\ request[k].address = l[k]
  BY <1>0, <1>1 DEF Entry
<1>3. request = [k \in 1 .. Len(l) |-> request[k]]
  BY <1>0, <1>1
<1>4. request \in Seq(Entry) /\ request # <<>> /\ 1 \in DOMAIN request
  <2>1. request \in Seq(Entry)
    BY <1>1, <1>2, <1>3
  <2>. QED
    BY <1>1, <1>2, <2>1
<1>5. IsRequest(request)
  BY <1>0, <1>2, <1>4 DEF IsRequest
<1>6. Fits(g, request, single)
  <2>1. CASE g = <<>>
    BY <2>1 DEF Fits
  <2>2. CASE IsList(g, ids, l)
    <3>1. \A k \in DOMAIN request : \E j \in DOMAIN g : g[j].id = request[k].id
      BY <1>2, <2>2 DEF IsList
    <3>. QED
      BY <3>1 DEF Fits
  <2>. QED
    BY <1>0, <2>1, <2>2
<1>7. ASSUME NEW h, Became(g, request, single, h), HasAll(h, request) PROVE IsList(h, ids, l)
  <2>1. CASE SameItems(request, h)
    BY <1>2, <2>1 DEF SameItems, IsList
  <2>2. CASE SameItems(g, h)
    <3>1. g # <<>>
      BY <1>4, <1>7, <2>2 DEF HasAll, SameItems
    <3>. QED
      BY <1>0, <2>2, <3>1 DEF SameItems, IsList
  <2>. QED
    BY <1>7, <2>1, <2>2 DEF Became
<1>. QED
  BY <1>5, <1>6, <1>7

\* A list has a name of its own kind, which tells the identifiers.
LEMMA ListNames ==
  ASSUME NEW l
  PROVE  /\ ReadName(l) \notin {ReadGp, WriteGp} /\ WriteName(l) \notin {ReadGp, WriteGp}
         /\ ReadName(l)[1] = [k \in DOMAIN l |-> ParID[l[k]]]
         /\ WriteName(l)[1] = [k \in DOMAIN l |-> k]
<1>1. \A x, y, z : <<x, y>> # <<z>>
  <2>. SUFFICES ASSUME NEW x, NEW y, NEW z PROVE Len(<<x, y>>) # Len(<<z>>)
    OBVIOUS
  <2>. QED
    OBVIOUS
<1>. QED
  BY <1>1 DEF ReadName, WriteName, ReadGp, WriteGp

LEMMA UsesTyped ==
  ASSUME OpcAssumption, OpcInv
  PROVE  /\ use.reads \subseteq Addresses /\ use.writes \subseteq Addresses
         /\ \A l \in use.readLists \cup use.writeLists :
              /\ l \in Seq(Addresses) /\ l # <<>> /\ DOMAIN l = 1 .. Len(l) /\ Len(l) \in Nat
              /\ \A j, k \in DOMAIN l : l[j] = l[k] => j = k
<1>1. use \in Uses
  BY DEF OpcInv
<1>2. /\ use.reads \subseteq Addresses /\ use.writes \subseteq Addresses
      /\ use.readLists \subseteq Seq(Addresses) /\ use.writeLists \subseteq Seq(Addresses)
  BY <1>1 DEF OpcAssumption
<1>3. \A l \in use.readLists \cup use.writeLists :
        l # <<>> /\ \A j, k \in DOMAIN l : l[j] = l[k] => j = k
  BY <1>1 DEF OpcAssumption
<1>4. \A l \in use.readLists \cup use.writeLists : l \in Seq(Addresses)
  BY <1>2
<1>. QED
  BY <1>2, <1>3, <1>4

LEMMA SingleRead ==
  ASSUME OpcAssumption, OpcInv, use' = use,
         NEW a \in use.reads, SAPI_Read(a)
  PROVE  /\ OpcInv' /\ plc' = plc /\ last'.call = "read" /\ last' # NoCall
         /\ DOMAIN last'.request = {1} /\ last'.request[1].address = a
         /\ ReadReturns(last'.request)
<1>. DEFINE g == Items(ReadGp)
            request == <<ReadRequest(SingleID(g, a), a)>>
<1>1. /\ a \in Addresses /\ use \in Uses /\ plc \in [Addresses -> Values]
      /\ g_bInitOK \in BOOLEAN /\ alive \in BOOLEAN
  BY UsesTyped DEF OpcInv
<1>2. PICK single \in BOOLEAN : single /\ single = TRUE
  OBVIOUS
<1>3. /\ GroupInv(g) /\ \A k \in DOMAIN g : g[k].id = k /\ ~Chosen(g[k])
  BY ItemsOfGroup DEF NameInv
<1>. HIDE DEF g
<1>4. /\ IsRequest(request) /\ Fits(g, request, single)
      /\ \A h : Became(g, request, single, h) => \A k \in DOMAIN h : h[k].id = k
  BY <1>1, <1>2, <1>3, SingleFits DEF ReadRequest
<1>5. DOMAIN request = {1} /\ request[1].address = a
  BY DEF ReadRequest
<1>6. ReadCall("read", ReadGp, request, single)
  BY <1>2 DEF SAPI_Read, g
<1>. HIDE DEF request
<1>7. /\ Regrouped(ReadGp, request, single, "read")
      /\ g_bMainServer' \in BOOLEAN /\ g_bSndServer' \in BOOLEAN
      /\ UNCHANGED <<g_bInitOK, alive, plc>>
      /\ last'.call = "read" /\ last'.request = request /\ last' # NoCall
      /\ ReadReturns(request)
  BY <1>3, <1>4, <1>6, ReadCalled DEF g
<1>8. ASSUME NEW h, BecomesThat(ReadGp, request, single, "read", h)
      PROVE  NameInv(ReadGp, h)
  <2>1. \A k \in DOMAIN h : h[k].id = k
    BY <1>4, <1>8 DEF BecomesThat, g
  <2>2. \A k \in DOMAIN h : ~Chosen(h[k])
    BY <1>3, <1>8 DEF BecomesThat, g
  <2>. QED
    BY <2>1, <2>2 DEF NameInv
<1>9. GroupsInv'
  BY <1>7, <1>8, RegroupedKeeps
<1>. QED
  BY <1>1, <1>5, <1>7, <1>9 DEF OpcInv

LEMMA SingleWrite ==
  ASSUME OpcAssumption, OpcInv, use' = use,
         NEW a \in use.writes, NEW v \in Values, SAPI_Write(a, v)
  PROVE  /\ OpcInv' /\ last'.call = "write" /\ last' # NoCall
         /\ DOMAIN last'.request = {1} /\ last'.request[1].address = a
         /\ last'.request[1].value = v /\ WriteDoes(last'.request)
<1>. DEFINE g == Items(WriteGp)
            request == <<WriteRequest(SingleID(g, a), a, v)>>
<1>1. /\ a \in Addresses /\ use \in Uses /\ plc \in [Addresses -> Values]
      /\ g_bInitOK \in BOOLEAN /\ alive \in BOOLEAN
  BY UsesTyped DEF OpcInv
<1>2. PICK single \in BOOLEAN : single /\ single = TRUE
  OBVIOUS
<1>3. /\ GroupInv(g) /\ \A k \in DOMAIN g : g[k].id = k
  BY ItemsOfGroup DEF NameInv
<1>. HIDE DEF g
<1>4. /\ IsRequest(request) /\ Fits(g, request, single)
      /\ \A h : Became(g, request, single, h) => \A k \in DOMAIN h : h[k].id = k
  BY <1>1, <1>2, <1>3, SingleFits DEF WriteRequest
<1>5. DOMAIN request = {1} /\ request[1].address = a /\ request[1].value = v
  BY DEF WriteRequest
<1>6. WriteCall("write", WriteGp, request, single)
  BY <1>2 DEF SAPI_Write, g
<1>. HIDE DEF request
<1>7. /\ Regrouped(WriteGp, request, single, "write")
      /\ g_bMainServer' \in BOOLEAN /\ g_bSndServer' \in BOOLEAN
      /\ UNCHANGED <<g_bInitOK, alive>>
      /\ last'.call = "write" /\ last'.request = request /\ last' # NoCall
      /\ WriteDoes(request)
  <2>1. \A k \in DOMAIN request : request[k].value \in Values
    BY <1>5
  <2>. QED
    BY <1>4, <1>6, <2>1, WriteCalled DEF g
<1>8. ASSUME NEW h, BecomesThat(WriteGp, request, single, "write", h)
      PROVE  NameInv(WriteGp, h)
  <2>1. \A k \in DOMAIN h : h[k].id = k
    BY <1>4, <1>8 DEF BecomesThat, g
  <2>2. WriteGp # ReadGp
    BY DEF WriteGp, ReadGp
  <2>. QED
    BY <2>1, <2>2 DEF NameInv
<1>9. GroupsInv'
  BY <1>7, <1>8, RegroupedKeeps
<1>10. plc' \in [Addresses -> Values]
  BY <1>7 DEF WriteDoes
<1>11. OpcInv'
  BY <1>1, <1>7, <1>9, <1>10 DEF OpcInv
<1>. QED
  BY <1>5, <1>7, <1>11

LEMMA ListRead ==
  ASSUME OpcAssumption, OpcInv, use' = use,
         NEW l \in use.readLists, SAPI_MRead(l)
  PROVE  /\ OpcInv' /\ plc' = plc /\ last'.call = "read" /\ last' # NoCall
         /\ DOMAIN last'.request = DOMAIN l
         /\ \A k \in DOMAIN l : last'.request[k].address = l[k]
         /\ ReadReturns(last'.request)
<1>. DEFINE name == ReadName(l)
            g == Items(name)
            request == [k \in DOMAIN l |-> ReadRequest(ParID[l[k]], l[k])]
            ids == [k \in DOMAIN l |-> ParID[l[k]]]
            v == [k \in DOMAIN l |-> NoValue]
<1>0. name \notin {ReadGp, WriteGp} /\ name[1] = ids /\ DOMAIN ids = DOMAIN l
  BY ListNames
<1>1. /\ use \in Uses /\ plc \in [Addresses -> Values]
      /\ g_bInitOK \in BOOLEAN /\ alive \in BOOLEAN
  BY DEF OpcInv
<1>2. PICK single \in BOOLEAN : ~single /\ single = FALSE
  OBVIOUS
<1>3. /\ l \in Seq(Addresses) /\ l # <<>> /\ \A j, k \in DOMAIN l : l[j] = l[k] => j = k
      /\ \A k \in DOMAIN l : l[k] \in Addresses
  BY UsesTyped
<1>4. /\ \A k \in DOMAIN l : ids[k] = ParID[l[k]] /\ ids[k] \in Nat \ {0}
      /\ \A j, k \in DOMAIN l : ids[j] = ids[k] => j = k
  BY <1>3 DEF OpcAssumption
<1>5. GroupInv(g) /\ (g = <<>> \/ IsList(g, ids, l))
  BY <1>0, ItemsOfGroup DEF NameInv, IsList
<1>6. request = [k \in DOMAIN l |-> [id |-> ids[k], address |-> l[k], value |-> v[k]]]
  BY DEF ReadRequest
<1>7. DOMAIN request = DOMAIN l /\ \A k \in DOMAIN l : request[k].address = l[k]
  BY DEF ReadRequest
<1>8. \A k \in DOMAIN l : v[k] \in Values \cup {NoValue}
  OBVIOUS
<1>9. ReadCall("read", name, request, single)
  BY <1>2 DEF SAPI_MRead
<1>. HIDE DEF name, g, request, ids, v
<1>10. ListCall(g, l, ids, v, request)
  BY <1>3, <1>4, <1>5, <1>6, <1>8 DEF ListCall
<1>11. /\ IsRequest(request) /\ Fits(g, request, single)
       /\ \A h : Became(g, request, single, h) /\ HasAll(h, request) => IsList(h, ids, l)
  BY <1>2, <1>10, ListFits
<1>12. /\ Regrouped(name, request, single, "read")
       /\ g_bMainServer' \in BOOLEAN /\ g_bSndServer' \in BOOLEAN
       /\ UNCHANGED <<g_bInitOK, alive, plc>>
       /\ last'.call = "read" /\ last'.request = request /\ last' # NoCall
       /\ ReadReturns(request)
  BY <1>2, <1>9, <1>11, ReadCalled DEF g
<1>13. ASSUME NEW h, BecomesThat(name, request, single, "read", h)
       PROVE  NameInv(name, h)
  <2>1. IsList(h, ids, l)
    BY <1>11, <1>13 DEF BecomesThat, g
  <2>. QED
    BY <1>0, <2>1 DEF NameInv, IsList
<1>14. GroupsInv'
  BY <1>12, <1>13, RegroupedKeeps
<1>. QED
  BY <1>1, <1>7, <1>12, <1>14 DEF OpcInv

LEMMA ListWrite ==
  ASSUME OpcAssumption, OpcInv, use' = use,
         NEW l \in use.writeLists, NEW v \in [DOMAIN l -> Values], SAPI_MWrite(l, v)
  PROVE  /\ OpcInv' /\ last'.call = "write" /\ last' # NoCall
         /\ DOMAIN last'.request = DOMAIN l
         /\ WriteDoes(last'.request)
<1>. DEFINE name == WriteName(l)
            g == Items(name)
            request == [k \in DOMAIN l |-> WriteRequest(k, l[k], v[k])]
            ids == [k \in DOMAIN l |-> k]
<1>0. name \notin {ReadGp, WriteGp} /\ name[1] = ids /\ DOMAIN ids = DOMAIN l
  BY ListNames
<1>1. /\ use \in Uses /\ plc \in [Addresses -> Values]
      /\ g_bInitOK \in BOOLEAN /\ alive \in BOOLEAN
  BY DEF OpcInv
<1>2. PICK single \in BOOLEAN : ~single /\ single = FALSE
  OBVIOUS
<1>3. /\ l \in Seq(Addresses) /\ l # <<>> /\ \A j, k \in DOMAIN l : l[j] = l[k] => j = k
      /\ DOMAIN l = 1 .. Len(l) /\ Len(l) \in Nat
  BY UsesTyped
<1>4. /\ \A k \in DOMAIN l : ids[k] = k /\ ids[k] \in Nat \ {0}
      /\ \A j, k \in DOMAIN l : ids[j] = ids[k] => j = k
  BY <1>3
<1>5. GroupInv(g) /\ (g = <<>> \/ IsList(g, ids, l))
  BY <1>0, ItemsOfGroup DEF NameInv, IsList
<1>6. request = [k \in DOMAIN l |-> [id |-> ids[k], address |-> l[k], value |-> v[k]]]
  BY DEF WriteRequest
<1>7. DOMAIN request = DOMAIN l /\ \A k \in DOMAIN request : request[k].value \in Values
  BY <1>6
<1>8. \A k \in DOMAIN l : v[k] \in Values \cup {NoValue}
  OBVIOUS
<1>9. WriteCall("write", name, request, single)
  BY <1>2 DEF SAPI_MWrite
<1>. HIDE DEF name, g, request, ids
<1>10. ListCall(g, l, ids, v, request)
  BY <1>3, <1>4, <1>5, <1>6, <1>8 DEF ListCall
<1>11. /\ IsRequest(request) /\ Fits(g, request, single)
       /\ \A h : Became(g, request, single, h) /\ HasAll(h, request) => IsList(h, ids, l)
  BY <1>2, <1>10, ListFits
<1>12. /\ Regrouped(name, request, single, "write")
       /\ g_bMainServer' \in BOOLEAN /\ g_bSndServer' \in BOOLEAN
       /\ UNCHANGED <<g_bInitOK, alive>>
       /\ last'.call = "write" /\ last'.request = request /\ last' # NoCall
       /\ WriteDoes(request)
  BY <1>7, <1>9, <1>11, WriteCalled DEF g
<1>13. ASSUME NEW h, BecomesThat(name, request, single, "write", h)
       PROVE  NameInv(name, h)
  <2>1. IsList(h, ids, l)
    BY <1>11, <1>13 DEF BecomesThat, g
  <2>. QED
    BY <1>0, <2>1 DEF NameInv, IsList
<1>14. GroupsInv'
  BY <1>12, <1>13, RegroupedKeeps
<1>15. plc' \in [Addresses -> Values]
  BY <1>12 DEF WriteDoes
<1>16. OpcInv'
  BY <1>1, <1>12, <1>14, <1>15 DEF OpcInv
<1>. QED
  BY <1>7, <1>12, <1>16

-----------------------------------------------------------------------------
(* Steps of OpcS7.dll                                                      *)

LEMMA NoItemsNoGroups ==
  ASSUME groups' = <<>>
  PROVE  GroupsInv'
<1>1. DOMAIN groups' = {}
  OBVIOUS
<1>. QED
  BY <1>1 DEF GroupsInv

\* What a step says of its call, if it is one.
CallDone ==
  \/ last' = NoCall
  \/ last'.call = "read" /\ UNCHANGED plc /\ ReadReturns(last'.request)
  \/ last'.call = "write" /\ WriteDoes(last'.request)

LEMMA GroupsSame ==
  ASSUME OpcInv, groups' = groups
  PROVE  GroupsInv'
BY DEF OpcInv, GroupsInv

\* What happens outside the calls, and the shutdown.
LEMMA OtherSteps ==
  ASSUME OpcInv, use' = use, SAPI_Shut \/ ServerEnds \/ PlcChanges
  PROVE  OpcInv' /\ last' = NoCall
<1>1. /\ use \in Uses /\ plc \in [Addresses -> Values]
      /\ g_bInitOK \in BOOLEAN /\ g_bMainServer \in BOOLEAN /\ g_bSndServer \in BOOLEAN
      /\ alive \in BOOLEAN
  BY DEF OpcInv
<1>2. CASE SAPI_Shut
  <2>1. GroupsInv'
    BY <1>2, NoItemsNoGroups DEF SAPI_Shut
  <2>. QED
    BY <1>1, <1>2, <2>1 DEF SAPI_Shut, OpcInv
<1>3. CASE ServerEnds
  <2>1. GroupsInv'
    BY <1>3, GroupsSame DEF ServerEnds
  <2>. QED
    BY <1>1, <1>3, <2>1 DEF ServerEnds, OpcInv
<1>4. CASE PlcChanges
  <2>1. GroupsInv'
    BY <1>4, GroupsSame DEF PlcChanges
  <2>2. plc' \in [Addresses -> Values]
    BY <1>1, <1>4 DEF PlcChanges
  <2>. QED
    BY <1>1, <1>4, <2>1, <2>2 DEF PlcChanges, OpcInv
<1>. QED
  BY <1>2, <1>3, <1>4

LEMMA CallsKeep ==
  ASSUME OpcAssumption, OpcInv, Next
  PROVE  OpcInv' /\ CallDone
<1>1. use' = use /\ Step
  BY DEF Next
<1>2. CASE \E a \in use.reads : SAPI_Read(a)
  BY <1>1, <1>2, SingleRead DEF CallDone
<1>3. CASE \E a \in use.writes, v \in Values : SAPI_Write(a, v)
  BY <1>1, <1>3, SingleWrite DEF CallDone
<1>4. CASE \E l \in use.readLists : SAPI_MRead(l)
  BY <1>1, <1>4, ListRead DEF CallDone
<1>5. CASE \E l \in use.writeLists : \E v \in [DOMAIN l -> Values] : SAPI_MWrite(l, v)
  BY <1>1, <1>5, ListWrite DEF CallDone
<1>6. CASE SAPI_Shut \/ ServerEnds \/ PlcChanges
  BY <1>1, <1>6, OtherSteps DEF CallDone
<1>. QED
  BY <1>1, <1>2, <1>3, <1>4, <1>5, <1>6 DEF Step

\* What is confirmed is written, refused or misplaced.
LEMMA ConfirmedKept ==
  ASSUME CallDone
  PROVE  ConfirmedIsWritten'
<1>1. CASE last'.call = "write" /\ WriteDoes(last'.request)
  <2>1. ASSUME last'.ret = 0, NEW r \in Range(last'.request)
        PROVE  plc'[r.address] = r.value \/ RefusedThen(r.address) \/ MisplacedThen(r)
    <3>1. PICK k \in DOMAIN last'.request : r = last'.request[k]
      BY DEF Range
    <3>. QED
      BY <1>1, <2>1, <3>1 DEF WriteDoes
  <2>. QED
    BY <2>1, ThenIsPrime DEF ConfirmedIsWritten, WrittenRequest, RefusedThen, Refused
<1>2. CASE last'.call # "write"
  BY <1>2 DEF ConfirmedIsWritten
<1>. QED
  BY <1>1, <1>2 DEF CallDone, NoCall

\* What changes has been asked for, was left chosen or is misdirected.
LEMMA ChangedIsAsked ==
  ASSUME CallDone, NEW a \in Addresses, plc'[a] # plc[a], last' # NoCall
  PROVE  \/ \E k \in DOMAIN last'.request :
              last'.request[k].address = a /\ last'.request[k].value = plc'[a]
         \/ LeftChosen(a)
         \/ Misdirected(a)'
<1>1. WriteDoes(last'.request)
  BY DEF CallDone
<1>. QED
  BY <1>1, ThenIsPrime DEF WriteDoes

-----------------------------------------------------------------------------
(* Lines of a formula                                                      *)

\* What has been queued and shared is what the PLC holds.
AllTrue == PoolIsPlc' /\ HistoryIsPlc'

LineDone == OpcInv' /\ CallDone /\ PoolInv' /\ AllTrue

LEMMA NumberOfIsValue ==
  ASSUME ValuesAssumption, NEW text
  PROVE  NumberOf(text) \in Values
BY DEF ValuesAssumption, NumberOf

\* A line that ends before it stores anything.
LEMMA RaisedDone ==
  ASSUME PoolInv, NEW op, Raised(op), op # "WRITE",
         \/ last'.ret # 0
         \/ last'.request = <<>>
         \/ last'.call # "read"
  PROVE  PoolInv' /\ AllTrue
<1>1. pool' = pool /\ line' = [op |-> op, result |-> <<>>, queued |-> <<>>]
  BY DEF Raised, Done
<1>2. line'.op = op /\ DOMAIN line'.result = {} /\ DOMAIN line'.queued = {}
  BY <1>1
<1>3. PoolInv'
  BY <1>1, <1>2 DEF PoolInv
<1>4. PoolIsPlc'
  BY <1>2 DEF PoolIsPlc
<1>5. HistoryIsPlc'
  BY <1>2 DEF HistoryIsPlc
<1>. QED
  BY <1>3, <1>4, <1>5 DEF AllTrue

LEMMA ReadLine ==
  ASSUME OpcAssumption, OpcInv, PoolInv, use' = use,
         NEW a \in use.reads, NEW op \in {"READ", "SREAD"}, READ(op, a)
  PROVE  LineDone
<1>1. /\ OpcInv' /\ plc' = plc /\ last'.call = "read" /\ last' # NoCall
      /\ DOMAIN last'.request = {1} /\ last'.request[1].address = a
      /\ ReadReturns(last'.request)
  BY SingleRead DEF READ
<1>2. CallDone
  BY <1>1 DEF CallDone
<1>3. CASE last'.ret < 0
  <2>1. last'.ret # 0 /\ op # "WRITE"
    BY <1>3
  <2>2. Raised(op)
    BY <1>3 DEF READ
  <2>. QED
    BY <1>1, <1>2, <2>1, <2>2, RaisedDone DEF LineDone
<1>4. CASE ~(last'.ret < 0)
  <2>. DEFINE d == last'.data[1]
              queued == IF op = "READ" THEN Queued(a, d) ELSE <<>>
  <2>1. d \in Values /\ d # NoValue /\ (d = plc'[a] \/ UnreadThen(last'.request[1]))
    BY <1>1, <1>4 DEF ReadReturns
  <2>2. pool' = [pool EXCEPT ![a] = d] /\ line' = [op |-> op, result |-> <<>>, queued |-> queued]
    BY <1>4 DEF READ, Done
  <2>3. /\ line'.op = op /\ line'.op # "MREAD" /\ line'.op # "WRITE"
        /\ DOMAIN line'.result = {} /\ line'.queued = queued
    BY <2>2
  <2>4. \A k \in DOMAIN queued : queued[k].param = a /\ queued[k].value = d /\ k = 1
    BY DEF Queued
  <2>10. queued = <<>> \/ op = "READ"
    OBVIOUS
  <2>. HIDE DEF d, queued
  <2>5. a \in Addresses
    BY UsesTyped
  <2>6. PoolInv'
    BY <2>1, <2>2, <2>3, <2>5 DEF PoolInv
  <2>7. pool'[a] = d
    BY <2>2, <2>5 DEF PoolInv
  <2>8. PoolIsPlc'
    BY <1>1, <2>1, <2>3, <2>7, ThenIsPrime DEF PoolIsPlc, d
  <2>9. HistoryIsPlc'
    BY <2>1, <2>3, <2>4, <2>10, ThenIsPrime DEF HistoryIsPlc
  <2>. QED
    BY <1>1, <1>2, <2>6, <2>8, <2>9 DEF LineDone, AllTrue
<1>. QED
  BY <1>3, <1>4

LEMMA SetLine ==
  ASSUME OpcAssumption, OpcInv, PoolInv, use' = use, NEW a \in use.writes,
         NEW op \in {"SET", "SHARE"}, NEW value \in Values \cup {pool[b] : b \in Addresses},
         SET(op, a, value)
  PROVE  LineDone
<1>1. /\ last' = NoCall /\ pool' = [pool EXCEPT ![a] = value]
      /\ UNCHANGED <<g_bInitOK, g_bMainServer, g_bSndServer, alive, groups, plc>>
  BY DEF SET
<1>2. OpcInv'
  <2>1. GroupsInv'
    BY <1>1, GroupsSame
  <2>. QED
    BY <1>1, <2>1 DEF OpcInv
<1>3. PICK queued : /\ line' = [op |-> op, result |-> <<>>, queued |-> queued]
                    /\ op = "SET" \/ queued = <<>>
  BY DEF SET, Done
<1>4. line'.op = op /\ DOMAIN line'.result = {} /\ line'.queued = queued
  BY <1>3
<1>5. PoolInv'
  <2>1. value \in Values \cup {Empty, ErrorRead}
    BY DEF PoolInv
  <2>. QED
    BY <1>1, <1>4, <2>1 DEF PoolInv
<1>6. PoolIsPlc'
  BY <1>1 DEF PoolIsPlc, NoCall
<1>7. HistoryIsPlc'
  BY <1>3, <1>4 DEF HistoryIsPlc
<1>. QED
  BY <1>1, <1>2, <1>5, <1>6, <1>7 DEF LineDone, CallDone, AllTrue

LEMMA WriteLine ==
  ASSUME OpcAssumption, ValuesAssumption, OpcInv, PoolInv, use' = use,
         NEW a \in use.writes, WRITE(a)
  PROVE  LineDone
<1>1. NumberOf(pool[a]) \in Values
  BY NumberOfIsValue
<1>2. /\ OpcInv' /\ last'.call = "write" /\ last' # NoCall
      /\ DOMAIN last'.request = {1} /\ last'.request[1].address = a
      /\ last'.request[1].value = NumberOf(pool[a]) /\ WriteDoes(last'.request)
  BY <1>1, SingleWrite DEF WRITE
<1>3. PICK queued : /\ line' = [op |-> "WRITE", result |-> <<>>, queued |-> queued]
                    /\ queued = IF last'.ret # 0 THEN Queued(a, WriteError) ELSE <<>>
  BY DEF WRITE, Done
<1>4. /\ pool' = pool /\ line'.op = "WRITE" /\ DOMAIN line'.result = {}
      /\ line'.queued = queued
  BY <1>3 DEF WRITE
<1>5. PoolInv'
  BY <1>4 DEF PoolInv
<1>6. PoolIsPlc'
  <2>1. last'.ret = 0 => \/ plc'[a] = NumberOf(pool[a])
                        \/ RefusedThen(a)
                        \/ MisplacedThen(last'.request[1])
    BY <1>2 DEF WriteDoes
  <2>. QED
    BY <1>2, <1>4, <2>1, ThenIsPrime DEF PoolIsPlc, RefusedThen, Refused, NumberOf
<1>7. HistoryIsPlc'
  <2>1. \A k \in DOMAIN queued : queued[k].value = WriteError /\ last'.ret # 0
    BY <1>3 DEF Queued
  <2>. QED
    BY <1>4, <2>1 DEF HistoryIsPlc
<1>. QED
  BY <1>2, <1>5, <1>6, <1>7 DEF LineDone, CallDone, AllTrue

LEMMA WriteGroupLine ==
  ASSUME OpcAssumption, OpcInv, PoolInv, use' = use,
         NEW l \in use.writeLists, NEW v \in [DOMAIN l -> Values], WriteGroup(l, v)
  PROVE  LineDone
<1>1. SAPI_MWrite(l, v) /\ Raised("SGR WRITE")
  BY Zenon DEF WriteGroup
<1>2. OpcInv' /\ last'.call = "write" /\ WriteDoes(last'.request)
  BY <1>1, ListWrite, Zenon
<1>3. last'.call # "read" /\ "SGR WRITE" # "WRITE"
  BY <1>2, Zenon
<1>4. PoolInv' /\ AllTrue
  BY <1>1, <1>3, RaisedDone, Zenon
<1>. QED
  BY <1>2, <1>4 DEF LineDone, CallDone

\* What a group of parameters returns.
LEMMA GroupRead ==
  ASSUME OpcAssumption, OpcInv, use' = use,
         NEW l \in use.readLists, ReadGroup(l)
  PROVE  /\ OpcInv' /\ CallDone /\ plc' = plc /\ last'.call = "read"
         /\ last'.ret = 0 \/ last'.ret < 0
         /\ last'.ret = 0 =>
              /\ DOMAIN last'.request = DOMAIN l /\ DOMAIN last'.data = DOMAIN l
              /\ \A k \in DOMAIN l : last'.request[k].address = l[k]
              /\ \A k \in DOMAIN l :
                   /\ last'.data[k] \in Values \cup {NoValue}
                   /\ \/ last'.data[k] \in {NoValue, plc'[l[k]]}
                      \/ UnreadThen(last'.request[k])
<1>1. CASE CombineToRead(l) = <<>>
  <2>1. NoParameters
    BY <1>1 DEF ReadGroup
  <2>2. /\ last'.call = "read" /\ last'.ret = -1
        /\ UNCHANGED <<g_bInitOK, g_bMainServer, g_bSndServer, alive, groups, plc>>
    BY <2>1 DEF NoParameters, Finish, NoCall
  <2>3. GroupsInv'
    BY <2>2, GroupsSame
  <2>4. OpcInv'
    BY <2>2, <2>3 DEF OpcInv
  <2>. QED
    BY <2>2, <2>4 DEF CallDone, ReadReturns
<1>2. CASE CombineToRead(l) # <<>>
  <2>1. SAPI_MRead(l)
    BY <1>2 DEF ReadGroup
  <2>2. /\ OpcInv' /\ plc' = plc /\ last'.call = "read"
        /\ DOMAIN last'.request = DOMAIN l
        /\ \A k \in DOMAIN l : last'.request[k].address = l[k]
        /\ ReadReturns(last'.request)
    BY <2>1, ListRead
  <2>. QED
    BY <2>2 DEF CallDone, ReadReturns
<1>. QED
  BY <1>1, <1>2

\* The parts of the result of a group.
LEMMA PartsOfResult ==
  ASSUME NEW request, NEW data, NEW result, result = GetMReadResult(request, data)
  PROVE  /\ DOMAIN result = DOMAIN data
         /\ \A k \in DOMAIN data :
              /\ result[k].param = request[k].address
              /\ result[k].value = IF data[k] = NoValue THEN ErrorRead ELSE data[k]
BY DEF GetMReadResult

LEMMA MReadLine ==
  ASSUME OpcAssumption, OpcInv, PoolInv, use' = use,
         NEW l \in use.readLists, MREAD(l)
  PROVE  LineDone
<1>1. /\ OpcInv' /\ CallDone /\ plc' = plc /\ last'.call = "read"
      /\ last'.ret = 0 \/ last'.ret < 0
      /\ last'.ret = 0 =>
           /\ DOMAIN last'.request = DOMAIN l /\ DOMAIN last'.data = DOMAIN l
           /\ \A k \in DOMAIN l : last'.request[k].address = l[k]
           /\ \A k \in DOMAIN l :
                /\ last'.data[k] \in Values \cup {NoValue}
                /\ \/ last'.data[k] \in {NoValue, plc'[l[k]]}
                   \/ UnreadThen(last'.request[k])
  BY GroupRead DEF MREAD
<1>2. CASE last'.ret < 0
  <2>1. last'.ret # 0 /\ Raised("MREAD")
    BY <1>2 DEF MREAD
  <2>. QED
    BY <1>1, <2>1, RaisedDone DEF LineDone
<1>3. CASE ~(last'.ret < 0)
  <2>. DEFINE result == GetMReadResult(last'.request, last'.data)
              queued == IF l \in GroupAuto2LEIS THEN result ELSE <<>>
  <2>1. /\ DOMAIN result = DOMAIN l
        /\ \A k \in DOMAIN l :
             /\ result[k].param = l[k]
             /\ result[k].value = IF last'.data[k] = NoValue THEN ErrorRead ELSE last'.data[k]
    BY <1>1, <1>3, PartsOfResult
  <2>2. pool' = pool /\ line' = [op |-> "MREAD", result |-> result, queued |-> queued]
    BY <1>3 DEF MREAD, Done
  <2>3. \A k \in DOMAIN queued : k \in DOMAIN result /\ queued[k] = result[k]
    OBVIOUS
  <2>. HIDE DEF result, queued
  <2>4. line'.op = "MREAD" /\ line'.result = result /\ line'.queued = queued
    BY <2>2
  <2>5. PoolInv'
    BY <1>1, <1>3, <2>1, <2>2, <2>4 DEF PoolInv
  <2>6. PoolIsPlc'
    BY <1>1, <1>3, <2>1, <2>4, ThenIsPrime DEF PoolIsPlc
  <2>7. HistoryIsPlc'
    BY <1>1, <1>3, <2>1, <2>3, <2>4, ThenIsPrime DEF HistoryIsPlc
  <2>. QED
    BY <1>1, <2>5, <2>6, <2>7 DEF LineDone, AllTrue
<1>. QED
  BY <1>2, <1>3

\* Each part of a result is stored under its parameter, and nothing else is.
LEMMA PartsShared ==
  ASSUME NEW result, NEW to, to = SpreadResuts(result),
         \A j, k \in DOMAIN result : result[j].param = result[k].param => j = k
  PROVE  /\ DOMAIN to = Addresses
         /\ \A a \in Addresses :
              to[a] = pool[a] \/ \E k \in DOMAIN result : to[a] = result[k].value
         /\ \A k \in DOMAIN result :
              result[k].param \in Addresses => to[result[k].param] = result[k].value
<1>. DEFINE At(a) == {k \in DOMAIN result : result[k].param = a}
<1>1. to = [a \in Addresses |->
              IF At(a) = {} THEN pool[a] ELSE result[CHOOSE k \in At(a) : TRUE].value]
  BY DEF SpreadResuts
<1>2. ASSUME NEW a, At(a) # {}
      PROVE  (CHOOSE k \in At(a) : TRUE) \in At(a)
  BY <1>2
<1>3. \A k \in DOMAIN result : k \in At(result[k].param)
  OBVIOUS
<1>4. \A a : \A j, k \in At(a) : j = k
  OBVIOUS
<1>5. \A a : At(a) \subseteq DOMAIN result
  OBVIOUS
<1>. HIDE DEF At
<1>6. \A a \in Addresses :
        to[a] = IF At(a) = {} THEN pool[a] ELSE result[CHOOSE k \in At(a) : TRUE].value
  BY <1>1
<1>7. ASSUME NEW k \in DOMAIN result, result[k].param \in Addresses
      PROVE  to[result[k].param] = result[k].value
  <2>. DEFINE a == result[k].param
  <2>1. k \in At(a) /\ At(a) # {}
    BY <1>3
  <2>2. (CHOOSE j \in At(a) : TRUE) = k
    BY <1>2, <1>4, <2>1
  <2>. QED
    BY <1>6, <1>7, <2>1, <2>2
<1>8. \A a \in Addresses :
        to[a] = pool[a] \/ \E k \in DOMAIN result : to[a] = result[k].value
  BY <1>2, <1>5, <1>6
<1>. QED
  BY <1>1, <1>7, <1>8

LEMMA SMReadLine ==
  ASSUME OpcAssumption, OpcInv, PoolInv, use' = use,
         NEW l \in use.readLists, SMREAD(l)
  PROVE  LineDone
<1>1. /\ OpcInv' /\ CallDone /\ plc' = plc /\ last'.call = "read"
      /\ last'.ret = 0 \/ last'.ret < 0
      /\ last'.ret = 0 =>
           /\ DOMAIN last'.request = DOMAIN l /\ DOMAIN last'.data = DOMAIN l
           /\ \A k \in DOMAIN l : last'.request[k].address = l[k]
           /\ \A k \in DOMAIN l :
                /\ last'.data[k] \in Values \cup {NoValue}
                /\ \/ last'.data[k] \in {NoValue, plc'[l[k]]}
                   \/ UnreadThen(last'.request[k])
  BY GroupRead DEF SMREAD
<1>2. CASE last'.ret < 0
  <2>1. last'.ret # 0 /\ Raised("SMREAD")
    BY <1>2 DEF SMREAD
  <2>. QED
    BY <1>1, <2>1, RaisedDone DEF LineDone
<1>3. CASE ~(last'.ret < 0)
  <2>. DEFINE result == GetMReadResult(last'.request, last'.data)
  <2>1. /\ DOMAIN result = DOMAIN l
        /\ \A k \in DOMAIN l :
             /\ result[k].param = l[k]
             /\ result[k].value = IF last'.data[k] = NoValue THEN ErrorRead ELSE last'.data[k]
    BY <1>1, <1>3, PartsOfResult
  <2>2. pool' = SpreadResuts(result) /\ line' = [op |-> "SMREAD", result |-> result, queued |-> <<>>]
    BY <1>3 DEF SMREAD, Done
  <2>. HIDE DEF result
  <2>3. line'.op = "SMREAD" /\ line'.result = result /\ DOMAIN line'.queued = {}
    BY <2>2
  <2>4. /\ \A j, k \in DOMAIN l : l[j] = l[k] => j = k
        /\ \A k \in DOMAIN l : l[k] \in Addresses
    BY UsesTyped
  <2>5. \A j, k \in DOMAIN result : result[j].param = result[k].param => j = k
    BY <2>1, <2>4
  <2>6. /\ DOMAIN pool' = Addresses
        /\ \A a \in Addresses :
             pool'[a] = pool[a] \/ \E k \in DOMAIN result : pool'[a] = result[k].value
        /\ \A k \in DOMAIN result :
             result[k].param \in Addresses => pool'[result[k].param] = result[k].value
    BY <2>2, <2>5, PartsShared
  <2>7. \A k \in DOMAIN l : /\ result[k].value \in Values \cup {ErrorRead}
                            /\ pool'[l[k]] = result[k].value
    BY <1>1, <1>3, <2>1, <2>4, <2>6
  <2>8. PoolInv'
    <3>1. \A a \in Addresses : pool'[a] \in Values \cup {Empty, ErrorRead}
      BY <2>1, <2>6, <2>7 DEF PoolInv
    <3>2. pool' = [a \in Addresses |-> pool'[a]]
      BY <2>2, <2>6 DEF SpreadResuts
    <3>. QED
      BY <2>1, <2>3, <2>7, <3>1, <3>2 DEF PoolInv
  <2>9. PoolIsPlc'
    BY <1>1, <1>3, <2>1, <2>3, <2>7, ThenIsPrime DEF PoolIsPlc
  <2>10. HistoryIsPlc'
    BY <2>3 DEF HistoryIsPlc
  <2>. QED
    BY <1>1, <2>8, <2>9, <2>10 DEF LineDone, AllTrue
<1>. QED
  BY <1>2, <1>3

LEMMA OutsideLine ==
  ASSUME OpcInv, PoolInv, use' = use, Outside
  PROVE  LineDone
<1>1. OpcInv' /\ last' = NoCall
  BY OtherSteps DEF Outside
<1>2. last'.request = <<>>
  BY <1>1 DEF NoCall
<1>3. Raised("none")
  BY DEF Outside
<1>. QED
  BY <1>1, <1>2, <1>3, RaisedDone DEF LineDone, CallDone

LEMMA LinesKeep ==
  ASSUME OpcAssumption, ValuesAssumption, OpcInv, PoolInv, ValuesNext
  PROVE  LineDone
<1>1. use' = use /\ ValuesStep
  BY DEF ValuesNext
<1>2. CASE \E a \in use.reads, op \in {"READ", "SREAD"} : READ(op, a)
  BY <1>1, <1>2, ReadLine
<1>3. CASE \E l \in use.readLists : MREAD(l)
  BY <1>1, <1>3, MReadLine
<1>4. CASE \E l \in use.readLists : SMREAD(l)
  BY <1>1, <1>4, SMReadLine
<1>5. CASE \E a \in use.writes : WRITE(a)
  BY <1>1, <1>5, WriteLine
<1>6. CASE \E l \in use.writeLists : \E v \in [DOMAIN l -> Values] : WriteGroup(l, v)
  BY <1>1, <1>6, WriteGroupLine
<1>7. CASE \E a \in use.writes, op \in {"SET", "SHARE"} :
             \E value \in Values \cup {pool[b] : b \in Addresses} : SET(op, a, value)
  BY <1>1, <1>7, SetLine
<1>8. CASE Outside
  BY <1>1, <1>8, OutsideLine
<1>. QED
  BY <1>1, <1>2, <1>3, <1>4, <1>5, <1>6, <1>7, <1>8 DEF ValuesStep

-----------------------------------------------------------------------------
(* The calls of OpcS7.dll                                                  *)

\* What holds after every call.
CallInv == OpcInv /\ ConfirmedIsWritten

LEMMA InitCalls ==
  ASSUME Init
  PROVE  CallInv
<1>1. DOMAIN groups = {} /\ last.call = "none"
  BY DEF Init, NoCall
<1>2. GroupsInv
  BY <1>1 DEF GroupsInv
<1>. QED
  BY <1>1, <1>2 DEF CallInv, OpcInv, ConfirmedIsWritten, Init

LEMMA CallsStay ==
  ASSUME OpcAssumption, CallInv, [Next]_vars
  PROVE  CallInv'
<1>1. CASE Next
  BY <1>1, CallsKeep, ConfirmedKept DEF CallInv
<1>2. CASE UNCHANGED vars
  <2>1. GroupsInv'
    BY <1>2, GroupsSame DEF CallInv, vars
  <2>2. OpcInv'
    BY <1>2, <2>1 DEF CallInv, OpcInv, vars
  <2>3. ConfirmedIsWritten'
    BY <1>2 DEF CallInv, ConfirmedIsWritten, WrittenRequest, Refused, Misplaced, OtherItem,
                Items, vars
  <2>. QED
    BY <2>2, <2>3 DEF CallInv
<1>. QED
  BY <1>1, <1>2

\* OpcGroups: after any number of calls the items of a group have the identifiers
\* its name lists, one item each, with the handle of its state, and what a write
\* call has confirmed is written as CallsConfirmed says (SAPI_Write and
\* SAPI_MWrite, OpcS7.cpp), also for lists that have one name and for any memory
\* of new items.
THEOREM CallsInvariance ==
  Spec => []CallInv
<1>1. Init => CallInv
  BY InitCalls
<1>2. CallInv /\ [Next]_vars => CallInv'
  BY OpcAssumption, CallsStay
<1>. QED
  BY <1>1, <1>2, PTL DEF Spec

\* OpcGroups: a write call of a formula or a program that returns 0 has written
\* each value, unless the server has refused the item for good, the group is that
\* of another list with the same name (GetListName, EdpsParams.cpp), or an item
\* the server does not know has the handle of another (AddItem, OPCItems.cpp).
THEOREM CallsConfirmed ==
  Spec => []ConfirmedIsWritten
<1>1. CallInv => ConfirmedIsWritten
  BY DEF CallInv
<1>. QED
  BY <1>1, CallsInvariance, PTL

\* OpcGroups: a call changes what it was asked to write and no more, or an item
\* whose AddItems had been refused (COPCItems::SetWriteResult, OPCItems.cpp), or
\* one that it took for an item of its request in the two ways just named.
THEOREM CallsOnlyAsked ==
  Spec => OnlyAskedWritten
<1>. DEFINE Asked(a) ==
              plc'[a] # plc[a] /\ last' # NoCall =>
                \/ \E k \in DOMAIN last'.request :
                     last'.request[k].address = a /\ last'.request[k].value = plc'[a]
                \/ LeftChosen(a)
                \/ Misdirected(a)'
<1>1. CallInv /\ [Next]_vars => [\A a \in Addresses : Asked(a)]_vars
  <2>. SUFFICES ASSUME CallInv, Next, NEW a \in Addresses,
                       plc'[a] # plc[a], last' # NoCall
                PROVE  \/ \E k \in DOMAIN last'.request :
                            last'.request[k].address = a /\ last'.request[k].value = plc'[a]
                       \/ LeftChosen(a)
                       \/ Misdirected(a)'
    OBVIOUS
  <2>1. CallDone
    BY OpcAssumption, CallsKeep DEF CallInv
  <2>. QED
    BY <2>1, ChangedIsAsked
<1>. QED
  BY <1>1, CallsInvariance, PTL DEF Spec, OnlyAskedWritten

-----------------------------------------------------------------------------
(* The values of parameters                                                *)

\* What holds after every line of a formula.
IInv ==
  /\ OpcInv
  /\ PoolInv
  /\ ConfirmedIsWritten
  /\ PoolIsPlc
  /\ HistoryIsPlc

LEMMA InitLines ==
  ASSUME ValuesInit
  PROVE  IInv
<1>1. OpcInv /\ ConfirmedIsWritten
  BY InitCalls DEF ValuesInit, CallInv
<1>2. /\ pool = [a \in Addresses |-> Empty]
      /\ DOMAIN line.result = {} /\ DOMAIN line.queued = {} /\ DOMAIN last.request = {}
  BY DEF ValuesInit, Init, NoLine, NoCall
<1>3. PoolInv
  BY <1>2 DEF PoolInv
<1>4. PoolIsPlc /\ HistoryIsPlc
  BY <1>2 DEF PoolIsPlc, HistoryIsPlc
<1>. QED
  BY <1>1, <1>3, <1>4 DEF IInv

LEMMA LinesStay ==
  ASSUME OpcAssumption, ValuesAssumption, IInv,
         [ValuesNext]_<<vars, valueVars>>
  PROVE  IInv'
<1>1. CASE ValuesNext
  <2>1. LineDone
    BY <1>1, LinesKeep DEF IInv
  <2>2. ConfirmedIsWritten'
    BY <2>1, ConfirmedKept DEF LineDone
  <2>. QED
    BY <2>1, <2>2 DEF LineDone, AllTrue, IInv
<1>2. CASE UNCHANGED <<vars, valueVars>>
  <2>1. CallInv'
    BY <1>2, CallsStay DEF IInv, CallInv
  <2>2. /\ pool' = pool /\ line' = line /\ last' = last /\ plc' = plc /\ groups' = groups
    BY <1>2 DEF vars, valueVars
  <2>3. PoolInv'
    BY <2>2 DEF IInv, PoolInv
  <2>4. PoolIsPlc'
    BY <2>2 DEF IInv, PoolIsPlc, NumberOf, Refused, Misplaced, OtherItem, Unread, Items
  <2>5. HistoryIsPlc'
    BY <2>2 DEF IInv, HistoryIsPlc, Unread, Items
  <2>. QED
    BY <2>1, <2>3, <2>4, <2>5 DEF IInv, CallInv
<1>. QED
  BY <1>1, <1>2

\* SisValues: the lines of formulas (Calculate, Calculator.cls) keep what the
\* calls keep, and what they share and queue is right.
THEOREM LinesInvariance ==
  ValuesSpec => []IInv
<1>1. ValuesInit => IInv
  BY InitLines
<1>2. IInv /\ [ValuesNext]_<<vars, valueVars>> => IInv'
  BY OpcAssumption, ValuesAssumption, LinesStay
<1>. QED
  BY <1>1, <1>2, PTL DEF ValuesSpec

LEMMA TypesKept ==
  ASSUME OpcInv
  PROVE  TypeOK
<1>1. ASSUME NEW name \in DOMAIN groups, NEW k \in DOMAIN groups[name],
             NEW j \in DOMAIN groups[name]
      PROVE  /\ groups[name][k].status \subseteq Flags
             /\ groups[name][k].address \in Addresses
             /\ "Invalid" \in groups[name][k].status => groups[name][k].handle = NoHandle
             /\ groups[name][k].id = groups[name][j].id => k = j
  <2>1. GroupInv(groups[name])
    BY DEF OpcInv, GroupsInv
  <2>2. ItemInv(groups[name][k])
    BY <2>1 DEF GroupInv
  <2>. QED
    BY <2>1, <2>2 DEF GroupInv, ItemInv, Item
<1>. QED
  BY <1>1 DEF OpcInv, TypeOK

\* SisValues: only numbers and read errors are in the pool of ds.dll, so the PLC
\* is never given a text, and no item is in a group twice.
THEOREM ValuesTyped ==
  ValuesSpec => []ValuesTypeOK
<1>1. IInv => ValuesTypeOK
  BY TypesKept DEF IInv, PoolInv, ValuesTypeOK
<1>. QED
  BY <1>1, LinesInvariance, PTL

\* SisValues: what the lines WRITE of formulas have been told is written is in
\* the PLC, with the exceptions of CallsConfirmed and no other.
THEOREM LinesConfirmed ==
  ValuesSpec => []ConfirmedIsWritten
<1>1. IInv => ConfirmedIsWritten
  BY DEF IInv
<1>. QED
  BY <1>1, LinesInvariance, PTL

\* SisValues: a line of a formula changes at most what it writes in the PLC, with
\* the exceptions of CallsOnlyAsked.
THEOREM LinesOnlyAsked ==
  ValuesSpec => OnlyAskedWritten
<1>. DEFINE Asked(a) ==
              plc'[a] # plc[a] /\ last' # NoCall =>
                \/ \E k \in DOMAIN last'.request :
                     last'.request[k].address = a /\ last'.request[k].value = plc'[a]
                \/ LeftChosen(a)
                \/ Misdirected(a)'
<1>1. IInv /\ [ValuesNext]_<<vars, valueVars>> => [\A a \in Addresses : Asked(a)]_vars
  <2>. SUFFICES ASSUME IInv, ValuesNext, NEW a \in Addresses,
                       plc'[a] # plc[a], last' # NoCall
                PROVE  \/ \E k \in DOMAIN last'.request :
                            last'.request[k].address = a /\ last'.request[k].value = plc'[a]
                       \/ LeftChosen(a)
                       \/ Misdirected(a)'
    OBVIOUS
  <2>1. CallDone
    BY OpcAssumption, ValuesAssumption, LinesKeep DEF IInv, LineDone
  <2>. QED
    BY <2>1, ChangedIsAsked
<1>. QED
  BY <1>1, LinesInvariance, PTL DEF ValuesSpec, OnlyAskedWritten

\* SisValues: what a line that reads shares is what the PLC holds, or, for an item
\* the server has not named in its answers and which is still marked as to be
\* read, or one of another list with the same name, what that item held; and what
\* a line that writes has shared is written as LinesConfirmed says
\* (LocalRWFDatum, Calculator.cls).
THEOREM PoolTrue ==
  ValuesSpec => []PoolIsPlc
<1>1. IInv => PoolIsPlc
  BY DEF IInv
<1>. QED
  BY <1>1, LinesInvariance, PTL

\* SisValues: the samples that go to LEIS are what the PLC held, those a formula
\* has set, the texts of errors and the items still to be read aside (Value,
\* FDPTR.cls).
THEOREM HistoryTrue ==
  ValuesSpec => []HistoryIsPlc
<1>1. IInv => HistoryIsPlc
  BY DEF IInv
<1>. QED
  BY <1>1, LinesInvariance, PTL

=============================================================================
