-------------------------- MODULE SapiSessionsProofs --------------------------
(***************************************************************************)
(* Proofs about the tables of sessions and connections, for any names, any *)
(* sizes of the tables and any contents of what is not initialised.        *)
(***************************************************************************)
EXTENDS SapiSessions, TLAPS, FiniteSetTheorems, WellFoundedInduction

\* Of the connections behind entry n those that use the session at address b, and
\* those of them that will release it.
UsersFrom(cons, n, b) == {i \in n + 1 .. Len(cons) : cons[i].sess = b}
ReleasersFrom(cons, n, b) ==
  {i \in n + 1 .. Len(cons) : cons[i].sess = b /\ cons[i].SessStatus = 0}

\* The tables t hold the sessions that the connections behind entry n need: each
\* of those is counted, and no session is kept that nobody has counted.
Owned(t, cons, n) ==
  /\ t \in Tables /\ ~t.undefined /\ Cardinality(t.live) = t.qty
  /\ \A b \in t.live : t.ref[b] > 0
  /\ \A i \in n + 1 .. Len(cons) : cons[i].sess \in t.live
  /\ \A b \in Addresses : t.ref[b] >= Cardinality(UsersFrom(cons, n, b))

\* A session is counted more often than it will be released.
Leak(t, cons) == \E b \in t.live : t.ref[b] > Cardinality(ReleasersFrom(cons, 0, b))

\* Without a leak the table of sessions holds the sessions that live.
Sound(t, cons) ==
  IF t.undefined
    THEN t \in Tables /\ (t.qty = SessQty \/ Leak(t, cons))
    ELSE Owned(t, cons, 0) /\ (Dangling(t) => Leak(t, cons))

IInv ==
  /\ Con \in Seq(Connection) /\ Len(Con) <= ConnQty
  /\ Sound(tab, Con)
  /\ AskedIsUsed

-----------------------------------------------------------------------------
(* The sets of users                                                       *)

LEMMA UsersFinite ==
  ASSUME NEW cons \in Seq(Connection), NEW n \in Nat, NEW b
  PROVE  /\ IsFiniteSet(UsersFrom(cons, n, b)) /\ IsFiniteSet(ReleasersFrom(cons, n, b))
         /\ Cardinality(UsersFrom(cons, n, b)) \in Nat
         /\ Cardinality(ReleasersFrom(cons, n, b)) \in Nat
         /\ Cardinality(ReleasersFrom(cons, n, b)) <= Cardinality(UsersFrom(cons, n, b))
<1>1. IsFiniteSet(n + 1 .. Len(cons))
  BY FS_Interval
<1>2. /\ UsersFrom(cons, n, b) \subseteq n + 1 .. Len(cons)
      /\ ReleasersFrom(cons, n, b) \subseteq UsersFrom(cons, n, b)
  BY DEF UsersFrom, ReleasersFrom
<1>3. IsFiniteSet(UsersFrom(cons, n, b))
  BY <1>1, <1>2, FS_Subset
<1>. QED
  BY <1>2, <1>3, FS_Subset, FS_CardinalityType

\* Behind entry n there is one user of its session less than behind entry n - 1.
LEMMA UsersOfEntry ==
  ASSUME NEW cons \in Seq(Connection), NEW n \in 1 .. Len(cons), NEW b
  PROVE  /\ Cardinality(UsersFrom(cons, n - 1, b)) =
              Cardinality(UsersFrom(cons, n, b)) + (IF cons[n].sess = b THEN 1 ELSE 0)
         /\ Cardinality(ReleasersFrom(cons, n - 1, b)) =
              Cardinality(ReleasersFrom(cons, n, b))
                + (IF cons[n].sess = b /\ cons[n].SessStatus = 0 THEN 1 ELSE 0)
<1>. DEFINE U == UsersFrom(cons, n, b)  R == ReleasersFrom(cons, n, b)
<1>. n \in Nat /\ Len(cons) \in Nat
  OBVIOUS
<1>1. IsFiniteSet(U) /\ IsFiniteSet(R) /\ Cardinality(U) \in Nat /\ Cardinality(R) \in Nat
  BY UsersFinite
<1>2. n \notin U /\ n \notin R
  BY DEF UsersFrom, ReleasersFrom
<1>3. UsersFrom(cons, n - 1, b) = IF cons[n].sess = b THEN U \cup {n} ELSE U
  BY DEF UsersFrom
<1>4. ReleasersFrom(cons, n - 1, b) =
        IF cons[n].sess = b /\ cons[n].SessStatus = 0 THEN R \cup {n} ELSE R
  BY DEF ReleasersFrom
<1>5. Cardinality(U \cup {n}) = Cardinality(U) + 1 /\ Cardinality(R \cup {n}) = Cardinality(R) + 1
  BY <1>1, <1>2, FS_AddElement
<1>. HIDE DEF U, R
<1>. QED
  BY <1>1, <1>3, <1>4, <1>5 DEF U, R

\* A connection behind the others adds one to the users of its session.
LEMMA UsersOfAppended ==
  ASSUME NEW cons \in Seq(Connection), NEW c \in Connection, NEW b
  PROVE  /\ Cardinality(UsersFrom(Append(cons, c), 0, b)) =
              Cardinality(UsersFrom(cons, 0, b)) + (IF c.sess = b THEN 1 ELSE 0)
         /\ Cardinality(ReleasersFrom(Append(cons, c), 0, b)) =
              Cardinality(ReleasersFrom(cons, 0, b))
                + (IF c.sess = b /\ c.SessStatus = 0 THEN 1 ELSE 0)
<1>. DEFINE U == UsersFrom(cons, 0, b)  R == ReleasersFrom(cons, 0, b)
            n == Len(cons) + 1  more == Append(cons, c)
<1>1. IsFiniteSet(U) /\ IsFiniteSet(R) /\ Cardinality(U) \in Nat /\ Cardinality(R) \in Nat
  BY UsersFinite
<1>2. /\ Len(cons) \in Nat /\ Len(more) = n /\ more[n] = c
      /\ \A i \in 1 .. Len(cons) : more[i] = cons[i]
  OBVIOUS
<1>. HIDE DEF more
<1>3. n \notin U /\ n \notin R
  BY <1>2 DEF UsersFrom, ReleasersFrom
<1>4. UsersFrom(more, 0, b) = IF c.sess = b THEN U \cup {n} ELSE U
  BY <1>2 DEF UsersFrom
<1>5. ReleasersFrom(more, 0, b) = IF c.sess = b /\ c.SessStatus = 0 THEN R \cup {n} ELSE R
  BY <1>2 DEF ReleasersFrom
<1>6. Cardinality(U \cup {n}) = Cardinality(U) + 1 /\ Cardinality(R \cup {n}) = Cardinality(R) + 1
  BY <1>1, <1>3, FS_AddElement
<1>. HIDE DEF U, R, n
<1>7. /\ Cardinality(UsersFrom(more, 0, b)) = Cardinality(U) + (IF c.sess = b THEN 1 ELSE 0)
      /\ Cardinality(ReleasersFrom(more, 0, b)) =
           Cardinality(R) + (IF c.sess = b /\ c.SessStatus = 0 THEN 1 ELSE 0)
  <2>1. Cardinality(UsersFrom(more, 0, b)) = Cardinality(U) + (IF c.sess = b THEN 1 ELSE 0)
    <3>1. CASE c.sess = b
      BY <1>1, <1>4, <1>6, <3>1
    <3>2. CASE c.sess # b
      <4>1. UsersFrom(more, 0, b) = U
        BY <1>4, <3>2
      <4>2. Cardinality(U) = Cardinality(U) + 0
        BY <1>1
      <4>. QED
        BY <3>2, <4>1, <4>2, Zenon
    <3>. QED
      BY <3>1, <3>2
  <2>2. CASE c.sess = b /\ c.SessStatus = 0
    BY <1>1, <1>5, <1>6, <2>1, <2>2
  <2>3. CASE ~(c.sess = b /\ c.SessStatus = 0)
    <3>1. ReleasersFrom(more, 0, b) = R
      BY <1>5, <2>3
    <3>2. Cardinality(R) = Cardinality(R) + 0
      BY <1>1
    <3>. QED
      BY <2>1, <2>3, <3>1, <3>2, Zenon
  <2>. QED
    BY <2>2, <2>3
<1>. QED
  BY <1>7 DEF U, R, more

LEMMA NoUsers ==
  ASSUME NEW n, NEW b
  PROVE  /\ Cardinality(UsersFrom(<< >>, 0, b)) = 0
         /\ Cardinality(ReleasersFrom(<< >>, 0, b)) = 0
<1>1. UsersFrom(<< >>, 0, b) = {} /\ ReleasersFrom(<< >>, 0, b) = {}
  BY DEF UsersFrom, ReleasersFrom
<1>. QED
  BY <1>1, FS_EmptySet

-----------------------------------------------------------------------------
(* The tables                                                              *)

LEMMA TableTypes ==
  ASSUME NEW t \in Tables
  PROVE  /\ t.Sess \in [0 .. SessQty - 1 -> Addresses] /\ t.qty \in 0 .. SessQty
         /\ t.live \in SUBSET Addresses /\ IsFiniteSet(t.live)
         /\ t.ref \in [Addresses -> 0 .. MaxRef] /\ t.ord \in [Addresses -> 0 .. SessQty - 1]
         /\ t.name \in [Addresses -> CPNames] /\ t.undefined \in BOOLEAN
         /\ SessQty \in Nat \ {0} /\ MaxRef \in Nat \ {0} /\ ConnQty \in Nat \ {0}
         /\ \A b \in Addresses : t.ref[b] \in Nat /\ t.ref[b] <= MaxRef
<1>1. /\ t.Sess \in [0 .. SessQty - 1 -> Addresses] /\ t.qty \in 0 .. SessQty
      /\ t.live \in SUBSET Addresses
      /\ t.ref \in [Addresses -> 0 .. MaxRef] /\ t.ord \in [Addresses -> 0 .. SessQty - 1]
      /\ t.name \in [Addresses -> CPNames] /\ t.undefined \in BOOLEAN
  BY DEF Tables
<1>2. IsFiniteSet(t.live)
  BY <1>1, SapiAssumption, FS_Subset
<1>. QED
  BY <1>1, <1>2, SapiAssumption

\* The count of a session changes.
LEMMA CountChanges ==
  ASSUME NEW t \in Tables, NEW a \in Addresses, NEW k \in 0 .. MaxRef
  PROVE  LET u == [t EXCEPT !.ref[a] = k]
         IN  /\ u \in Tables /\ u.ref = [t.ref EXCEPT ![a] = k]
             /\ u.Sess = t.Sess /\ u.qty = t.qty /\ u.live = t.live /\ u.ord = t.ord
             /\ u.name = t.name /\ u.undefined = t.undefined
<1>1. [t.ref EXCEPT ![a] = k] \in [Addresses -> 0 .. MaxRef]
  BY TableTypes
<1>. QED
  BY <1>1 DEF Tables

\* The table of sessions loses the entry of the session that is deleted, if its
\* OrdNum is right, and one at the end otherwise.
LEMMA SessionDeleted ==
  ASSUME NEW t \in Tables, NEW a \in Addresses, t.qty > 0
  PROVE  LET u == DeleteSession(t, a)
         IN  /\ u \in Tables /\ u.qty = t.qty - 1 /\ u.live = t.live \ {a}
             /\ u.ref = t.ref /\ u.ord = t.ord /\ u.name = t.name /\ u.undefined = t.undefined
             /\ \A i \in 0 .. t.qty - 2 : i < t.ord[a] => u.Sess[i] = t.Sess[i]
<1>. DEFINE moved == [i \in 0 .. SessQty - 1 |->
                        IF t.ord[a] <= i /\ i < t.qty - 1 THEN t.Sess[i + 1] ELSE t.Sess[i]]
<1>1. /\ t.Sess \in [0 .. SessQty - 1 -> Addresses] /\ t.qty \in 1 .. SessQty
      /\ t.ord[a] \in 0 .. SessQty - 1 /\ SessQty \in Nat \ {0} /\ t.live \in SUBSET Addresses
  BY TableTypes
<1>2. moved \in [0 .. SessQty - 1 -> Addresses]
  BY <1>1
<1>3. ASSUME NEW i \in 0 .. t.qty - 2, i < t.ord[a]
      PROVE  moved[i] = t.Sess[i]
  <2>1. i \in 0 .. SessQty - 1 /\ ~(t.ord[a] <= i)
    BY <1>1, <1>3
  <2>. QED
    BY <2>1
<1>4. DeleteSession(t, a) =
        [t EXCEPT !.live = t.live \ {a}, !.qty = t.qty - 1, !.Sess = moved]
  BY DEF DeleteSession, Tables
<1>5. t.live \ {a} \in SUBSET Addresses /\ t.qty - 1 \in 0 .. SessQty
  BY <1>1
<1>. HIDE DEF moved
<1>. QED
  BY <1>2, <1>3, <1>4, <1>5 DEF Tables

\* What the destructor of a connection does to the tables.
LEMMA Destroyed ==
  ASSUME NEW t \in Tables, NEW c \in Connection, c.sess \in t.live, t.ref[c.sess] > 0,
         Cardinality(t.live) = t.qty
  PROVE  LET u == Destroy(t, c)
         IN  /\ u \in Tables /\ u.undefined = t.undefined /\ Cardinality(u.live) = u.qty
             /\ u.ref = IF c.SessStatus = 0 THEN [t.ref EXCEPT ![c.sess] = @ - 1] ELSE t.ref
             /\ u.live = IF c.SessStatus = 0 /\ t.ref[c.sess] = 1 THEN t.live \ {c.sess} ELSE t.live
             /\ \A i \in 0 .. u.qty - 1 : u.live = t.live \/ i < t.ord[c.sess] => u.Sess[i] = t.Sess[i]
<1>. DEFINE a == c.sess
<1>1. a \in Addresses /\ t.ref[a] \in Nat /\ t.ref[a] <= MaxRef /\ IsFiniteSet(t.live)
      /\ t.ref \in [Addresses -> 0 .. MaxRef] /\ t.qty \in Nat /\ MaxRef \in Nat
  BY TableTypes DEF Connection
<1>2. t.qty > 0
  <2>1. t.live # {}
    OBVIOUS
  <2>. QED
    BY <1>1, <2>1, FS_EmptySet
<1>3. CASE c.SessStatus # 0
  <2>1. Destroy(t, c) = t
    BY <1>3 DEF Destroy
  <2>. QED
    BY <1>3, <2>1
<1>4. CASE c.SessStatus = 0
  <2>. DEFINE k == t.ref[a] - 1  v == [t EXCEPT !.ref[a] = k]
  <2>1. k \in 0 .. MaxRef
    BY <1>1
  <2>2. Destroy(t, c) = DecRef(t, a)
    BY <1>1, <1>2, <1>4 DEF Destroy
  <2>3. [t EXCEPT !.ref[a] = @ - 1] = v
    OBVIOUS
  <2>4. /\ v \in Tables /\ v.ref = [t.ref EXCEPT ![a] = k]
        /\ v.Sess = t.Sess /\ v.qty = t.qty /\ v.live = t.live /\ v.ord = t.ord
        /\ v.name = t.name /\ v.undefined = t.undefined
    BY <1>1, <2>1, CountChanges
  <2>5. v.ref[a] = k
    BY <1>1, <2>4
  <2>6. DecRef(t, a) = IF k = 0 THEN DeleteSession(v, a) ELSE v
    BY <2>3, <2>5 DEF DecRef
  <2>. HIDE DEF v
  <2>7. CASE k = 0
    <3>. DEFINE u == DeleteSession(v, a)
    <3>1. Destroy(t, c) = u
      BY <2>2, <2>6, <2>7
    <3>2. /\ u \in Tables /\ u.qty = t.qty - 1 /\ u.live = t.live \ {a}
          /\ u.ref = v.ref /\ u.ord = t.ord /\ u.name = t.name /\ u.undefined = t.undefined
          /\ \A i \in 0 .. t.qty - 2 : i < t.ord[a] => u.Sess[i] = t.Sess[i]
      BY <1>1, <1>2, <2>4, SessionDeleted
    <3>3. Cardinality(u.live) = u.qty
      <4>1. Cardinality(t.live \ {a}) = Cardinality(t.live) - 1
        BY <1>1, FS_RemoveElement
      <4>. QED
        BY <3>2, <4>1
    <3>4. u.live # t.live /\ 0 .. u.qty - 1 = 0 .. t.qty - 2
      BY <1>1, <3>2
    <3>. HIDE DEF u
    <3>5. t.ref[c.sess] = 1 /\ u.ref = [t.ref EXCEPT ![c.sess] = @ - 1]
      BY <1>1, <2>4, <2>7, <3>2
    <3>. QED
      BY <1>4, <3>1, <3>2, <3>3, <3>4, <3>5
  <2>8. CASE k # 0
    <3>1. Destroy(t, c) = v
      BY <2>2, <2>6, <2>8
    <3>2. t.ref[c.sess] # 1 /\ v.ref = [t.ref EXCEPT ![c.sess] = @ - 1]
      BY <1>1, <2>4, <2>8
    <3>. QED
      BY <1>4, <2>4, <3>1, <3>2
  <2>. QED
    BY <2>7, <2>8
<1>. QED
  BY <1>3, <1>4

-----------------------------------------------------------------------------
(* SAPI_Shut                                                               *)

LEMMA LeastNumber ==
  ASSUME NEW T, T \subseteq Nat, T # {}
  PROVE  \E m \in T : \A k \in T : m <= k
<1>1. PICK m \in T : \A k \in T : ~(<<k, m>> \in OpToRel(<, Nat))
  BY WFMin, NatLessThanWellFounded, Zenon
<1>2. \A k \in T : ~(k < m)
  BY <1>1 DEF OpToRel
<1>. QED
  <2>. m \in Nat /\ \A k \in T : k \in Nat
    OBVIOUS
  <2>. QED
    BY <1>2

\* The tables t after n destructors, if they are f[n - 1] after n - 1.
After(f, t, cons, n) == IF n = 0 THEN t ELSE Destroy(f[n - 1], cons[n])

\* The loop of SAPI_Shut has a result: there is no first number of destructors after
\* which it has none.
LEMMA LoopExists ==
  ASSUME NEW t, NEW cons, Len(cons) \in Nat
  PROVE  \E f : f = [n \in 0 .. Len(cons) |-> After(f, t, cons, n)]
<1>. DEFINE Runs(f, k) == f = [n \in 0 .. k |-> After(f, t, cons, n)]
            T == {k \in 0 .. Len(cons) : ~\E f : Runs(f, k)}
<1>1. CASE T # {}
  <2>1. PICK m \in T : \A k \in T : m <= k
    <3>. T \subseteq Nat
      OBVIOUS
    <3>. HIDE DEF T
    <3>. QED
      BY <1>1, LeastNumber
  <2>. m \in 0 .. Len(cons) /\ m \in Nat
    OBVIOUS
  <2>2. CASE m = 0
    <3>. DEFINE f == [n \in 0 .. m |-> t]
    <3>1. f = [n \in 0 .. m |-> After(f, t, cons, n)]
      BY <2>2 DEF After
    <3>2. \E g : Runs(g, m)
      BY <3>1
    <3>. QED
      BY <3>2
  <2>3. CASE m # 0
    <3>1. PICK g : Runs(g, m - 1)
      <4>. m - 1 \in 0 .. Len(cons) /\ m - 1 \notin T
        <5>. HIDE DEF T
        <5>. QED
          BY <2>1, <2>3
      <4>. QED
        OBVIOUS
    <3>. DEFINE f == [n \in 0 .. m |-> IF n = m THEN Destroy(g[m - 1], cons[m]) ELSE g[n]]
    <3>2. ASSUME NEW n \in 0 .. m
          PROVE  f[n] = After(f, t, cons, n)
      <4>1. f[m - 1] = g[m - 1] /\ f[m] = Destroy(g[m - 1], cons[m])
        BY <2>3
      <4>2. CASE n = m
        BY <2>3, <4>1, <4>2 DEF After
      <4>3. CASE n # m
        <5>1. f[n] = g[n] /\ n \in 0 .. m - 1
          BY <4>3
        <5>2. g[n] = After(g, t, cons, n)
          BY <3>1, <5>1
        <5>3. CASE n = 0
          BY <5>1, <5>2, <5>3 DEF After
        <5>4. CASE n # 0
          <6>1. n - 1 \in 0 .. m /\ n - 1 # m
            BY <5>1, <5>4
          <6>2. f[n - 1] = g[n - 1]
            BY <6>1
          <6>. HIDE DEF f
          <6>. QED
            BY <5>1, <5>2, <5>4, <6>2 DEF After
        <5>. QED
          BY <5>3, <5>4
      <4>. QED
        BY <4>2, <4>3
    <3>3. Runs(f, m)
      <4>1. f = [n \in 0 .. m |-> f[n]]
        OBVIOUS
      <4>. HIDE DEF f
      <4>. QED
        BY <3>2, <4>1
    <3>4. \E h : Runs(h, m)
      BY <3>3
    <3>. QED
      BY <3>4
  <2>. QED
    BY <2>2, <2>3
<1>2. CASE T = {}
  <2>1. \E f : Runs(f, Len(cons))
    BY <1>2
  <2>. QED
    BY <2>1
<1>. QED
  BY <1>1, <1>2

LEMMA LoopOfShut ==
  ASSUME NEW t, NEW cons, Len(cons) \in Nat
  PROVE  \E f : /\ f[0] = t /\ Shut(t, cons) = f[Len(cons)]
                /\ \A n \in 1 .. Len(cons) : f[n] = Destroy(f[n - 1], cons[n])
<1>. DEFINE f == CHOOSE f : f = [n \in 0 .. Len(cons) |-> After(f, t, cons, n)]
<1>1. f = [n \in 0 .. Len(cons) |-> After(f, t, cons, n)]
  BY LoopExists
<1>2. Shut(t, cons) = f[Len(cons)]
  BY DEF Shut, After
<1>. HIDE DEF f
<1>3. \A n \in 0 .. Len(cons) : f[n] = After(f, t, cons, n)
  BY <1>1
<1>4. f[0] = t /\ \A n \in 1 .. Len(cons) : f[n] = Destroy(f[n - 1], cons[n])
  BY <1>3 DEF After
<1>. QED
  BY <1>2, <1>4

\* One destructor of the loop.
LEMMA DestroyOwned ==
  ASSUME NEW cons \in Seq(Connection), NEW n \in 1 .. Len(cons), NEW t, Owned(t, cons, n - 1)
  PROVE  Owned(Destroy(t, cons[n]), cons, n)
<1>. DEFINE c == cons[n]  a == c.sess  u == Destroy(t, c)
<1>. n \in Nat /\ Len(cons) \in Nat /\ c \in Connection
  OBVIOUS
<1>0. /\ t \in Tables /\ ~t.undefined /\ Cardinality(t.live) = t.qty
      /\ \A b \in t.live : t.ref[b] > 0
      /\ \A i \in n .. Len(cons) : cons[i].sess \in t.live
      /\ \A b \in Addresses : t.ref[b] >= Cardinality(UsersFrom(cons, n - 1, b))
  BY DEF Owned
<1>1. a \in t.live /\ t.ref[a] > 0
  BY <1>0
<1>2. /\ u \in Tables /\ u.undefined = t.undefined /\ Cardinality(u.live) = u.qty
      /\ u.ref = IF c.SessStatus = 0 THEN [t.ref EXCEPT ![a] = @ - 1] ELSE t.ref
      /\ u.live = IF c.SessStatus = 0 /\ t.ref[a] = 1 THEN t.live \ {a} ELSE t.live
  BY <1>0, <1>1, Destroyed
<1>3. /\ t.ref \in [Addresses -> 0 .. MaxRef] /\ t.live \subseteq Addresses
      /\ \A b \in Addresses : t.ref[b] \in Nat
  BY <1>0, TableTypes
<1>. HIDE DEF u, c
<1>4. ASSUME NEW b \in Addresses
      PROVE  u.ref[b] = IF c.SessStatus = 0 /\ b = a THEN t.ref[b] - 1 ELSE t.ref[b]
  BY <1>2, <1>3
<1>5. ASSUME NEW b \in Addresses
      PROVE  u.ref[b] >= Cardinality(UsersFrom(cons, n, b))
  <2>. DEFINE k == Cardinality(UsersFrom(cons, n, b))
  <2>1. k \in Nat
    BY UsersFinite
  <2>2. Cardinality(UsersFrom(cons, n - 1, b)) = k + (IF a = b THEN 1 ELSE 0)
    BY UsersOfEntry DEF c
  <2>. HIDE DEF k
  <2>3. CASE a = b
    BY <1>0, <1>3, <1>4, <2>1, <2>2, <2>3 DEF k
  <2>4. CASE a # b
    <3>1. u.ref[b] = t.ref[b] /\ Cardinality(UsersFrom(cons, n - 1, b)) = k + 0
      BY <1>4, <2>2, <2>4
    <3>2. u.ref[b] >= k + 0
      BY <1>0, <3>1
    <3>. QED
      BY <2>1, <3>2 DEF k
  <2>. QED
    BY <2>3, <2>4
<1>6. ASSUME NEW b \in u.live
      PROVE  u.ref[b] > 0
  <2>1. b \in t.live /\ b \in Addresses /\ t.ref[b] \in Nat /\ t.ref[b] > 0
    BY <1>0, <1>2, <1>3
  <2>2. CASE c.SessStatus = 0 /\ b = a
    <3>1. t.ref[b] # 1 /\ u.ref[b] = t.ref[b] - 1
      BY <1>2, <1>4, <2>1, <2>2
    <3>. QED
      BY <2>1, <3>1
  <2>3. CASE ~(c.SessStatus = 0 /\ b = a)
    BY <1>4, <2>1, <2>3
  <2>. QED
    BY <2>2, <2>3
<1>7. ASSUME NEW i \in n + 1 .. Len(cons)
      PROVE  cons[i].sess \in u.live
  <2>. DEFINE b == cons[i].sess
  <2>1. b \in t.live /\ b \in Addresses
    BY <1>0, <1>3
  <2>2. i \in UsersFrom(cons, n, b)
    BY DEF UsersFrom
  <2>3. Cardinality(UsersFrom(cons, n, b)) # 0 /\ Cardinality(UsersFrom(cons, n, b)) \in Nat
    BY <2>2, UsersFinite, FS_EmptySet
  <2>4. u.ref[b] > 0
    BY <1>2, <1>5, <2>1, <2>3, TableTypes
  <2>. HIDE DEF b
  <2>5. CASE c.SessStatus = 0 /\ t.ref[a] = 1
    <3>1. b # a
      BY <1>4, <2>1, <2>4, <2>5
    <3>. QED
      BY <1>2, <2>1, <2>5, <3>1 DEF b
  <2>6. CASE ~(c.SessStatus = 0 /\ t.ref[a] = 1)
    BY <1>2, <2>1, <2>6 DEF b
  <2>. QED
    BY <2>5, <2>6
<1>8. ~u.undefined
  BY <1>0, <1>2
<1>. QED
  BY <1>2, <1>5, <1>6, <1>7, <1>8 DEF Owned, c, u

LEMMA ShutOwned ==
  ASSUME NEW cons \in Seq(Connection), NEW t, Owned(t, cons, 0)
  PROVE  Owned(Shut(t, cons), << >>, 0)
<1>. Len(cons) \in Nat
  OBVIOUS
<1>1. PICK f : /\ f[0] = t /\ Shut(t, cons) = f[Len(cons)]
               /\ \A n \in 1 .. Len(cons) : f[n] = Destroy(f[n - 1], cons[n])
  BY LoopOfShut
<1>. DEFINE T == {k \in 0 .. Len(cons) : ~Owned(f[k], cons, k)}
<1>2. CASE T # {}
  <2>1. PICK m \in T : \A k \in T : m <= k
    <3>. T \subseteq Nat
      OBVIOUS
    <3>. HIDE DEF T
    <3>. QED
      BY <1>2, LeastNumber
  <2>2. m \in 0 .. Len(cons) /\ ~Owned(f[m], cons, m)
    BY <2>1
  <2>3. m # 0
    BY <1>1, <2>2
  <2>4. Owned(f[m - 1], cons, m - 1)
    <3>. m - 1 \in 0 .. Len(cons) /\ m - 1 \notin T
      <4>. HIDE DEF T
      <4>. QED
        BY <2>1, <2>2, <2>3
    <3>. QED
      OBVIOUS
  <2>5. m \in 1 .. Len(cons) /\ f[m] = Destroy(f[m - 1], cons[m])
    BY <1>1, <2>2, <2>3
  <2>. QED
    BY <2>2, <2>4, <2>5, DestroyOwned
<1>3. CASE T = {}
  <2>. DEFINE u == Shut(t, cons)
  <2>1. Owned(u, cons, Len(cons))
    BY <1>1, <1>3
  <2>. HIDE DEF u
  <2>2. \A b \in Addresses : u.ref[b] >= Cardinality(UsersFrom(<< >>, 0, b))
    <3>1. \A b \in Addresses : UsersFrom(cons, Len(cons), b) = UsersFrom(<< >>, 0, b)
      BY DEF UsersFrom
    <3>. QED
      BY <2>1, <3>1 DEF Owned
  <2>3. \A i \in 0 + 1 .. Len(<< >>) : << >>[i].sess \in u.live
    OBVIOUS
  <2>. QED
    BY <2>1, <2>2, <2>3 DEF Owned, u
<1>. QED
  BY <1>2, <1>3

\* When no connection is left every session that lives is a leak.
LEMMA ShutSound ==
  ASSUME NEW t, Owned(t, << >>, 0)
  PROVE  Sound(t, << >>)
<1>1. t \in Tables /\ ~t.undefined /\ Cardinality(t.live) = t.qty /\ \A b \in t.live : t.ref[b] > 0
  BY DEF Owned
<1>2. ASSUME Dangling(t)
      PROVE  Leak(t, << >>)
  <2>1. t.qty # 0
    BY <1>1, <1>2, TableTypes DEF Dangling
  <2>2. PICK b \in t.live : TRUE
    BY <1>1, <2>1, FS_EmptySet
  <2>. QED
    BY <1>1, <2>2, NoUsers DEF Leak
<1>. QED
  BY <1>1, <1>2 DEF Sound

-----------------------------------------------------------------------------
(* New connections and sessions                                            *)

\* The session that is found has the name that was looked for.
LEMMA SessionFound ==
  ASSUME NEW t \in Tables, NEW cp, SessionIndex(t, cp) < t.qty
  PROVE  LET k == SessionIndex(t, cp)
         IN  k \in 0 .. t.qty - 1 /\ t.Sess[k] \in Addresses /\ t.name[t.Sess[k]] = cp
<1>. DEFINE found == {i \in 0 .. t.qty - 1 : t.name[t.Sess[i]] = cp}
            k == SessionIndex(t, cp)
<1>1. t.qty \in 0 .. SessQty /\ SessQty \in Nat /\ t.Sess \in [0 .. SessQty - 1 -> Addresses]
  BY TableTypes
<1>2. k = IF found = {} THEN t.qty ELSE CHOOSE i \in found : \A j \in found : i <= j
  BY DEF SessionIndex
<1>3. found # {}
  BY <1>1, <1>2
<1>4. \E i \in found : \A j \in found : i <= j
  <2>. found \subseteq Nat
    BY <1>1
  <2>. HIDE DEF found
  <2>. QED
    BY <1>3, LeastNumber
<1>5. k \in found
  <2>. HIDE DEF found, k
  <2>. QED
    BY <1>2, <1>3, <1>4
<1>. QED
  BY <1>1, <1>5

\* The tables still own what they owned when only counts have grown.
LEMMA CountedMore ==
  ASSUME NEW cons \in Seq(Connection), NEW t, Owned(t, cons, 0), NEW u \in Tables,
         u.live = t.live, u.qty = t.qty, u.undefined = t.undefined,
         \A i \in 0 .. t.qty - 1 : u.Sess[i] = t.Sess[i],
         \A b \in Addresses : u.ref[b] >= t.ref[b]
  PROVE  Owned(u, cons, 0) /\ (Dangling(u) <=> Dangling(t))
<1>1. /\ t \in Tables /\ ~t.undefined /\ Cardinality(t.live) = t.qty
      /\ \A b \in t.live : t.ref[b] > 0
      /\ \A i \in 0 + 1 .. Len(cons) : cons[i].sess \in t.live
      /\ \A b \in Addresses : t.ref[b] >= Cardinality(UsersFrom(cons, 0, b))
  BY DEF Owned
<1>2. t.live \subseteq Addresses /\ \A b \in Addresses : t.ref[b] \in Nat /\ u.ref[b] \in Nat
  BY <1>1, TableTypes
<1>3. ASSUME NEW b \in Addresses
      PROVE  /\ u.ref[b] >= Cardinality(UsersFrom(cons, 0, b))
             /\ b \in t.live => u.ref[b] > 0
  <2>1. Cardinality(UsersFrom(cons, 0, b)) \in Nat
    BY UsersFinite
  <2>. QED
    BY <1>1, <1>2, <2>1
<1>4. Dangling(u) <=> Dangling(t)
  BY DEF Dangling
<1>. QED
  BY <1>1, <1>2, <1>3, <1>4 DEF Owned

\* A connection is added to a session it has counted.
LEMMA CountedAppended ==
  ASSUME NEW cons \in Seq(Connection), NEW c \in Connection, NEW t \in Tables,
         Owned(t, cons, 0), c.sess \in t.live,
         t.ref[c.sess] > Cardinality(UsersFrom(cons, 0, c.sess))
  PROVE  Owned(t, Append(cons, c), 0) /\ Append(cons, c) \in Seq(Connection)
<1>. DEFINE more == Append(cons, c)
<1>1. /\ ~t.undefined /\ Cardinality(t.live) = t.qty
      /\ \A b \in t.live : t.ref[b] > 0
      /\ \A i \in 0 + 1 .. Len(cons) : cons[i].sess \in t.live
      /\ \A b \in Addresses : t.ref[b] >= Cardinality(UsersFrom(cons, 0, b))
  BY DEF Owned
<1>2. ASSUME NEW b \in Addresses
      PROVE  t.ref[b] >= Cardinality(UsersFrom(more, 0, b))
  <2>. DEFINE k == Cardinality(UsersFrom(cons, 0, b))
  <2>1. k \in Nat /\ t.ref[b] \in Nat
    BY UsersFinite, TableTypes
  <2>2. Cardinality(UsersFrom(more, 0, b)) = k + (IF c.sess = b THEN 1 ELSE 0)
    BY UsersOfAppended
  <2>. HIDE DEF k, more
  <2>3. CASE c.sess = b
    BY <2>1, <2>2, <2>3 DEF k
  <2>4. CASE c.sess # b
    <3>1. Cardinality(UsersFrom(more, 0, b)) = k + 0
      BY <2>2, <2>4
    <3>2. t.ref[b] >= k
      BY <1>1 DEF k
    <3>. QED
      BY <2>1, <3>1, <3>2
  <2>. QED
    BY <2>3, <2>4
<1>3. \A i \in 0 + 1 .. Len(more) : more[i].sess \in t.live
  BY <1>1
<1>. QED
  BY <1>1, <1>2, <1>3 DEF Owned

\* A new connection of a session that lives counts itself, and whatever its
\* SessStatus, deleting it does no harm to the others.
LEMMA ConnectionMade ==
  ASSUME NEW cons \in Seq(Connection), NEW t, Owned(t, cons, 0), NEW c \in Connection,
         c.sess \in t.live, t.ref[c.sess] < MaxRef
  PROVE  LET u == IncRef(t, c.sess)
         IN  /\ u \in Tables /\ u.name = t.name
             /\ Owned(u, cons, 0) /\ (Dangling(u) <=> Dangling(t))
             /\ Owned(u, Append(cons, c), 0) /\ Append(cons, c) \in Seq(Connection)
             /\ Owned(Destroy(u, c), cons, 0) /\ (Dangling(Destroy(u, c)) <=> Dangling(t))
<1>. DEFINE a == c.sess  k == t.ref[a] + 1  u == IncRef(t, a)  v == Destroy(u, c)
<1>0. /\ t \in Tables /\ ~t.undefined /\ Cardinality(t.live) = t.qty
      /\ \A b \in t.live : t.ref[b] > 0
      /\ \A b \in Addresses : t.ref[b] >= Cardinality(UsersFrom(cons, 0, b))
  BY DEF Owned
<1>1. a \in Addresses /\ t.ref \in [Addresses -> 0 .. MaxRef] /\ MaxRef \in Nat
      /\ \A b \in Addresses : t.ref[b] \in Nat
  BY <1>0, TableTypes DEF Connection
<1>2. k \in 0 .. MaxRef
  BY <1>1
<1>3. u = [t EXCEPT !.ref[a] = k]
  BY DEF IncRef
<1>4. /\ u \in Tables /\ u.ref = [t.ref EXCEPT ![a] = k]
      /\ u.Sess = t.Sess /\ u.qty = t.qty /\ u.live = t.live /\ u.ord = t.ord
      /\ u.name = t.name /\ u.undefined = t.undefined
  BY <1>0, <1>1, <1>2, <1>3, CountChanges
<1>. HIDE DEF u
<1>5. \A b \in Addresses : u.ref[b] = IF b = a THEN t.ref[b] + 1 ELSE t.ref[b]
  BY <1>1, <1>4
<1>6. Owned(u, cons, 0) /\ (Dangling(u) <=> Dangling(t))
  <2>. \A b \in Addresses : u.ref[b] >= t.ref[b]
    BY <1>1, <1>5
  <2>. QED
    BY <1>4, CountedMore
<1>7. Owned(u, Append(cons, c), 0) /\ Append(cons, c) \in Seq(Connection)
  <2>1. Cardinality(UsersFrom(cons, 0, a)) \in Nat /\ t.ref[a] \in Nat
        /\ t.ref[a] >= Cardinality(UsersFrom(cons, 0, a))
    BY <1>0, <1>1, UsersFinite
  <2>2. u.ref[a] = t.ref[a] + 1
    BY <1>1, <1>5
  <2>3. u.ref[c.sess] > Cardinality(UsersFrom(cons, 0, c.sess))
    BY <2>1, <2>2
  <2>. QED
    BY <1>4, <1>6, <2>3, CountedAppended
<1>8. Owned(v, cons, 0) /\ (Dangling(v) <=> Dangling(t))
  <2>1. u.ref[a] > 1 /\ a \in u.live /\ Cardinality(u.live) = u.qty /\ u.ref[a] > 0
    BY <1>0, <1>1, <1>4, <1>5
  <2>2. /\ v \in Tables /\ v.undefined = u.undefined /\ Cardinality(v.live) = v.qty
        /\ v.ref = IF c.SessStatus = 0 THEN [u.ref EXCEPT ![a] = @ - 1] ELSE u.ref
        /\ v.live = IF c.SessStatus = 0 /\ u.ref[a] = 1 THEN u.live \ {a} ELSE u.live
        /\ \A i \in 0 .. v.qty - 1 : v.live = u.live \/ i < u.ord[a] => v.Sess[i] = u.Sess[i]
    BY <1>4, <2>1, Destroyed
  <2>. HIDE DEF v
  <2>3. v.live = t.live /\ v.qty = t.qty
    BY <1>0, <1>4, <2>1, <2>2
  <2>4. \A i \in 0 .. t.qty - 1 : v.Sess[i] = t.Sess[i]
    BY <1>4, <2>2, <2>3
  <2>5. ASSUME NEW b \in Addresses
        PROVE  v.ref[b] >= t.ref[b]
    <3>1. u.ref \in [Addresses -> 0 .. MaxRef] /\ u.ref[b] \in Nat /\ t.ref[b] \in Nat
      BY <1>1, <1>4, TableTypes
    <3>2. CASE b = a
      BY <1>5, <2>2, <3>1, <3>2
    <3>3. CASE b # a
      <4>1. v.ref[b] = u.ref[b]
        BY <2>2, <3>1, <3>3
      <4>. QED
        BY <1>5, <3>1, <3>3, <4>1
    <3>. QED
      BY <3>2, <3>3
  <2>. QED
    BY <1>4, <2>2, <2>3, <2>4, <2>5, CountedMore
<1>. QED
  BY <1>4, <1>6, <1>7, <1>8 DEF u, v

\* A new session at an address that is free, with its first connection: deleting
\* both leaves what was there.
LEMMA SessionMade ==
  ASSUME NEW cons \in Seq(Connection), NEW t, Owned(t, cons, 0), ~Dangling(t),
         NEW c \in Connection, c.sess \notin t.live, c.SessStatus = 0,
         NEW cp \in CPNames, t.qty < SessQty
  PROVE  LET u == IncRef(NewSession(t, cp, c.sess), c.sess)
         IN  /\ u \in Tables /\ u.name[c.sess] = cp
             /\ Owned(u, Append(cons, c), 0) /\ Append(cons, c) \in Seq(Connection) /\ ~Dangling(u)
             /\ Owned(Destroy(u, c), cons, 0) /\ ~Dangling(Destroy(u, c))
<1>. DEFINE a == c.sess  u == IncRef(NewSession(t, cp, a), a)  v == Destroy(u, c)
            Sess == [t.Sess EXCEPT ![t.qty] = a]  ref == [t.ref EXCEPT ![a] = 0]
            name == [t.name EXCEPT ![a] = cp]  ord == [t.ord EXCEPT ![a] = t.qty]
            n == [t EXCEPT !.Sess = Sess, !.live = t.live \cup {a}, !.name = name, !.ref = ref,
                           !.ord = ord, !.qty = t.qty + 1]
<1>0. /\ t \in Tables /\ ~t.undefined /\ Cardinality(t.live) = t.qty
      /\ \A b \in t.live : t.ref[b] > 0
      /\ \A i \in 0 + 1 .. Len(cons) : cons[i].sess \in t.live
      /\ \A b \in Addresses : t.ref[b] >= Cardinality(UsersFrom(cons, 0, b))
  BY DEF Owned
<1>1. /\ a \in Addresses /\ t.Sess \in [0 .. SessQty - 1 -> Addresses] /\ t.qty \in 0 .. SessQty
      /\ t.live \subseteq Addresses /\ IsFiniteSet(t.live)
      /\ t.ref \in [Addresses -> 0 .. MaxRef] /\ t.ord \in [Addresses -> 0 .. SessQty - 1]
      /\ t.name \in [Addresses -> CPNames] /\ SessQty \in Nat /\ MaxRef \in Nat \ {0}
      /\ \A b \in Addresses : t.ref[b] \in Nat
  BY <1>0, TableTypes DEF Connection
<1>2. NewSession(t, cp, a) = n
  BY Zenon DEF NewSession
<1>3. /\ Sess \in [0 .. SessQty - 1 -> Addresses] /\ ref \in [Addresses -> 0 .. MaxRef]
      /\ name \in [Addresses -> CPNames] /\ ord \in [Addresses -> 0 .. SessQty - 1]
      /\ t.qty + 1 \in 0 .. SessQty /\ t.live \cup {a} \in SUBSET Addresses
      /\ name[a] = cp /\ ord[a] = t.qty /\ ref[a] = 0 /\ Sess[t.qty] = a
      /\ \A i \in 0 .. t.qty - 1 : Sess[i] = t.Sess[i]
      /\ \A b \in Addresses : b # a => ref[b] = t.ref[b]
  <2>1. t.qty \in 0 .. SessQty - 1 /\ 0 \in 0 .. MaxRef /\ t.qty + 1 \in 0 .. SessQty
    <3>1. t.qty \in 0 .. SessQty /\ t.qty < SessQty /\ SessQty \in Nat /\ MaxRef \in Nat \ {0}
      BY <1>1
    <3>. QED
      BY <3>1
  <2>2. Sess \in [0 .. SessQty - 1 -> Addresses] /\ Sess[t.qty] = a
    BY <1>1, <2>1
  <2>3. ASSUME NEW i \in 0 .. t.qty - 1
        PROVE  Sess[i] = t.Sess[i]
    <3>1. i \in 0 .. SessQty - 1 /\ i # t.qty
      BY <1>1
    <3>. QED
      BY <1>1, <3>1
  <2>4. ref \in [Addresses -> 0 .. MaxRef] /\ ref[a] = 0
        /\ \A b \in Addresses : b # a => ref[b] = t.ref[b]
    <3>1. t.ref \in [Addresses -> 0 .. MaxRef] /\ a \in Addresses
      BY <1>1
    <3>. QED
      BY <2>1, <3>1
  <2>5. name \in [Addresses -> CPNames] /\ name[a] = cp
    BY <1>1
  <2>6. ord \in [Addresses -> 0 .. SessQty - 1] /\ ord[a] = t.qty
    BY <1>1, <2>1
  <2>7. t.live \cup {a} \in SUBSET Addresses
    BY <1>1
  <2>. HIDE DEF Sess, ref, name, ord
  <2>. QED
    BY <2>1, <2>2, <2>3, <2>4, <2>5, <2>6, <2>7
<1>. HIDE DEF Sess, ref, name, ord
<1>4. /\ n \in Tables /\ n.Sess = Sess /\ n.live = t.live \cup {a} /\ n.name = name
      /\ n.ref = ref /\ n.ord = ord /\ n.qty = t.qty + 1 /\ n.undefined = t.undefined
  BY <1>0, <1>3 DEF Tables
<1>. HIDE DEF n
<1>5. u = [n EXCEPT !.ref[a] = 1]
  <2>1. [n EXCEPT !.ref[a] = @ + 1] = [n EXCEPT !.ref[a] = n.ref[a] + 1]
    OBVIOUS
  <2>2. n.ref[a] + 1 = 1
    BY <1>3, <1>4
  <2>. QED
    BY <1>2, <2>1, <2>2 DEF IncRef
<1>6. /\ u \in Tables /\ u.ref = [n.ref EXCEPT ![a] = 1]
      /\ u.Sess = n.Sess /\ u.qty = n.qty /\ u.live = n.live /\ u.ord = n.ord
      /\ u.name = n.name /\ u.undefined = n.undefined
  <2>1. 1 \in 0 .. MaxRef
    BY <1>1
  <2>. DEFINE w == [n EXCEPT !.ref[a] = 1]
  <2>2. /\ w \in Tables /\ w.ref = [n.ref EXCEPT ![a] = 1]
        /\ w.Sess = n.Sess /\ w.qty = n.qty /\ w.live = n.live /\ w.ord = n.ord
        /\ w.name = n.name /\ w.undefined = n.undefined
    <3>1. n \in Tables /\ a \in Addresses
      BY <1>1, <1>4
    <3>. QED
      BY <2>1, <3>1, CountChanges
  <2>. QED
    BY <1>5, <2>2
<1>. HIDE DEF u
<1>7. Cardinality(u.live) = u.qty
  <2>1. Cardinality(t.live \cup {a}) = Cardinality(t.live) + 1
    <3>. DEFINE live == t.live
    <3>1. IsFiniteSet(live) /\ a \notin live
      BY <1>1
    <3>. HIDE DEF live
    <3>2. Cardinality(live \cup {a}) = Cardinality(live) + 1
      BY <3>1, FS_AddElement
    <3>. QED
      BY <3>2 DEF live
  <2>. QED
    BY <1>0, <1>4, <1>6, <2>1
<1>8. u.ref[a] = 1 /\ \A b \in Addresses : b # a => u.ref[b] = t.ref[b]
  BY <1>1, <1>3, <1>4, <1>6
<1>9. Cardinality(UsersFrom(cons, 0, a)) = 0
  <2>1. UsersFrom(cons, 0, a) = {}
    BY <1>0 DEF UsersFrom
  <2>. QED
    BY <2>1, FS_EmptySet
<1>10. ASSUME NEW b \in Addresses
       PROVE  /\ u.ref[b] >= Cardinality(UsersFrom(cons, 0, b))
              /\ b \in u.live => u.ref[b] > 0
  <2>1. CASE b = a
    BY <1>8, <1>9, <2>1
  <2>2. CASE b # a
    BY <1>0, <1>4, <1>6, <1>8, <2>2
  <2>. QED
    BY <2>1, <2>2
<1>11. Owned(u, cons, 0)
  <2>1. ~u.undefined /\ u.live \subseteq Addresses
    BY <1>0, <1>3, <1>4, <1>6
  <2>2. \A i \in 0 + 1 .. Len(cons) : cons[i].sess \in u.live
    BY <1>0, <1>4, <1>6
  <2>. QED
    BY <1>6, <1>7, <1>10, <2>1, <2>2 DEF Owned
<1>12. Owned(u, Append(cons, c), 0) /\ Append(cons, c) \in Seq(Connection)
  <2>1. c.sess \in u.live /\ u.ref[c.sess] > Cardinality(UsersFrom(cons, 0, c.sess))
    BY <1>4, <1>6, <1>8, <1>9
  <2>. QED
    BY <1>6, <1>11, <2>1, CountedAppended
<1>13. ASSUME NEW i \in 0 .. t.qty - 1
       PROVE  t.Sess[i] \in t.live /\ u.Sess[i] = t.Sess[i]
  <2>1. t.Sess[i] \in t.live
    BY DEF Dangling
  <2>2. Sess[i] = t.Sess[i]
    BY <1>3
  <2>. QED
    BY <1>4, <1>6, <2>1, <2>2
<1>14. ~Dangling(u)
  <2>. SUFFICES ASSUME NEW i \in 0 .. u.qty - 1
                PROVE  u.Sess[i] \in u.live
    BY DEF Dangling
  <2>1. CASE i = t.qty
    BY <1>3, <1>4, <1>6, <2>1
  <2>2. CASE i # t.qty
    <3>1. i \in 0 .. t.qty - 1
      BY <1>1, <1>4, <1>6, <2>2
    <3>. QED
      BY <1>4, <1>6, <1>13, <3>1
  <2>. QED
    BY <2>1, <2>2
<1>15. /\ v \in Tables /\ v.undefined = u.undefined /\ Cardinality(v.live) = v.qty
       /\ v.ref = [u.ref EXCEPT ![a] = @ - 1]
       /\ v.live = u.live \ {a}
       /\ \A i \in 0 .. v.qty - 1 : i < u.ord[a] => v.Sess[i] = u.Sess[i]
  <2>1. a \in u.live /\ u.ref[a] > 0
    BY <1>4, <1>6, <1>8
  <2>. QED
    BY <1>6, <1>7, <1>8, <2>1, Destroyed
<1>. HIDE DEF v
<1>16. v.live = t.live /\ v.qty = t.qty /\ u.ord[a] = t.qty
  BY <1>0, <1>3, <1>4, <1>6, <1>15
<1>17. Owned(v, cons, 0)
  <2>1. ~v.undefined
    BY <1>0, <1>4, <1>6, <1>15
  <2>2. ASSUME NEW b \in Addresses
        PROVE  /\ v.ref[b] >= Cardinality(UsersFrom(cons, 0, b))
               /\ b \in v.live => v.ref[b] > 0
    <3>0. u.ref \in [Addresses -> 0 .. MaxRef]
      BY <1>6, TableTypes
    <3>1. CASE b = a
      BY <1>8, <1>9, <1>15, <1>16, <3>0, <3>1
    <3>2. CASE b # a
      <4>1. v.ref[b] = t.ref[b]
        BY <1>8, <1>15, <3>0, <3>2
      <4>. QED
        BY <1>0, <1>16, <4>1
    <3>. QED
      BY <3>1, <3>2
  <2>. QED
    BY <1>0, <1>1, <1>15, <1>16, <2>1, <2>2 DEF Owned
<1>18. ~Dangling(v)
  <2>. SUFFICES ASSUME NEW i \in 0 .. v.qty - 1
                PROVE  v.Sess[i] \in v.live
    BY DEF Dangling
  <2>1. i \in 0 .. t.qty - 1 /\ i < t.qty
    BY <1>1, <1>16
  <2>2. v.Sess[i] = u.Sess[i]
    BY <1>15, <1>16, <2>1
  <2>. QED
    BY <1>13, <1>16, <2>1, <2>2
<1>. QED
  BY <1>3, <1>4, <1>6, <1>12, <1>14, <1>17, <1>18 DEF u, v

-----------------------------------------------------------------------------
(* The calls                                                               *)

\* The tables on which an exchange is made are those of the next state, unless its
\* code is negative.
LEMMA ExchangeStep ==
  ASSUME NEW cons \in Seq(Connection), Len(cons) <= ConnQty, NEW t, Owned(t, cons, 0),
         Dangling(t) => Leak(t, cons), NEW c, NEW cp, t.name[c.sess] = cp,
         Exchange(cp, c, t, cons)
  PROVE  IInv'
<1>1. AskedIsUsed'
  BY DEF Exchange, AskedIsUsed
<1>2. CASE tab' = t /\ Con' = cons
  <2>1. Sound(t, cons)
    BY DEF Sound, Owned
  <2>. QED
    BY <1>1, <1>2, <2>1 DEF IInv
<1>3. CASE tab' = Shut(t, cons) /\ Con' = << >>
  <2>1. Sound(Shut(t, cons), << >>)
    BY ShutOwned, ShutSound
  <2>2. << >> \in Seq(Connection) /\ Len(<< >>) <= ConnQty
    BY SapiAssumption
  <2>. QED
    BY <1>1, <1>3, <2>1, <2>2 DEF IInv
<1>. QED
  BY <1>2, <1>3 DEF Exchange

\* A table that holds a deleted session is met only after a leak.
LEMMA UndefinedStep ==
  ASSUME Owned(tab, Con, 0), tab.qty = SessQty \/ Leak(tab, Con)
  PROVE  Sound(Undefined(tab), Con)
<1>1. tab \in Tables
  BY DEF Owned
<1>2. /\ Undefined(tab) \in Tables /\ Undefined(tab).undefined
      /\ Undefined(tab).live = tab.live /\ Undefined(tab).ref = tab.ref
      /\ Undefined(tab).qty = tab.qty
  BY <1>1 DEF Undefined, Tables
<1>3. Leak(tab, Con) => Leak(Undefined(tab), Con)
  BY <1>2 DEF Leak
<1>. QED
  BY <1>2, <1>3 DEF Sound

LEMMA NewType ==
  ASSUME NEW cp \in CPNames, NEW con \in ConNames, NEW a \in Addresses,
         NEW status \in {0} \cup Uninitialised
  PROVE  /\ New(cp, con, a, status) \in Connection
         /\ New(cp, con, a, status).sess = a /\ New(cp, con, a, status).SessStatus = status
BY DEF New, Connection

LEMMA CallStep ==
  ASSUME IInv, [Next]_vars
  PROVE  IInv'
<1>0. /\ Con \in Seq(Connection) /\ Len(Con) <= ConnQty /\ Len(Con) \in Nat /\ ConnQty \in Nat
      /\ Sound(tab, Con) /\ AskedIsUsed
  BY SapiAssumption DEF IInv
<1>1. ASSUME ~tab.undefined
      PROVE  Owned(tab, Con, 0) /\ (Dangling(tab) => Leak(tab, Con)) /\ tab \in Tables
  BY <1>0, <1>1 DEF Sound, Owned
<1>2. ASSUME ~tab.undefined, Sound(tab', Con), UNCHANGED <<Con, last>>
      PROVE  IInv'
  BY <1>0, <1>2 DEF IInv, AskedIsUsed
<1>3. ASSUME NEW cp \in CPNames, NEW con \in ConNames, ~tab.undefined, CallExisting(cp, con)
      PROVE  IInv'
  <2>1. PICK i \in 1 .. Len(Con) : Matches(Con[i], cp, con) /\ Exchange(cp, Con[i], tab, Con)
    BY <1>3 DEF CallExisting
  <2>2. tab.name[Con[i].sess] = cp
    BY <2>1 DEF Matches
  <2>. QED
    BY <1>0, <1>1, <1>3, <2>1, <2>2, ExchangeStep
<1>4. ASSUME NEW cp \in CPNames, NEW con \in ConNames, ~tab.undefined, CallNewConnection(cp, con)
      PROVE  IInv'
  <2>. DEFINE k == SessionIndex(tab, cp)  a == tab.Sess[k]  u == IncRef(tab, a)
  <2>1. /\ Len(Con) < ConnQty /\ k < tab.qty /\ tab.ref[a] < MaxRef
    BY <1>4 DEF CallNewConnection, NoMatch
  <2>2. k \in 0 .. tab.qty - 1 /\ a \in Addresses /\ tab.name[a] = cp
    BY <1>1, <1>4, <2>1, SessionFound
  <2>3. PICK status \in Uninitialised :
          LET c == New(cp, con, a, status)
          IN  IF Dangling(tab) THEN tab' = Undefined(tab) /\ UNCHANGED <<Con, last>>
              ELSE \/ Exchange(cp, c, u, Append(Con, c))
                   \/ tab' = Destroy(u, c) /\ UNCHANGED <<Con, last>>
    BY <1>4 DEF CallNewConnection
  <2>. DEFINE c == New(cp, con, a, status)
  <2>4. CASE Dangling(tab)
    BY <1>1, <1>2, <1>4, <2>3, <2>4, UndefinedStep
  <2>5. CASE ~Dangling(tab)
    <3>1. a \in tab.live
      BY <2>2, <2>5 DEF Dangling
    <3>2. c \in Connection /\ c.sess = a
      BY <2>2, NewType
    <3>. HIDE DEF c, k
    <3>3. /\ u \in Tables /\ u.name = tab.name
          /\ ~Dangling(u) /\ Owned(u, Append(Con, c), 0) /\ Append(Con, c) \in Seq(Connection)
          /\ Owned(Destroy(u, c), Con, 0) /\ ~Dangling(Destroy(u, c))
      BY <1>0, <1>1, <1>4, <2>1, <2>5, <3>1, <3>2, ConnectionMade
    <3>4. CASE Exchange(cp, c, u, Append(Con, c))
      <4>1. Len(Append(Con, c)) <= ConnQty
        BY <1>0, <2>1
      <4>. QED
        BY <2>2, <3>2, <3>3, <3>4, <4>1, ExchangeStep
    <3>5. CASE tab' = Destroy(u, c) /\ UNCHANGED <<Con, last>>
      <4>1. Sound(tab', Con)
        BY <3>3, <3>5 DEF Sound, Owned
      <4>. QED
        BY <1>2, <1>4, <3>5, <4>1
    <3>. QED
      BY <2>3, <2>5, <3>4, <3>5 DEF c
  <2>. QED
    BY <2>4, <2>5
<1>5. ASSUME NEW cp \in CPNames, NEW con \in ConNames, ~tab.undefined, CallNewSession(cp, con)
      PROVE  IInv'
  <2>1. Len(Con) < ConnQty /\ tab.qty < SessQty
    BY <1>5 DEF CallNewSession, NoMatch
  <2>2. PICK a \in Addresses \ tab.live :
          LET t == IncRef(NewSession(tab, cp, a), a)
              c == New(cp, con, a, 0)
          IN  IF Dangling(tab) THEN tab' = Undefined(tab) /\ UNCHANGED <<Con, last>>
              ELSE \/ Exchange(cp, c, t, Append(Con, c))
                   \/ tab' = Destroy(t, c) /\ UNCHANGED <<Con, last>>
                   \/ tab' = SessionFails /\ UNCHANGED <<Con, last>>
    BY <1>5 DEF CallNewSession
  <2>. DEFINE u == IncRef(NewSession(tab, cp, a), a)  c == New(cp, con, a, 0)
  <2>3. CASE Dangling(tab)
    BY <1>1, <1>2, <1>5, <2>2, <2>3, UndefinedStep
  <2>4. CASE ~Dangling(tab)
    <3>1. c \in Connection /\ c.sess = a /\ c.SessStatus = 0
      BY NewType
    <3>. HIDE DEF c
    <3>2. /\ u \in Tables /\ u.name[c.sess] = cp /\ ~Dangling(u)
          /\ Owned(u, Append(Con, c), 0) /\ Append(Con, c) \in Seq(Connection)
          /\ Owned(Destroy(u, c), Con, 0) /\ ~Dangling(Destroy(u, c))
      BY <1>0, <1>1, <1>5, <2>1, <2>4, <3>1, SessionMade
    <3>3. CASE Exchange(cp, c, u, Append(Con, c))
      <4>1. Len(Append(Con, c)) <= ConnQty
        BY <1>0, <2>1
      <4>. QED
        BY <3>2, <3>3, <4>1, ExchangeStep
    <3>4. CASE tab' = Destroy(u, c) /\ UNCHANGED <<Con, last>>
      <4>1. Sound(tab', Con)
        BY <3>2, <3>4 DEF Sound, Owned
      <4>. QED
        BY <1>2, <1>5, <3>4, <4>1
    <3>5. CASE tab' = SessionFails /\ UNCHANGED <<Con, last>>
      BY <1>0, <1>2, <1>5, <3>5 DEF SessionFails
    <3>. QED
      BY <2>2, <2>4, <3>3, <3>4, <3>5 DEF c
  <2>. QED
    BY <2>3, <2>4
<1>6. ASSUME NEW cp \in CPNames, NEW con \in ConNames, ~tab.undefined, CallSessionLimit(cp, con)
      PROVE  IInv'
  <2>1. tab.qty = SessQty /\ tab' \in {Undefined(tab), tab} /\ UNCHANGED <<Con, last>>
    BY <1>6 DEF CallSessionLimit
  <2>2. Sound(Undefined(tab), Con)
    BY <1>1, <1>6, <2>1, UndefinedStep
  <2>. QED
    BY <1>0, <1>2, <1>6, <2>1, <2>2
<1>7. ASSUME ~tab.undefined, SAPI_Shut
      PROVE  IInv'
  <2>1. Sound(Shut(tab, Con), << >>)
    BY <1>0, <1>1, <1>7, ShutOwned, ShutSound
  <2>2. << >> \in Seq(Connection) /\ Len(<< >>) <= ConnQty
    BY SapiAssumption
  <2>. QED
    BY <1>0, <1>7, <2>1, <2>2 DEF SAPI_Shut, IInv, AskedIsUsed
<1>8. CASE UNCHANGED vars
  BY <1>0, <1>8 DEF vars, IInv, AskedIsUsed
<1>. QED
  BY <1>3, <1>4, <1>5, <1>6, <1>7, <1>8 DEF Next

LEMMA InitInv == Init => IInv
<1>. SUFFICES ASSUME Init PROVE IInv
  OBVIOUS
<1>1. PICK a \in Addresses, cp \in CPNames :
        tab = [Sess |-> [i \in 0 .. SessQty - 1 |-> a], qty |-> 0, live |-> {},
               ref |-> [b \in Addresses |-> 0], ord |-> [b \in Addresses |-> 0],
               name |-> [b \in Addresses |-> cp], undefined |-> FALSE]
  BY DEF Init
<1>2. Con = << >> /\ Con \in Seq(Connection) /\ Len(Con) <= ConnQty /\ AskedIsUsed
  BY SapiAssumption DEF Init, AskedIsUsed
<1>3. tab \in Tables
  <2>. 0 \in 0 .. SessQty /\ 0 \in 0 .. SessQty - 1 /\ 0 \in 0 .. MaxRef
    BY SapiAssumption
  <2>. QED
    BY <1>1 DEF Tables
<1>4. ~tab.undefined /\ tab.live = {} /\ tab.qty = 0 /\ Cardinality(tab.live) = tab.qty
  BY <1>1, FS_EmptySet
<1>5. \A b \in Addresses : tab.ref[b] >= Cardinality(UsersFrom(Con, 0, b))
  BY <1>1, <1>2, NoUsers
<1>6. Owned(tab, Con, 0)
  <2>. \A i \in 0 + 1 .. Len(Con) : Con[i].sess \in tab.live
    BY <1>2
  <2>. QED
    BY <1>3, <1>4, <1>5 DEF Owned
<1>7. ~Dangling(tab)
  BY <1>4 DEF Dangling
<1>. QED
  BY <1>2, <1>4, <1>6, <1>7 DEF IInv, Sound

\* The invariant that carries the theorems below: each call keeps the tables such
\* that a connection has the session it counts, or behaviour is undefined.
THEOREM Invariance == Spec => []IInv
BY InitInv, CallStep, PTL DEF Spec

\* The tables keep their types, and their count is that of the sessions that live
\* although DeleteSession may remove another entry (CConnection.cpp:125-137).
THEOREM TypeCorrect == Spec => []TypeOK
<1>1. IInv => TypeOK
  BY DEF IInv, Sound, Owned, TypeOK
<1>. QED
  BY <1>1, Invariance, PTL

\* No session is deleted while a connection uses it, whatever fails, leaks and is
\* shut down in between (CPSession.cpp:102-110, CConnection.cpp:115-139).
THEOREM UsedLive == Spec => []UsedIsLive
<1>1. ASSUME IInv, ~tab.undefined, NEW i \in 1 .. Len(Con)
      PROVE  /\ Con[i].sess \in tab.live
             /\ tab.ref[Con[i].sess] >= Cardinality(Users(Con[i].sess))
  <2>1. Con[i].sess \in tab.live /\ tab.live \subseteq Addresses
        /\ \A b \in Addresses : tab.ref[b] >= Cardinality(UsersFrom(Con, 0, b))
    BY <1>1, TableTypes DEF IInv, Sound, Owned
  <2>2. Users(Con[i].sess) = UsersFrom(Con, 0, Con[i].sess)
    BY DEF Users, UsersFrom
  <2>. QED
    BY <2>1, <2>2
<1>2. IInv => UsedIsLive
  BY <1>1 DEF UsedIsLive
<1>. QED
  BY <1>2, Invariance, PTL

\* An exchange uses the processor its caller has named (SAPIlib.cpp:63-65).
THEOREM AskedUsed == Spec => []AskedIsUsed
<1>1. IInv => AskedIsUsed
  BY DEF IInv
<1>. QED
  BY <1>1, Invariance, PTL

\* Behaviour becomes undefined only if a session has leaked, because a connection
\* that is deleted does not release it (CConnection.cpp:120), or the table of
\* sessions is full (CConnection.cpp:45-52).
THEOREM UndefinedCause == Spec => []UndefinedNeedsLeak
<1>1. ASSUME IInv, tab.undefined, Leak(tab, Con)
      PROVE  \E a \in Addresses : Leaked(a)
  <2>1. PICK b \in tab.live : tab.ref[b] > Cardinality(ReleasersFrom(Con, 0, b))
    BY <1>1 DEF Leak
  <2>2. b \in Addresses
    BY <1>1, TableTypes DEF IInv, Sound
  <2>3. {i \in Users(b) : Con[i].SessStatus = 0} = ReleasersFrom(Con, 0, b)
    BY DEF Users, ReleasersFrom
  <2>. QED
    BY <2>1, <2>2, <2>3 DEF Leaked
<1>2. IInv => UndefinedNeedsLeak
  BY <1>1 DEF IInv, Sound, UndefinedNeedsLeak
<1>. QED
  BY <1>2, Invariance, PTL
=============================================================================
