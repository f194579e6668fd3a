----------------------------- MODULE SapiSessions -----------------------------
(***************************************************************************)
(* The S7 library SAPI (SAPI/SAPIlib.cpp, CConnection.cpp, CPSession.cpp): *)
(* its table Con of connections, its table Sess of the sessions with the   *)
(* communication processors that the connections share, and the reference  *)
(* counts by which a session is deleted.  The S7 exchange itself is module *)
(* S7Exchange; here it returns a code.                                     *)
(*                                                                         *)
(* A session is an object on the heap with an address; `Sess' and the      *)
(* connections hold addresses, which may be those of deleted objects.      *)
(***************************************************************************)
EXTENDS Naturals, Sequences, FiniteSets

CONSTANTS
  CPNames,       \* the names of communication processors callers use
  ConNames,      \* the names of connections callers use
  ConnQty,       \* the size of table Con
  SessQty,       \* the size of table Sess
  Addresses,     \* where the heap puts sessions
  Uninitialised, \* the values the member SessStatus may have when the
                 \* constructor does not set it
  MaxRef         \* bound on the reference counts, which leaks let grow

ASSUME SapiAssumption ==
  /\ ConnQty \in Nat \ {0}
  /\ SessQty \in Nat \ {0}
  /\ IsFiniteSet(Addresses) /\ Cardinality(Addresses) > SessQty
  /\ Uninitialised \subseteq Nat
  /\ MaxRef \in Nat \ {0}

VARIABLES
  Con,           \* the connections, 1 .. ActConnQty: [cp, name, sess, SessStatus]
  tab,           \* the sessions: [Sess, qty, live, ref, ord, name, undefined], see Tables
  last           \* the last exchange: [asked, used], two names of a processor

vars == <<Con, tab, last>>

\* The session table with its count ActSessQty, and for each address whether a
\* session lives there, its RefCount, its OrdNum and its CPSessionName;
\* undefined becomes TRUE when the behaviour is undefined from then on.
Tables ==
  [Sess : [0 .. SessQty - 1 -> Addresses], qty : 0 .. SessQty, live : SUBSET Addresses,
   ref : [Addresses -> 0 .. MaxRef], ord : [Addresses -> 0 .. SessQty - 1],
   name : [Addresses -> CPNames], undefined : BOOLEAN]

Connection == [cp : CPNames, name : ConNames, sess : Addresses, SessStatus : {0} \cup Uninitialised]

Init ==
  /\ Con = << >>
  /\ \E a \in Addresses, cp \in CPNames :
       tab = [Sess |-> [i \in 0 .. SessQty - 1 |-> a], qty |-> 0, live |-> {},
              ref |-> [b \in Addresses |-> 0], ord |-> [b \in Addresses |-> 0],
              name |-> [b \in Addresses |-> cp], undefined |-> FALSE]
  /\ last = [asked |-> {}, used |-> {}]

-----------------------------------------------------------------------------
Undefined(t) == [t EXCEPT !.undefined = TRUE]

\* delete Session, in the destructor: the entries behind the session's OrdNum
\* move up, but keep their own OrdNum.
DeleteSession(t, a) ==
  [t EXCEPT !.live = @ \ {a},
            !.qty = @ - 1,
            !.Sess = [i \in 0 .. SessQty - 1 |->
                        IF t.ord[a] <= i /\ i < t.qty - 1 THEN @[i + 1] ELSE @[i]]]

\* Mutant of DecRef: the session goes with the first connection that goes.
DecRefAtOnce(t, a) == DeleteSession([t EXCEPT !.ref[a] = @ - 1], a)

DecRef(t, a) ==
  LET u == [t EXCEPT !.ref[a] = @ - 1]
  IN  IF u.ref[a] = 0 THEN DeleteSession(u, a) ELSE u

\* ~CConnection.
Destroy(t, c) ==
  IF c.SessStatus # 0 THEN t
  ELSE IF c.sess \in t.live /\ t.ref[c.sess] > 0 /\ t.qty > 0
         THEN DecRef(t, c.sess) ELSE Undefined(t)

\* SAPI_Shut: the connections are deleted in the order of the table.
Shut(t, cons) ==
  LET after[n \in 0 .. Len(cons)] == IF n = 0 THEN t ELSE Destroy(after[n - 1], cons[n])
  IN  after[Len(cons)]

\* The first session of that name, or the end of the table.
SessionIndex(t, cp) ==
  LET found == {i \in 0 .. t.qty - 1 : t.name[t.Sess[i]] = cp}
  IN  IF found = {} THEN t.qty ELSE CHOOSE i \in found : \A j \in found : i <= j

NewSession(t, cp, a) ==
  [t EXCEPT !.Sess[t.qty] = a, !.live = @ \cup {a}, !.name[a] = cp,
            !.ref[a] = 0, !.ord[a] = t.qty, !.qty = @ + 1]

\* Mutant of IncRef: the constructor does not count itself when the session
\* exists.
IncRefFirst(t, a) == [t EXCEPT !.ref[a] = 1]

IncRef(t, a) == [t EXCEPT !.ref[a] = @ + 1]

\* Comparing the names of a table that holds a deleted session is undefined.
Dangling(t) == \E i \in 0 .. t.qty - 1 : t.Sess[i] \notin t.live

\* Mutant of Matches: the name of the processor is not compared.
MatchesName(c, cp, con) == c.name = con

\* Whether a connection of that name exists: both names are compared.
Matches(c, cp, con) == c.name = con /\ tab.name[c.sess] = cp

-----------------------------------------------------------------------------
\* The exchange on connection c is asked for by a call with processor cp; a
\* negative code shuts the library down.
Exchange(cp, c, t, cons) ==
  /\ last' = [asked |-> {cp}, used |-> {t.name[c.sess]}]
  /\ \/ tab' = t /\ Con' = cons
     \/ tab' = Shut(t, cons) /\ Con' = << >>

\* SAPI_read or SAPI_write on a connection that exists.  (A call that finds none
\* when table Con is full returns -99 and changes nothing.)
CallExisting(cp, con) ==
  \E i \in 1 .. Len(Con) :
    /\ Matches(Con[i], cp, con)
    /\ \A j \in 1 .. i - 1 : ~Matches(Con[j], cp, con)
    /\ Exchange(cp, Con[i], tab, Con)

NoMatch(cp, con) ==
  /\ \A i \in 1 .. Len(Con) : ~Matches(Con[i], cp, con)
  /\ Len(Con) < ConnQty

New(cp, con, a, status) == [cp |-> cp, name |-> con, sess |-> a, SessStatus |-> status]

\* On a new connection of a session that exists; the member SessStatus is not
\* set.  s7_get_cref gives the connection a reference, or fails and the
\* connection is deleted.
CallNewConnection(cp, con) ==
  /\ NoMatch(cp, con)
  /\ SessionIndex(tab, cp) < tab.qty
  /\ tab.ref[tab.Sess[SessionIndex(tab, cp)]] < MaxRef
  /\ \E status \in Uninitialised :
       LET a == tab.Sess[SessionIndex(tab, cp)]
           c == New(cp, con, a, status)
           t == IncRef(tab, a)
       IN  IF Dangling(tab)
             THEN tab' = Undefined(tab) /\ UNCHANGED <<Con, last>>
             ELSE \/ Exchange(cp, c, t, Append(Con, c))
                  \/ tab' = Destroy(t, c) /\ UNCHANGED <<Con, last>>

\* Mutant of SessionFails: the failed session stays in the table.
SessionFailsCounted == [tab EXCEPT !.qty = @ + 1]

SessionFails == tab

\* On a new connection of a new session, which s7_init may refuse.
CallNewSession(cp, con) ==
  /\ NoMatch(cp, con)
  /\ SessionIndex(tab, cp) = tab.qty
  /\ tab.qty < SessQty
  /\ \E a \in Addresses \ tab.live :
       LET t == IncRef(NewSession(tab, cp, a), a)
           c == New(cp, con, a, 0)
       IN  IF Dangling(tab)
             THEN tab' = Undefined(tab) /\ UNCHANGED <<Con, last>>
             ELSE \/ Exchange(cp, c, t, Append(Con, c))
                  \/ tab' = Destroy(t, c) /\ UNCHANGED <<Con, last>>
                  \/ tab' = SessionFails /\ UNCHANGED <<Con, last>>

\* The table of sessions is full: the connection is deleted although neither
\* its SessStatus nor its Session is set.
CallSessionLimit(cp, con) ==
  /\ NoMatch(cp, con)
  /\ SessionIndex(tab, cp) = tab.qty
  /\ tab.qty = SessQty
  /\ \E status \in Uninitialised :
       tab' = IF status = 0 \/ Dangling(tab) THEN Undefined(tab) ELSE tab
  /\ UNCHANGED <<Con, last>>

\* SAPI_Shut called by the client.
SAPI_Shut ==
  /\ tab' = Shut(tab, Con)
  /\ Con' = << >>
  /\ UNCHANGED last

Next ==
  /\ ~tab.undefined
  /\ \/ \E cp \in CPNames, con \in ConNames :
          \/ CallExisting(cp, con)
          \/ CallNewConnection(cp, con)
          \/ CallNewSession(cp, con)
          \/ CallSessionLimit(cp, con)
     \/ SAPI_Shut

Spec == Init /\ [][Next]_vars

-----------------------------------------------------------------------------
Users(a) == {i \in 1 .. Len(Con) : Con[i].sess = a}

\* The tables have their types; the number of live sessions is the count of the
\* table, even where an entry is of another session than it should be.
TypeOK ==
  /\ tab \in Tables
  /\ Con \in Seq(Connection) /\ Len(Con) <= ConnQty
  /\ ~tab.undefined => Cardinality(tab.live) = tab.qty

\* No session is deleted while a connection uses it.
UsedIsLive ==
  ~tab.undefined =>
    \A i \in 1 .. Len(Con) :
      /\ Con[i].sess \in tab.live
      /\ tab.ref[Con[i].sess] >= Cardinality(Users(Con[i].sess))

\* A caller gets the processor it has named, whatever was closed, leaked and
\* opened at the same address before.
AskedIsUsed == last.asked = last.used

\* A session leaks: it lives and nothing is left that would delete it.
Leaked(a) ==
  a \in tab.live /\ tab.ref[a] > Cardinality({i \in Users(a) : Con[i].SessStatus = 0})

\* The library comes to undefined behaviour only if a session has leaked or
\* the table of sessions is full.
UndefinedNeedsLeak ==
  tab.undefined => tab.qty = SessQty \/ \E a \in Addresses : Leaked(a)

\* What SAPIlib.cpp:100 and 150 say of SAPI_Shut after an error: "Close all
\* existing connection & Log off CP (VFD)".
ShutLogsOff == Con = << >> /\ ~tab.undefined => tab.live = {}
=============================================================================
