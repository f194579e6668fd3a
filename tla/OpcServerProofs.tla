---------------------------- MODULE OpcServerProofs ----------------------------
(***************************************************************************)
(* Proofs about the connection of OpcS7.dll to the OPC server, for any     *)
(* names of groups.                                                        *)
(***************************************************************************)
EXTENDS OpcServer, TLAPS

Connecting == {"CoCreateInstanceEx", "FindConnectionPoint", "Advise"}
Using      == {"AddGroup", "QueryInterface", "use"}
Closing    == {"Unadvise", "RemoveGroup"}

GroupObject == [m_nRefCount : Nat, interfaces : SUBSET LeftBehind,
                named : BOOLEAN]
Sink == [m_cRef : Nat, m_pObjShutdown : BOOLEAN, m_dwAdviseCookie : BOOLEAN, server : BOOLEAN]

ConnectionPoint == "IConnectionPoint" \in held

One(condition) == IF condition THEN 1 ELSE 0

PcType == {Idle} \cup [at : Connecting \cup Using, call : Calls, name : Names]
                 \cup [at : Closing, pos : Nat \ {0}]

TypeInv ==
  /\ \A f \in {g_bInitOK, g_bMainServer, freed, alive, touched, crashed} : f \in BOOLEAN
  /\ pc \in PcType
  /\ sink \in Sink
  /\ m_pGroupList \in Seq(Names)
  /\ object \in [Names -> GroupObject]
  /\ known \subseteq Names /\ halfBuilt \subseteq Names
  /\ unadvised \in {"no", "yes", "failed"}

\* A call connects while there is no connection, and uses and closes the one
\* there is; when the COpcServer has been deleted none is made again.
PhaseInv ==
  /\ pc.at \in Connecting => ~g_bMainServer
  /\ pc.at \in Using \cup Closing => g_bMainServer
  /\ pc.at # "idle" => g_bInitOK /\ ~crashed
  /\ g_bMainServer => g_bInitOK
  /\ freed => ~g_bInitOK
  /\ touched => freed

\* The interfaces of the server are those the step of the connection has got.
HeldInv ==
  /\ ~g_bMainServer =>
       held = IF pc.at = "FindConnectionPoint" THEN Needed \cup {"IConnectionPointContainer"}
              ELSE IF pc.at = "Advise"
                THEN Needed \cup {"IConnectionPointContainer", "IConnectionPoint"} ELSE {}
  /\ g_bMainServer => held \subseteq Needed \cup {"IConnectionPoint"}
  /\ pc.at = "Unadvise" => ConnectionPoint
  /\ pc.at = "RemoveGroup" => ~ConnectionPoint

\* The sink is referenced by m_pObjShutdown exactly while the DLL has the
\* connection point, by the server while it has the sink, and by the IUnknown
\* during Advise; it tells its parent when the last one goes.  A server that has
\* it although the DLL has given up the connection point has failed once.
SinkInv ==
  /\ sink.m_cRef = One(sink.server) + One(ConnectionPoint) + One(pc.at = "Advise")
  /\ sink.m_pObjShutdown <=> sink.m_cRef > 0
  /\ ConnectionPoint => (sink.m_dwAdviseCookie <=> pc.at # "Advise")
  /\ sink.server => ConnectionPoint \/ unadvised = "failed"
  /\ touched => unadvised = "failed"

\* Before the first connection there is nothing.
FreshInv ==
  ~g_bMainServer /\ ~freed =>
    /\ known = {} /\ m_pGroupList = << >>
    /\ pc.at # "Advise" => sink = NoSink

\* A group of the list is there once, referenced by the list and, during a call,
\* by the caller, and holds its interfaces until the list is emptied.  One outside
\* the list holds none, or those an exception has left behind.
Removed(n) == pc.at = "RemoveGroup" /\ \E i \in DOMAIN m_pGroupList : i < pc.pos /\ m_pGroupList[i] = n

InUse(n) == pc.at = "use" /\ pc.name = n
InMaking(n) == pc.at = "QueryInterface" /\ pc.name = n

ObjectInv(n) ==
  LET here == n \in Range(m_pGroupList)
  IN /\ object[n].m_nRefCount = One(here) + One(InUse(n))
     /\ \/ object[n].interfaces = IF here /\ ~Removed(n) THEN GroupInterfaces
                                  ELSE IF InMaking(n) THEN {"pIUnk"} ELSE {}
        \/ ~here /\ n \in halfBuilt /\ object[n].interfaces = LeftBehind

ListInv ==
  /\ \A i, j \in DOMAIN m_pGroupList : m_pGroupList[i] = m_pGroupList[j] => i = j
  /\ pc.at = "use" => pc.name \in Range(m_pGroupList)
  /\ pc.at = "QueryInterface" => pc.name \notin Range(m_pGroupList)
  /\ pc.at = "Unadvise" => pc.pos = 1
  /\ \A n \in Names : ObjectInv(n)

\* The server that runs has every group of the list, and of those it has only
\* the one that is being made and the half built ones are not found in the list.
NamesInv ==
  g_bMainServer /\ alive /\ pc.at # "RemoveGroup" =>
    /\ Range(m_pGroupList) \subseteq known
    /\ pc.at = "QueryInterface" => pc.name \in known
    /\ \A n \in known : GetGroupByName(n) \/ n \in halfBuilt \/ InMaking(n)

IInv == TypeInv /\ PhaseInv /\ HeldInv /\ SinkInv /\ FreshInv /\ ListInv /\ NamesInv

-----------------------------------------------------------------------------
(* Types                                                                   *)

\* What the program counter is at each step.
LEMMA Counter ==
  ASSUME TypeInv
  PROVE  /\ pc.at \in {"idle"} \cup Connecting \cup Using \cup Closing
         /\ pc.at = "idle" => pc = Idle
         /\ pc.at \in Connecting \cup Using =>
              /\ pc \in [at : Connecting \cup Using, call : Calls, name : Names]
              /\ pc.name \in Names /\ pc.call \in Calls
         /\ pc.at \in Closing => pc \in [at : Closing, pos : Nat \ {0}] /\ pc.pos \in Nat \ {0}
BY DEF TypeInv, PcType, Idle, Connecting, Using, Closing

\* A call goes on with its next step.
LEMMA CounterMoves ==
  ASSUME TypeInv, NEW where, GoTo(where),
         \/ pc.at \in Connecting \cup Using /\ where \in Connecting \cup Using
         \/ pc.at \in Closing /\ where \in Closing
  PROVE  /\ pc' \in [at : Connecting \cup Using, call : Calls, name : Names]
                      \cup [at : Closing, pos : Nat \ {0}]
         /\ pc'.at = where
         /\ pc.at \in Connecting \cup Using => pc'.name = pc.name
         /\ pc.at \in Closing => pc'.pos = pc.pos
BY Counter DEF GoTo, Connecting, Using, Closing

LEMMA SinkReleased ==
  ASSUME NEW s \in Sink, NEW n \in Nat, n <= s.m_cRef
  PROVE  /\ ReleaseSink(s, n) \in Sink
         /\ ReleaseSink(s, n).m_cRef = s.m_cRef - n
         /\ ReleaseSink(s, n).m_pObjShutdown <=> s.m_pObjShutdown /\ s.m_cRef > n
         /\ ReleaseSink(s, n).m_dwAdviseCookie = s.m_dwAdviseCookie
         /\ ReleaseSink(s, n).server = s.server
<1>. DEFINE left == s.m_pObjShutdown /\ s.m_cRef > n
<1>1. PICK b \in BOOLEAN : b <=> left
  OBVIOUS
<1>2. left = b
  BY <1>1
<1>3. ReleaseSink(s, n) = [s EXCEPT !.m_cRef = s.m_cRef - n, !.m_pObjShutdown = b]
  BY <1>2, Zenon DEF ReleaseSink
<1>. HIDE DEF left
<1>4. s.m_cRef - n \in Nat
  BY DEF Sink
<1>5. /\ ReleaseSink(s, n) \in Sink
      /\ ReleaseSink(s, n).m_cRef = s.m_cRef - n
      /\ ReleaseSink(s, n).m_pObjShutdown = b
      /\ ReleaseSink(s, n).m_dwAdviseCookie = s.m_dwAdviseCookie
      /\ ReleaseSink(s, n).server = s.server
  BY <1>3, <1>4 DEF Sink
<1>. QED
  BY <1>1, <1>5 DEF left

\* A new sink.
LEMMA SinkMade ==
  LET s == [NoSink EXCEPT !.m_cRef = 2, !.m_pObjShutdown = TRUE]
  IN  s \in Sink /\ s.m_cRef = 2 /\ s.m_pObjShutdown /\ ~s.m_dwAdviseCookie /\ ~s.server
<1>1. NoSink \in Sink /\ ~NoSink.m_dwAdviseCookie /\ ~NoSink.server
  BY DEF NoSink, Sink
<1>. QED
  BY <1>1 DEF Sink

\* The server takes a reference to it.
LEMMA SinkTaken ==
  ASSUME NEW s \in Sink
  PROVE  LET t == [s EXCEPT !.m_cRef = @ + 1, !.server = TRUE]
         IN  /\ t \in Sink /\ t.m_cRef = s.m_cRef + 1 /\ t.server
             /\ t.m_pObjShutdown = s.m_pObjShutdown /\ t.m_dwAdviseCookie = s.m_dwAdviseCookie
<1>1. s.m_cRef + 1 \in Nat
  BY DEF Sink
<1>. QED
  BY <1>1 DEF Sink

\* The count of one object changes.
LEMMA CountChanges ==
  ASSUME TypeInv, NEW n \in Names, NEW c \in Nat
  PROVE  LET new == [object EXCEPT ![n].m_nRefCount = c]
         IN  /\ new \in [Names -> GroupObject]
             /\ \A m \in Names : /\ new[m].m_nRefCount = IF m = n THEN c ELSE object[m].m_nRefCount
                                 /\ new[m].interfaces = object[m].interfaces
                                 /\ new[m].named = object[m].named
<1>1. [object[n] EXCEPT !.m_nRefCount = c] \in GroupObject
  BY DEF TypeInv, GroupObject
<1>. QED
  BY <1>1 DEF TypeInv, GroupObject

\* The interfaces of one object change.
LEMMA InterfacesChange ==
  ASSUME TypeInv, NEW n \in Names, NEW i \in SUBSET LeftBehind
  PROVE  LET new == [object EXCEPT ![n].interfaces = i]
         IN  /\ new \in [Names -> GroupObject]
             /\ \A m \in Names : /\ new[m].interfaces = IF m = n THEN i ELSE object[m].interfaces
                                 /\ new[m].m_nRefCount = object[m].m_nRefCount
                                 /\ new[m].named = object[m].named
<1>1. [object[n] EXCEPT !.interfaces = i] \in GroupObject
  BY DEF TypeInv, GroupObject
<1>. QED
  BY <1>1 DEF TypeInv, GroupObject

\* The group a disconnection is at.
LEMMA GroupAtPosition ==
  ASSUME TypeInv, pc.at = "RemoveGroup", pc.pos <= Len(m_pGroupList)
  PROVE  pc.pos \in 1 .. Len(m_pGroupList) /\ m_pGroupList[pc.pos] \in Names
<1>1. pc.pos \in 1 .. Len(m_pGroupList)
  BY Counter DEF Closing, TypeInv
<1>2. \A i \in 1 .. Len(m_pGroupList) : m_pGroupList[i] \in Names
  BY DEF TypeInv
<1>. QED
  BY <1>1, <1>2

\* The counter of the sink while the thread holds references to it.
LEMMA SinkHeld ==
  ASSUME TypeInv, PhaseInv, HeldInv, SinkInv
  PROVE  /\ pc.at = "Advise" => ConnectionPoint /\ sink.m_cRef >= 2
         /\ ConnectionPoint => sink.m_cRef >= 1
         /\ sink.server => sink.m_cRef >= 1
<1>1. pc.at = "Advise" => ConnectionPoint
  BY DEF PhaseInv, HeldInv, ConnectionPoint, Connecting
<1>2. /\ One(sink.server) \in Nat /\ One(ConnectionPoint) \in Nat
      /\ One(pc.at = "Advise") \in Nat
      /\ sink.server => One(sink.server) = 1
      /\ ConnectionPoint => One(ConnectionPoint) = 1
      /\ pc.at = "Advise" => One(pc.at = "Advise") = 1
  BY DEF One
<1>. QED
  BY <1>1, <1>2 DEF SinkInv

LEMMA CounterStep ==
  ASSUME IInv, [Next]_vars
  PROVE  pc' \in PcType
<1>. TypeInv
  BY DEF IInv
<1>1. ASSUME NEW call \in Calls, NEW name \in Names, Call(call, name)
      PROVE  pc' \in PcType
  BY <1>1 DEF Call, PcType, Connecting, Using
<1>2. ASSUME NEW where, GoTo(where),
             \/ pc.at \in Connecting \cup Using /\ where \in Connecting \cup Using
             \/ pc.at \in Closing /\ where \in Closing
      PROVE  pc' \in PcType
  BY <1>2, CounterMoves DEF PcType
<1>3. CASE pc' \in {pc, Idle}
  BY <1>3 DEF TypeInv, PcType
<1>4. CASE CoCreateInstanceEx \/ FindConnectionPoint \/ Advise \/ AddGroup \/ GroupBuilt
  BY <1>2, <1>3, <1>4
  DEF CoCreateInstanceEx, FindConnectionPoint, Advise, AddGroup, GroupBuilt, At, Connecting, Using
<1>5. CASE Unadvise
  BY <1>2, <1>5 DEF Unadvise, At, Closing
<1>6. CASE RemoveGroup
  <2>1. pc \in [at : Closing, pos : Nat \ {0}] /\ pc' = [pc EXCEPT !.pos = @ + 1]
    BY <1>6, Counter DEF RemoveGroup, At, Closing
  <2>. QED
    BY <2>1 DEF PcType
<1>7. CASE SAPI_Shut
  BY <1>7 DEF SAPI_Shut, PcType, Closing
<1>8. CASE \/ GroupNotBuilt \/ CallEnds \/ Disconnected \/ ServerTakesSink
           \/ ServerReleasesSink \/ ShutdownRequest \/ ServerEnds \/ UNCHANGED vars
  BY <1>3, <1>8 DEF GroupNotBuilt, CallEnds, Disconnected, ServerTakesSink, ServerReleasesSink,
    ShutdownRequest, ServerEnds, Inside, vars
<1>. QED
  BY <1>1, <1>4, <1>5, <1>6, <1>7, <1>8 DEF Next

LEMMA SinkTypeStep ==
  ASSUME IInv, [Next]_vars
  PROVE  sink' \in Sink
<1>. /\ TypeInv /\ sink \in Sink /\ sink.m_cRef \in Nat
     /\ TypeInv /\ PhaseInv /\ HeldInv /\ SinkInv
  BY DEF IInv, TypeInv, Sink
<1>1. CASE UNCHANGED sink
  BY <1>1
<1>2. CASE FindConnectionPoint
  BY <1>2, SinkMade DEF FindConnectionPoint
<1>3. CASE Advise
  <2>1. sink.m_cRef >= 2
    BY <1>3, SinkHeld DEF Advise, At
  <2>2. ReleaseSink(sink, 1) \in Sink /\ ReleaseSink(sink, 2) \in Sink
    BY <2>1, SinkReleased
  <2>3. [ReleaseSink(sink, 1) EXCEPT !.m_dwAdviseCookie = TRUE] \in Sink
    BY <2>2 DEF Sink
  <2>. QED
    BY <1>3, <2>2, <2>3 DEF Advise
<1>4. CASE Unadvise
  <2>1. sink.m_cRef >= 1
    BY <1>4, SinkHeld DEF Unadvise, At, HeldInv
  <2>. QED
    BY <1>4, <2>1, SinkReleased DEF Unadvise
<1>5. CASE ServerTakesSink
  BY <1>5, SinkTaken DEF ServerTakesSink
<1>6. CASE ServerReleasesSink
  <2>1. sink.m_cRef >= 1
    BY <1>6, SinkHeld DEF ServerReleasesSink
  <2>2. ReleaseSink(sink, 1) \in Sink
    BY <2>1, SinkReleased
  <2>. QED
    BY <1>6, <2>2 DEF ServerReleasesSink, Sink
<1>. QED
  BY <1>1, <1>2, <1>3, <1>4, <1>5, <1>6 DEF Next, Call, CoCreateInstanceEx, AddGroup, GroupBuilt,
    GroupNotBuilt, CallEnds, SAPI_Shut, RemoveGroup, Disconnected, ShutdownRequest, ServerEnds, vars

\* The calls that change a group are made for a name of a group.
LEMMA ObjectsStep ==
  ASSUME IInv, [Next]_vars
  PROVE  m_pGroupList' \in Seq(Names) /\ object' \in [Names -> GroupObject]
<1>. TypeInv /\ object \in [Names -> GroupObject] /\ m_pGroupList \in Seq(Names)
  BY DEF IInv, TypeInv
<1>1. CASE UNCHANGED <<m_pGroupList, object>>
  BY <1>1
<1>2. ASSUME NEW call \in Calls, NEW name \in Names, Call(call, name)
      PROVE  m_pGroupList' \in Seq(Names) /\ object' \in [Names -> GroupObject]
  <2>1. object[name].m_nRefCount + 1 \in Nat
    BY DEF TypeInv, GroupObject
  <2>. QED
    BY <1>2, <2>1, CountChanges DEF Call
<1>3. CASE AddGroup
  <2>1. pc.name \in Names
    BY <1>3, Counter DEF AddGroup, At, Using
  <2>2. {"pIUnk"} \in SUBSET LeftBehind
    BY DEF LeftBehind
  <2>3. [object EXCEPT ![pc.name].interfaces = {"pIUnk"}] \in [Names -> GroupObject]
    BY <2>1, <2>2, InterfacesChange
  <2>4. CASE object' = [object EXCEPT ![pc.name].interfaces = {"pIUnk"}]
    BY <1>1, <1>3, <2>3, <2>4 DEF AddGroup
  <2>. QED
    BY <1>1, <1>3, <2>4 DEF AddGroup
<1>4. CASE GroupBuilt
  <2>1. pc.name \in Names
    BY <1>4, Counter DEF GroupBuilt, At, Using
  <2>2. PICK named \in BOOLEAN : object' = [object EXCEPT ![pc.name] =
                       [m_nRefCount |-> 2, interfaces |-> GroupInterfaces, named |-> named]]
    BY <1>4 DEF GroupBuilt
  <2>3. [m_nRefCount |-> 2, interfaces |-> GroupInterfaces, named |-> named] \in GroupObject
    BY DEF GroupObject, LeftBehind
  <2>. QED
    BY <1>4, <2>1, <2>2, <2>3 DEF GroupBuilt, Listed
<1>5. CASE GroupNotBuilt
  <2>1. pc.name \in Names
    BY <1>5, Counter DEF GroupNotBuilt, At, Using
  <2>2. PICK left \in SUBSET LeftBehind : object' = [object EXCEPT ![pc.name].interfaces = left]
    BY <1>5 DEF GroupNotBuilt
  <2>. QED
    BY <1>5, <2>1, <2>2, InterfacesChange DEF GroupNotBuilt
<1>6. CASE CallEnds
  <2>1. pc.name \in Names /\ object[pc.name].m_nRefCount \in Nat \ {0}
    BY <1>6, Counter DEF CallEnds, At, Using, IInv, ListInv, ObjectInv, InUse, One
  <2>2. object[pc.name].m_nRefCount - 1 \in Nat
    BY <2>1
  <2>. QED
    BY <1>6, <2>1, <2>2, CountChanges DEF CallEnds
<1>7. CASE RemoveGroup
  <2>1. m_pGroupList[pc.pos] \in Names
    BY <1>7, GroupAtPosition DEF RemoveGroup, At
  <2>. QED
    BY <1>7, <2>1, InterfacesChange DEF RemoveGroup
<1>8. CASE Disconnected
  <2>1. ASSUME NEW n \in Names, n \in Range(m_pGroupList)
        PROVE  [object[n] EXCEPT !.m_nRefCount = @ - 1] \in GroupObject
    <3>1. object[n].m_nRefCount \in Nat \ {0}
      BY <1>8, <2>1 DEF IInv, ListInv, ObjectInv, One, Disconnected, At
    <3>. QED
      BY <3>1 DEF GroupObject
  <2>. QED
    BY <1>8, <2>1 DEF Disconnected
<1>. QED
  BY <1>1, <1>2, <1>3, <1>4, <1>5, <1>6, <1>7, <1>8 DEF Next, CoCreateInstanceEx, FindConnectionPoint,
    Advise, SAPI_Shut, Unadvise, ServerTakesSink, ServerReleasesSink, ShutdownRequest, ServerEnds,
    Inside, vars

LEMMA TypeStep ==
  ASSUME IInv, [Next]_vars
  PROVE  TypeInv'
<1>. TypeInv
  BY DEF IInv
<1>1. ASSUME NEW f \in {g_bInitOK, g_bMainServer, freed, alive, touched, crashed}
      PROVE  f \in BOOLEAN
  BY DEF TypeInv
<1>2. \A f \in {g_bInitOK, g_bMainServer, freed, alive, touched, crashed}' : f \in BOOLEAN
  BY <1>1 DEF Next, Call, CoCreateInstanceEx, FindConnectionPoint, Advise, AddGroup, GroupBuilt,
    GroupNotBuilt, CallEnds, SAPI_Shut, Unadvise, RemoveGroup, Disconnected, ServerTakesSink,
    ServerReleasesSink, ShutdownRequest, ServerEnds, Inside, outside, ghosts, vars
<1>3. unadvised' \in {"no", "yes", "failed"}
  BY DEF TypeInv, Next, Call, CoCreateInstanceEx, FindConnectionPoint, Advise, AddGroup, GroupBuilt,
    GroupNotBuilt, CallEnds, SAPI_Shut, Unadvise, RemoveGroup, Disconnected, ServerTakesSink,
    ServerReleasesSink, ShutdownRequest, ServerEnds, Inside, outside, ghosts, vars
<1>4. known' \subseteq Names /\ halfBuilt' \subseteq Names
  <2>1. pc.at \in Using => pc.name \in Names
    BY Counter
  <2>. QED
    BY <2>1 DEF TypeInv, At, Using, Next, Call, CoCreateInstanceEx, FindConnectionPoint, Advise,
      AddGroup, GroupBuilt, GroupNotBuilt, CallEnds, SAPI_Shut, Unadvise, RemoveGroup, Disconnected,
      ServerTakesSink, ServerReleasesSink, ShutdownRequest, ServerEnds, Inside, outside, ghosts, vars
<1>. QED
  BY <1>2, <1>3, <1>4, CounterStep, SinkTypeStep, ObjectsStep DEF TypeInv

-----------------------------------------------------------------------------
(* The steps of the connection                                             *)

\* Where a step of the thread leads to, and from where.
LEMMA Moves ==
  ASSUME TypeInv
  PROVE  /\ \A call \in Calls, name \in Names : Call(call, name) =>
              pc.at = "idle" /\ pc'.at \in {"idle", "CoCreateInstanceEx", "AddGroup", "use"}
         /\ CoCreateInstanceEx =>
              /\ pc.at = "CoCreateInstanceEx"
              /\ \/ pc'.at \in {"idle", "FindConnectionPoint"} /\ ~g_bMainServer'
                 \/ pc'.at = "AddGroup" /\ g_bMainServer'
         /\ FindConnectionPoint =>
              /\ pc.at = "FindConnectionPoint"
              /\ \/ pc'.at = "Advise" /\ UNCHANGED g_bMainServer
                 \/ pc'.at = "AddGroup" /\ g_bMainServer'
         /\ Advise => pc.at = "Advise" /\ pc'.at = "AddGroup"
         /\ AddGroup => pc.at = "AddGroup" /\ pc'.at \in {"QueryInterface", "idle"}
         /\ GroupBuilt => pc.at = "QueryInterface" /\ pc'.at = "use"
         /\ GroupNotBuilt => pc.at = "QueryInterface" /\ pc'.at = "idle"
         /\ CallEnds => pc.at = "use" /\ pc'.at = "idle"
         /\ SAPI_Shut => pc.at = "idle" /\ pc'.at \in {"idle", "Unadvise", "RemoveGroup"}
         /\ Unadvise => pc.at = "Unadvise" /\ pc'.at = "RemoveGroup"
         /\ RemoveGroup => pc.at = "RemoveGroup" /\ pc'.at = "RemoveGroup"
         /\ Disconnected => pc.at = "RemoveGroup" /\ pc'.at = "idle"
<1>1. Idle.at = "idle"
  BY DEF Idle
<1>2. ASSUME NEW call \in Calls, NEW name \in Names, Call(call, name)
      PROVE  pc.at = "idle" /\ pc'.at \in {"idle", "CoCreateInstanceEx", "AddGroup", "use"}
  BY <1>1, <1>2 DEF Call, At
<1>3. ASSUME CoCreateInstanceEx
      PROVE  /\ pc.at = "CoCreateInstanceEx"
             /\ \/ pc'.at \in {"idle", "FindConnectionPoint"} /\ ~g_bMainServer'
                \/ pc'.at = "AddGroup" /\ g_bMainServer'
  <2>1. PICK connected, point \in BOOLEAN :
          /\ g_bMainServer' = (connected /\ ~point)
          /\ IF ~connected THEN pc' = Idle
             ELSE GoTo(IF point THEN "FindConnectionPoint" ELSE "AddGroup")
    BY <1>3 DEF CoCreateInstanceEx
  <2>2. pc.at = "CoCreateInstanceEx"
    BY <1>3 DEF CoCreateInstanceEx, At
  <2>3. CASE ~connected
    BY <1>1, <2>1, <2>2, <2>3
  <2>4. CASE connected /\ point
    BY <2>1, <2>2, <2>4, CounterMoves DEF Connecting, Using
  <2>5. CASE connected /\ ~point
    BY <2>1, <2>2, <2>5, CounterMoves DEF Connecting, Using
  <2>. QED
    BY <2>3, <2>4, <2>5
<1>4. ASSUME FindConnectionPoint
      PROVE  /\ pc.at = "FindConnectionPoint"
             /\ \/ pc'.at = "Advise" /\ UNCHANGED g_bMainServer
                \/ pc'.at = "AddGroup" /\ g_bMainServer'
  <2>1. pc.at = "FindConnectionPoint"
    BY <1>4 DEF FindConnectionPoint, At
  <2>2. CASE GoTo("Advise") /\ UNCHANGED g_bMainServer
    BY <2>1, <2>2, CounterMoves DEF Connecting, Using
  <2>3. CASE GoTo("AddGroup") /\ g_bMainServer'
    BY <2>1, <2>3, CounterMoves DEF Connecting, Using
  <2>. QED
    BY <1>4, <2>1, <2>2, <2>3 DEF FindConnectionPoint
<1>5. Advise => pc.at = "Advise" /\ pc'.at = "AddGroup"
  BY CounterMoves DEF Advise, At, Connecting, Using
<1>6. AddGroup => pc.at = "AddGroup" /\ pc'.at \in {"QueryInterface", "idle"}
  BY <1>1, CounterMoves DEF AddGroup, At, Using
<1>7. GroupBuilt => pc.at = "QueryInterface" /\ pc'.at = "use"
  BY CounterMoves DEF GroupBuilt, At, Using
<1>8. /\ GroupNotBuilt => pc.at = "QueryInterface" /\ pc'.at = "idle"
      /\ CallEnds => pc.at = "use" /\ pc'.at = "idle"
      /\ SAPI_Shut => pc.at = "idle" /\ pc'.at \in {"idle", "Unadvise", "RemoveGroup"}
      /\ Disconnected => pc.at = "RemoveGroup" /\ pc'.at = "idle"
  BY <1>1 DEF GroupNotBuilt, CallEnds, SAPI_Shut, Disconnected, At
<1>9. Unadvise => pc.at = "Unadvise" /\ pc'.at = "RemoveGroup"
  BY CounterMoves DEF Unadvise, At, Closing
<1>10. RemoveGroup => pc.at = "RemoveGroup" /\ pc'.at = "RemoveGroup"
  BY Counter DEF RemoveGroup, At, Closing
<1>. QED
  BY <1>2, <1>3, <1>4, <1>5, <1>6, <1>7, <1>8, <1>9, <1>10

LEMMA PhaseStep ==
  ASSUME IInv, [Next]_vars
  PROVE  PhaseInv'
<1>. TypeInv /\ PhaseInv /\ SinkInv
  BY DEF IInv
<1>. USE Moves DEF PhaseInv, Connecting, Using, Closing, At
<1>1. ASSUME NEW call \in Calls, NEW name \in Names, Call(call, name)
      PROVE  PhaseInv'
  BY <1>1 DEF Call, Idle, ghosts
<1>2. CASE CoCreateInstanceEx
  BY <1>2 DEF CoCreateInstanceEx, ghosts
<1>3. CASE FindConnectionPoint
  BY <1>3 DEF FindConnectionPoint, ghosts
<1>4. CASE Advise
  BY <1>4 DEF Advise
<1>5. CASE AddGroup
  BY <1>5 DEF AddGroup, ghosts
<1>6. CASE GroupBuilt
  BY <1>6 DEF GroupBuilt
<1>13. CASE GroupNotBuilt
  BY <1>13 DEF GroupNotBuilt
<1>7. CASE CallEnds
  BY <1>7 DEF CallEnds, ghosts
<1>8. CASE SAPI_Shut
  BY <1>8 DEF SAPI_Shut, Idle, ghosts
<1>9. CASE Unadvise
  BY <1>9 DEF Unadvise
<1>10. CASE RemoveGroup
  BY <1>10 DEF RemoveGroup, ghosts
<1>11. CASE Disconnected
  BY <1>11 DEF Disconnected, ghosts
<1>12. CASE ServerTakesSink \/ ServerReleasesSink \/ ShutdownRequest \/ ServerEnds \/ UNCHANGED vars
  <2>1. UNCHANGED <<pc, g_bInitOK, g_bMainServer, freed, crashed>>
    BY <1>12 DEF ServerTakesSink, ServerReleasesSink, ShutdownRequest, ServerEnds, Inside, vars
  <2>2. touched' => touched \/ freed
    BY <1>12 DEF ServerTakesSink, ServerReleasesSink, ShutdownRequest, ServerEnds, ghosts, vars
  <2>. QED
    BY <2>1, <2>2
<1>. QED
  BY <1>1, <1>2, <1>3, <1>4, <1>5, <1>6, <1>7, <1>8, <1>9, <1>10, <1>11, <1>12, <1>13 DEF Next

\* What Connect has after CoCreateInstanceEx.
LEMMA CoCreateOutcomes ==
  ASSUME TypeInv, CoCreateInstanceEx
  PROVE  \/ pc'.at = "idle" /\ ~g_bMainServer' /\ held' = {}
         \/ /\ pc'.at = "FindConnectionPoint" /\ ~g_bMainServer'
            /\ held' = Needed \cup {"IConnectionPointContainer"}
         \/ pc'.at = "AddGroup" /\ g_bMainServer' /\ held' = Needed
<1>1. PICK got \in SUBSET (Needed \cup {"IConnectionPointContainer"}) :
        /\ held' = KeptInterfaces(got)
        /\ g_bMainServer' = (Needed \subseteq got /\ "IConnectionPointContainer" \notin got)
        /\ IF ~(Needed \subseteq got) THEN pc' = Idle
           ELSE GoTo(IF "IConnectionPointContainer" \in got
                     THEN "FindConnectionPoint" ELSE "AddGroup")
  BY DEF CoCreateInstanceEx
<1>2. pc.at = "CoCreateInstanceEx"
  BY DEF CoCreateInstanceEx, At
<1>3. CASE ~(Needed \subseteq got)
  <2>1. pc' = Idle /\ held' = {} /\ ~g_bMainServer'
    <3>1. KeptInterfaces(got) = {}
      BY <1>3 DEF KeptInterfaces
    <3>2. pc' = Idle
      BY <1>1, <1>3, Zenon
    <3>3. ~g_bMainServer'
      BY <1>1, <1>3, Zenon
    <3>. QED
      BY <1>1, <3>1, <3>2, <3>3, Zenon
  <2>. QED
    BY <2>1 DEF Idle
<1>4. CASE Needed \subseteq got /\ "IConnectionPointContainer" \in got
  <2>1. pc'.at = "FindConnectionPoint"
    BY <1>1, <1>2, <1>4, CounterMoves DEF Connecting, Using
  <2>2. got = Needed \cup {"IConnectionPointContainer"}
    BY <1>4
  <2>. QED
    BY <1>1, <1>4, <2>1, <2>2 DEF KeptInterfaces
<1>5. CASE Needed \subseteq got /\ "IConnectionPointContainer" \notin got
  <2>1. pc'.at = "AddGroup"
    BY <1>1, <1>2, <1>5, CounterMoves DEF Connecting, Using
  <2>2. got = Needed
    BY <1>5
  <2>. QED
    BY <1>1, <1>5, <2>1, <2>2 DEF KeptInterfaces
<1>. QED
  BY <1>3, <1>4, <1>5

\* And after it has looked for the connection point.
LEMMA FindOutcomes ==
  ASSUME TypeInv, FindConnectionPoint
  PROVE  \/ /\ pc'.at = "Advise" /\ UNCHANGED g_bMainServer
            /\ held' = held \cup {"IConnectionPoint"}
            /\ sink' = [NoSink EXCEPT !.m_cRef = 2, !.m_pObjShutdown = TRUE]
         \/ /\ pc'.at = "AddGroup" /\ g_bMainServer'
            /\ held' = held \ {"IConnectionPointContainer"}
            /\ UNCHANGED sink
<1>1. pc.at = "FindConnectionPoint"
  BY DEF FindConnectionPoint, At
<1>2. CASE GoTo("Advise") /\ UNCHANGED g_bMainServer /\ held' = held \cup {"IConnectionPoint"}
           /\ sink' = [NoSink EXCEPT !.m_cRef = 2, !.m_pObjShutdown = TRUE]
  BY <1>1, <1>2, CounterMoves DEF Connecting, Using
<1>3. CASE GoTo("AddGroup") /\ g_bMainServer' /\ held' = held \ {"IConnectionPointContainer"}
           /\ UNCHANGED sink
  BY <1>1, <1>3, CounterMoves DEF Connecting, Using
<1>. QED
  BY <1>2, <1>3 DEF FindConnectionPoint

\* SAPI_Shut gives the connection point back if it was not used.
LEMMA ShutOutcomes ==
  ASSUME TypeInv, PhaseInv, HeldInv, SinkInv, SAPI_Shut
  PROVE  /\ pc.at = "idle" /\ held' = held
         /\ \/ pc'.at = "idle" /\ ~g_bMainServer
            \/ pc'.at = "Unadvise" /\ g_bMainServer /\ ConnectionPoint
            \/ pc'.at = "RemoveGroup" /\ g_bMainServer /\ ~ConnectionPoint
<1>1. pc.at = "idle"
  BY DEF SAPI_Shut, At
<1>2. ConnectionPoint => Advised
  <2>1. ConnectionPoint => sink.m_cRef >= 1
    BY SinkHeld
  <2>2. ConnectionPoint => sink.m_pObjShutdown
    <3>1. sink.m_cRef > 0 => sink.m_pObjShutdown
      BY Zenon DEF SinkInv
    <3>2. sink.m_cRef >= 1 => sink.m_cRef > 0
      BY DEF TypeInv, Sink
    <3>. QED
      BY <2>1, <3>1, <3>2, Zenon
  <2>3. ConnectionPoint => sink.m_dwAdviseCookie
    <3>1. pc.at # "Advise"
      BY <1>1
    <3>. QED
      BY <3>1, Zenon DEF SinkInv
  <2>. QED
    BY <2>2, <2>3, Zenon DEF Advised
<1>3. Idle.at = "idle"
  BY DEF Idle
<1>4. held' = held
  BY <1>2 DEF SAPI_Shut, ConnectionPoint
<1>5. CASE ~g_bMainServer
  BY <1>1, <1>3, <1>4, <1>5 DEF SAPI_Shut
<1>6. CASE g_bMainServer /\ ConnectionPoint
  <2>1. pc' = [at |-> "Unadvise", pos |-> 1]
    BY <1>2, <1>6, Zenon DEF SAPI_Shut, ConnectionPoint
  <2>. QED
    BY <1>1, <1>4, <1>6, <2>1
<1>7. CASE g_bMainServer /\ ~ConnectionPoint
  <2>1. pc' = [at |-> "RemoveGroup", pos |-> 1]
    BY <1>7, Zenon DEF SAPI_Shut, ConnectionPoint
  <2>. QED
    BY <1>1, <1>4, <1>7, <2>1
<1>. QED
  BY <1>5, <1>6, <1>7 DEF TypeInv

LEMMA HeldStep ==
  ASSUME IInv, [Next]_vars
  PROVE  HeldInv'
<1>. TypeInv /\ PhaseInv /\ HeldInv /\ SinkInv
  BY DEF IInv
<1>1. CASE UNCHANGED <<held, g_bMainServer>> /\ pc.at \in {"idle"} \cup Using
           /\ pc'.at \in {"idle", "CoCreateInstanceEx"} \cup Using
  BY <1>1 DEF HeldInv, Using
<1>2. ASSUME NEW call \in Calls, NEW name \in Names, Call(call, name)
      PROVE  HeldInv'
  BY <1>1, <1>2, Moves DEF Call, Using
<1>3. CASE CoCreateInstanceEx
  BY <1>3, CoCreateOutcomes DEF HeldInv
<1>4. CASE FindConnectionPoint
  <2>1. pc.at = "FindConnectionPoint" /\ ~g_bMainServer
    BY <1>4 DEF FindConnectionPoint, At, PhaseInv, Connecting
  <2>2. held = Needed \cup {"IConnectionPointContainer"}
    BY <2>1 DEF HeldInv
  <2>3. held \cup {"IConnectionPoint"} = Needed \cup {"IConnectionPointContainer", "IConnectionPoint"}
        /\ held \ {"IConnectionPointContainer"} = Needed
    BY <2>2 DEF Needed
  <2>. QED
    BY <1>4, <2>1, <2>3, FindOutcomes DEF HeldInv
<1>5. CASE Advise
  <2>1. pc.at = "Advise" /\ ~g_bMainServer /\ pc'.at = "AddGroup" /\ g_bMainServer'
    BY <1>5, Moves DEF Advise, At, PhaseInv, Connecting
  <2>2. held' \subseteq held \ {"IConnectionPointContainer"}
    BY <1>5 DEF Advise
  <2>. QED
    BY <2>1, <2>2 DEF HeldInv
<1>6. CASE AddGroup \/ GroupBuilt \/ GroupNotBuilt \/ CallEnds
  BY <1>1, <1>6, Moves DEF AddGroup, GroupBuilt, GroupNotBuilt, CallEnds, Using
<1>7. CASE SAPI_Shut
  <2>1. UNCHANGED g_bMainServer
    BY <1>7 DEF SAPI_Shut
  <2>. QED
    BY <1>7, <2>1, ShutOutcomes DEF HeldInv, ConnectionPoint
<1>8. CASE Unadvise
  <2>1. g_bMainServer /\ g_bMainServer' = g_bMainServer /\ held' = held \ {"IConnectionPoint"}
    BY <1>8 DEF Unadvise, At, PhaseInv, Closing
  <2>. QED
    BY <1>8, <2>1, Moves DEF HeldInv, ConnectionPoint
<1>9. CASE RemoveGroup
  BY <1>9, Moves DEF RemoveGroup, HeldInv, ConnectionPoint
<1>10. CASE Disconnected
  <2>1. g_bMainServer /\ held \ Needed = {}
    BY <1>10 DEF Disconnected, At, PhaseInv, Closing, HeldInv, ConnectionPoint
  <2>. QED
    BY <1>10, <2>1, Moves DEF Disconnected, HeldInv
<1>11. CASE \/ ServerTakesSink \/ ServerReleasesSink \/ ShutdownRequest \/ ServerEnds
            \/ UNCHANGED vars
  BY <1>11 DEF ServerTakesSink, ServerReleasesSink, ShutdownRequest, ServerEnds, Inside, vars, HeldInv,
    ConnectionPoint
<1>. QED
  BY <1>2, <1>3, <1>4, <1>5, <1>6, <1>7, <1>8, <1>9, <1>10, <1>11 DEF Next

\* A COpcServer that has been deleted is not in use, nor is its connection point.
LEMMA Deleted ==
  ASSUME PhaseInv, HeldInv
  PROVE  /\ freed => pc.at = "idle" /\ ~g_bMainServer /\ ~ConnectionPoint
         /\ pc.at # "idle" => ~touched
<1>1. freed => pc.at = "idle" /\ ~g_bMainServer
  BY DEF PhaseInv
<1>2. freed => held = {}
  BY <1>1 DEF HeldInv
<1>. QED
  BY <1>1, <1>2 DEF ConnectionPoint, PhaseInv

\* A step that changes neither the sink nor who has it.
LEMMA SinkLeft ==
  ASSUME SinkInv, UNCHANGED <<sink, unadvised>>, ConnectionPoint' <=> ConnectionPoint,
         pc.at # "Advise", pc'.at # "Advise", touched' => touched \/ unadvised = "failed"
  PROVE  SinkInv'
<1>1. One(ConnectionPoint)' = One(ConnectionPoint) /\ One(pc.at = "Advise")' = One(pc.at = "Advise")
  BY DEF One
<1>. QED
  BY <1>1 DEF SinkInv

LEMMA FindKeepsSink ==
  ASSUME TypeInv, PhaseInv, HeldInv, SinkInv, FindConnectionPoint
  PROVE  SinkInv'
<1>1. pc.at = "FindConnectionPoint" /\ ~g_bMainServer
  BY DEF FindConnectionPoint, At, PhaseInv, Connecting
<1>2. held = Needed \cup {"IConnectionPointContainer"}
  BY <1>1 DEF HeldInv
<1>3. UNCHANGED <<unadvised, touched>> /\ ~touched
  BY <1>1, Deleted DEF FindConnectionPoint, ghosts
<1>4. CASE /\ pc'.at = "Advise" /\ held' = held \cup {"IConnectionPoint"}
           /\ sink' = [NoSink EXCEPT !.m_cRef = 2, !.m_pObjShutdown = TRUE]
  <2>1. sink'.m_cRef = 2 /\ sink'.m_pObjShutdown /\ ~sink'.m_dwAdviseCookie /\ ~sink'.server
    BY <1>4, SinkMade, Zenon
  <2>2. One(sink.server)' = 0 /\ One(ConnectionPoint)' = 1 /\ One(pc.at = "Advise")' = 1
    BY <1>4, <2>1 DEF One, ConnectionPoint
  <2>3. sink'.m_cRef = One(sink.server)' + One(ConnectionPoint)' + One(pc.at = "Advise")'
    BY <2>1, <2>2
  <2>4. (sink.m_pObjShutdown <=> sink.m_cRef > 0)'
    BY <2>1
  <2>. QED
    BY <1>3, <1>4, <2>1, <2>3, <2>4, Zenon DEF SinkInv
<1>5. CASE pc'.at = "AddGroup" /\ held' = held \ {"IConnectionPointContainer"} /\ UNCHANGED sink
  <2>1. ConnectionPoint' <=> ConnectionPoint
    BY <1>5 DEF ConnectionPoint
  <2>. QED
    BY <1>1, <1>3, <1>5, <2>1, SinkLeft
<1>. QED
  BY <1>4, <1>5, FindOutcomes

LEMMA AdviseKeepsSink ==
  ASSUME TypeInv, PhaseInv, HeldInv, SinkInv, Advise
  PROVE  SinkInv'
<1>1. pc.at = "Advise" /\ pc'.at = "AddGroup" /\ sink \in Sink
  BY Moves DEF Advise, At, TypeInv
<1>2. ConnectionPoint /\ sink.m_cRef \in Nat /\ sink.m_cRef >= 2 /\ ~touched /\ UNCHANGED touched
  BY <1>1, SinkHeld, Deleted DEF Sink, Advise
<1>3. sink.m_cRef = One(sink.server) + 2 /\ One(sink.server) \in {0, 1}
  BY <1>1, <1>2 DEF SinkInv, One
<1>4. One(pc.at = "Advise")' = 0
  BY <1>1 DEF One
<1>5. sink.m_pObjShutdown
  <2>1. sink.m_cRef > 0
    BY <1>2
  <2>. QED
    BY <2>1, Zenon DEF SinkInv
<1>6. CASE /\ sink.server
           /\ sink' = [ReleaseSink(sink, 1) EXCEPT !.m_dwAdviseCookie = TRUE]
           /\ held' = held \ {"IConnectionPointContainer"}
  <2>1. ReleaseSink(sink, 1) \in Sink
    BY <1>1, <1>2, SinkReleased
  <2>2. /\ sink'.m_cRef = ReleaseSink(sink, 1).m_cRef
        /\ sink'.m_pObjShutdown = ReleaseSink(sink, 1).m_pObjShutdown
        /\ sink'.server = ReleaseSink(sink, 1).server
        /\ sink'.m_dwAdviseCookie
    BY <1>6, <2>1 DEF Sink
  <2>3. sink'.m_cRef = sink.m_cRef - 1 /\ sink'.server = sink.server
    BY <1>1, <1>2, <2>2, SinkReleased
  <2>4. sink'.m_pObjShutdown
    BY <1>1, <1>2, <1>5, <2>2, SinkReleased
  <2>5. ConnectionPoint'
    BY <1>2, <1>6 DEF ConnectionPoint
  <2>6. One(sink.server)' = 1 /\ One(sink.server) = 1 /\ One(ConnectionPoint)' = 1
    BY <1>6, <2>3, <2>5 DEF One
  <2>7. sink'.m_cRef = One(sink.server)' + One(ConnectionPoint)' + One(pc.at = "Advise")'
        /\ sink'.m_cRef > 0
    BY <1>3, <1>4, <2>3, <2>6
  <2>. QED
    BY <1>1, <1>2, <2>2, <2>4, <2>5, <2>7 DEF SinkInv
<1>7. CASE /\ sink' = ReleaseSink(sink, 2)
           /\ held' = held \ {"IConnectionPointContainer", "IConnectionPoint"}
           /\ unadvised' = "failed"
  <2>1. /\ sink'.m_cRef = sink.m_cRef - 2 /\ sink'.server = sink.server
        /\ sink'.m_pObjShutdown <=> sink.m_pObjShutdown /\ sink.m_cRef > 2
    BY <1>1, <1>2, <1>7, SinkReleased
  <2>2. ~ConnectionPoint'
    BY <1>7 DEF ConnectionPoint
  <2>3. One(sink.server)' = One(sink.server) /\ One(ConnectionPoint)' = 0
    BY <2>1, <2>2 DEF One
  <2>4. sink'.m_cRef = One(sink.server)' + One(ConnectionPoint)' + One(pc.at = "Advise")'
    BY <1>3, <1>4, <2>1, <2>3
  <2>5. sink'.m_cRef > 0 <=> sink.m_cRef > 2
    BY <1>2, <2>1
  <2>6. sink'.m_pObjShutdown <=> sink'.m_cRef > 0
    BY <1>5, <2>1, <2>5, Zenon
  <2>. QED
    BY <1>7, <2>2, <2>4, <2>6 DEF SinkInv
<1>. QED
  BY <1>6, <1>7 DEF Advise

LEMMA UnadviseKeepsSink ==
  ASSUME TypeInv, PhaseInv, HeldInv, SinkInv, Unadvise
  PROVE  SinkInv'
<1>1. pc.at = "Unadvise" /\ pc'.at = "RemoveGroup" /\ sink \in Sink /\ ConnectionPoint
  BY Moves DEF Unadvise, At, TypeInv, HeldInv
<1>2. sink.m_cRef \in Nat /\ sink.m_cRef >= 1 /\ ~touched /\ UNCHANGED touched
  BY <1>1, SinkHeld, Deleted DEF Sink, Unadvise
<1>3. sink.m_cRef = One(sink.server) + 1 /\ One(sink.server) \in {0, 1}
  BY <1>1, <1>2 DEF SinkInv, One
<1>4. /\ sink'.m_cRef = sink.m_cRef - 1 /\ sink'.server = sink.server
      /\ sink'.m_pObjShutdown <=> sink.m_pObjShutdown /\ sink.m_cRef > 1
  BY <1>1, <1>2, SinkReleased DEF Unadvise
<1>5. ~ConnectionPoint'
  BY DEF ConnectionPoint, Unadvise
<1>6. One(sink.server)' = One(sink.server) /\ One(ConnectionPoint)' = 0 /\ One(pc.at = "Advise")' = 0
  BY <1>1, <1>4, <1>5 DEF One
<1>7. sink'.m_cRef = One(sink.server)' + One(ConnectionPoint)' + One(pc.at = "Advise")'
  BY <1>3, <1>4, <1>6
<1>8. sink'.m_cRef > 0 <=> sink.m_cRef > 1
  BY <1>2, <1>4
<1>9. sink.m_pObjShutdown
  <2>1. sink.m_cRef > 0
    BY <1>2
  <2>. QED
    BY <2>1, Zenon DEF SinkInv
<1>10. sink'.m_pObjShutdown <=> sink'.m_cRef > 0
  BY <1>4, <1>8, <1>9, Zenon
<1>11. sink'.server => unadvised' = "failed"
  BY <1>4 DEF Unadvise
<1>. QED
  BY <1>1, <1>2, <1>5, <1>7, <1>10, <1>11 DEF SinkInv

LEMMA ServerKeepsSink ==
  ASSUME TypeInv, PhaseInv, HeldInv, SinkInv,
         ServerTakesSink \/ ServerReleasesSink \/ ShutdownRequest \/ ServerEnds
  PROVE  SinkInv'
<1>. UNCHANGED <<pc, held, unadvised>> /\ sink \in Sink /\ sink.m_cRef \in Nat
  BY DEF ServerTakesSink, ServerReleasesSink, ShutdownRequest, ServerEnds, Inside, TypeInv, Sink
<1>1. (ConnectionPoint' <=> ConnectionPoint) /\ (pc'.at = "Advise" <=> pc.at = "Advise")
  BY DEF ConnectionPoint
<1>2. One(ConnectionPoint)' = One(ConnectionPoint) /\ One(pc.at = "Advise")' = One(pc.at = "Advise")
      /\ One(ConnectionPoint) \in Nat /\ One(pc.at = "Advise") \in Nat
  BY <1>1 DEF One
<1>3. CASE ServerTakesSink
  <2>1. pc.at = "Advise" /\ ~sink.server /\ UNCHANGED touched /\ ConnectionPoint
    BY <1>3, SinkHeld DEF ServerTakesSink, At
  <2>2. /\ sink'.m_cRef = sink.m_cRef + 1 /\ sink'.server
        /\ sink'.m_pObjShutdown = sink.m_pObjShutdown
        /\ sink'.m_dwAdviseCookie = sink.m_dwAdviseCookie
    BY <1>3, SinkTaken DEF ServerTakesSink
  <2>3. One(sink.server)' = 1 /\ One(sink.server) = 0
    BY <2>1, <2>2 DEF One
  <2>4. sink.m_cRef = One(sink.server) + One(ConnectionPoint) + One(pc.at = "Advise")
    BY DEF SinkInv
  <2>5. sink'.m_cRef = One(sink.server)' + One(ConnectionPoint)' + One(pc.at = "Advise")'
    <3>. DEFINE a == One(ConnectionPoint)
                b == One(pc.at = "Advise")
    <3>1. a \in Nat /\ b \in Nat /\ sink.m_cRef = 0 + a + b
      BY <1>2, <2>3, <2>4
    <3>2. One(ConnectionPoint)' = a /\ One(pc.at = "Advise")' = b
      BY <1>2
    <3>3. sink'.m_cRef = sink.m_cRef + 1 /\ One(sink.server)' = 1
      BY <2>2, <2>3
    <3>. HIDE DEF a, b
    <3>4. sink'.m_cRef = 1 + a + b
      BY <3>1, <3>3
    <3>. QED
      BY <3>2, <3>3, <3>4, Zenon
  <2>6. sink.m_cRef > 0 /\ sink'.m_cRef > 0
    BY <2>1, <2>2, SinkHeld
  <2>7. sink'.m_pObjShutdown /\ ~sink'.m_dwAdviseCookie
    BY <2>1, <2>2, <2>6 DEF SinkInv
  <2>8. touched' => unadvised' = "failed"
    BY <2>1 DEF SinkInv
  <2>. QED
    BY <1>1, <2>1, <2>5, <2>6, <2>7, <2>8, Zenon DEF SinkInv
<1>4. CASE ServerReleasesSink
  <2>1. sink.server /\ sink.m_cRef >= 1
    BY <1>4, SinkHeld DEF ServerReleasesSink
  <2>2. ReleaseSink(sink, 1) \in Sink
    BY <2>1, SinkReleased
  <2>3. /\ sink'.m_cRef = ReleaseSink(sink, 1).m_cRef
        /\ sink'.m_pObjShutdown = ReleaseSink(sink, 1).m_pObjShutdown
        /\ sink'.m_dwAdviseCookie = ReleaseSink(sink, 1).m_dwAdviseCookie
        /\ ~sink'.server
    BY <1>4, <2>2 DEF ServerReleasesSink, Sink
  <2>4. /\ sink'.m_cRef = sink.m_cRef - 1
        /\ sink'.m_dwAdviseCookie = sink.m_dwAdviseCookie
    BY <2>1, <2>3, SinkReleased
  <2>5. sink'.m_pObjShutdown <=> sink.m_pObjShutdown /\ sink.m_cRef > 1
    <3>1. ReleaseSink(sink, 1).m_pObjShutdown <=> sink.m_pObjShutdown /\ sink.m_cRef > 1
      BY <2>1, SinkReleased
    <3>. QED
      BY <2>3, <3>1, Zenon
  <2>6. One(sink.server)' = 0 /\ One(sink.server) = 1
    BY <2>1, <2>3 DEF One
  <2>7. sink.m_cRef = One(sink.server) + One(ConnectionPoint) + One(pc.at = "Advise")
    BY DEF SinkInv
  <2>13. sink.m_pObjShutdown
    <3>1. sink.m_cRef > 0
      BY <2>1
    <3>. QED
      BY <3>1, Zenon DEF SinkInv
  <2>8. sink'.m_cRef = One(sink.server)' + One(ConnectionPoint)' + One(pc.at = "Advise")'
    BY <1>2, <2>4, <2>6, <2>7
  <2>9. sink'.m_cRef > 0 <=> sink.m_cRef > 1
    BY <2>4
  <2>10. sink'.m_pObjShutdown <=> sink'.m_cRef > 0
    BY <2>5, <2>9, <2>13, Zenon
  <2>11. ConnectionPoint' => (sink'.m_dwAdviseCookie <=> pc'.at # "Advise")
    BY <1>1, <2>4 DEF SinkInv
  <2>12. touched' => unadvised' = "failed"
    BY <1>4, <2>1, Deleted DEF SinkInv, ServerReleasesSink
  <2>. QED
    BY <2>3, <2>8, <2>10, <2>11, <2>12, Zenon DEF SinkInv
<1>5. CASE ShutdownRequest \/ ServerEnds
  <2>1. UNCHANGED sink
    BY <1>5 DEF ShutdownRequest, ServerEnds
  <2>2. touched' => unadvised = "failed"
    BY <1>5, Deleted DEF SinkInv, ShutdownRequest, ServerEnds
  <2>3. One(sink.server)' = One(sink.server)
    BY <2>1
  <2>. QED
    BY <1>1, <1>2, <2>1, <2>2, <2>3 DEF SinkInv
<1>. QED
  BY <1>3, <1>4, <1>5

LEMMA SinkStep ==
  ASSUME IInv, [Next]_vars
  PROVE  SinkInv'
<1>. TypeInv /\ PhaseInv /\ HeldInv /\ SinkInv
  BY DEF IInv
<1>1. ASSUME NEW call \in Calls, NEW name \in Names, Call(call, name)
      PROVE  SinkInv'
  <2>1. pc.at # "Advise" /\ pc'.at # "Advise"
    BY <1>1, Moves
  <2>2. UNCHANGED <<sink, unadvised, touched, held>>
    BY <1>1 DEF Call, ghosts
  <2>. QED
    BY <2>1, <2>2, SinkLeft DEF ConnectionPoint
<1>2. CASE CoCreateInstanceEx
  <2>1. pc.at = "CoCreateInstanceEx" /\ pc'.at # "Advise"
    BY <1>2, Moves
  <2>2. UNCHANGED <<sink, unadvised, touched>>
    BY <1>2 DEF CoCreateInstanceEx, ghosts
  <2>3. ~ConnectionPoint /\ ~ConnectionPoint'
    <3>1. held = {}
      BY <2>1 DEF HeldInv, PhaseInv, Connecting
    <3>2. "IConnectionPoint" \notin held'
      BY <1>2, CoCreateOutcomes DEF Needed
    <3>. QED
      BY <3>1, <3>2 DEF ConnectionPoint
  <2>. QED
    BY <2>1, <2>2, <2>3, SinkLeft
<1>3. CASE AddGroup \/ GroupBuilt \/ GroupNotBuilt \/ CallEnds \/ RemoveGroup \/ Disconnected
  <2>1. pc.at # "Advise" /\ pc'.at # "Advise"
    BY <1>3, Moves
  <2>2. UNCHANGED <<sink, unadvised, touched>>
    BY <1>3 DEF AddGroup, GroupBuilt, GroupNotBuilt, CallEnds, RemoveGroup, Disconnected, ghosts
  <2>3. ConnectionPoint' <=> ConnectionPoint
    BY <1>3 DEF AddGroup, GroupBuilt, GroupNotBuilt, CallEnds, RemoveGroup, Disconnected,
      ConnectionPoint, Needed
  <2>. QED
    BY <2>1, <2>2, <2>3, SinkLeft
<1>4. CASE SAPI_Shut
  <2>1. pc.at # "Advise" /\ pc'.at # "Advise" /\ UNCHANGED <<sink, unadvised, touched>>
    BY <1>4, Moves DEF SAPI_Shut, ghosts
  <2>2. ConnectionPoint' <=> ConnectionPoint
    BY <1>4, ShutOutcomes DEF ConnectionPoint
  <2>. QED
    BY <2>1, <2>2, SinkLeft
<1>5. CASE UNCHANGED vars
  BY <1>5 DEF vars, ghosts, SinkInv, ConnectionPoint
<1>. QED
  BY <1>1, <1>2, <1>3, <1>4, <1>5, FindKeepsSink, AdviseKeepsSink, UnadviseKeepsSink, ServerKeepsSink
  DEF Next

-----------------------------------------------------------------------------
(* The groups                                                              *)

LEMMA FreshStep ==
  ASSUME IInv, [Next]_vars
  PROVE  FreshInv'
<1>. TypeInv /\ PhaseInv /\ FreshInv
  BY DEF IInv
<1>. SUFFICES ASSUME ~g_bMainServer', ~freed'
     PROVE  /\ known' = {} /\ m_pGroupList' = << >>
            /\ pc'.at # "Advise" => sink' = NoSink
  BY DEF FreshInv
<1>1. CASE UNCHANGED <<known, m_pGroupList, sink, freed, g_bMainServer>> /\ pc.at # "Advise"
  BY <1>1 DEF FreshInv
<1>2. ASSUME NEW call \in Calls, NEW name \in Names, Call(call, name)
      PROVE  UNCHANGED <<known, m_pGroupList, sink, freed, g_bMainServer>> /\ pc.at # "Advise"
  BY <1>2 DEF Call, outside, At
<1>3. CASE CoCreateInstanceEx
  <2>1. pc.at = "CoCreateInstanceEx" /\ ~g_bMainServer /\ UNCHANGED <<known, m_pGroupList, sink, freed>>
    BY <1>3 DEF CoCreateInstanceEx, At, PhaseInv, Connecting
  <2>. QED
    BY <2>1 DEF FreshInv
<1>4. CASE FindConnectionPoint
  <2>1. pc.at = "FindConnectionPoint" /\ ~g_bMainServer /\ UNCHANGED <<known, m_pGroupList, freed>>
    BY <1>4 DEF FindConnectionPoint, At, PhaseInv, Connecting, outside
  <2>2. pc'.at = "Advise"
    BY <1>4, FindOutcomes
  <2>. QED
    BY <2>1, <2>2 DEF FreshInv
<1>5. CASE \/ Advise \/ AddGroup \/ GroupBuilt \/ GroupNotBuilt \/ CallEnds
           \/ Unadvise \/ RemoveGroup \/ Disconnected
  BY <1>5 DEF Advise, AddGroup, GroupBuilt, GroupNotBuilt, CallEnds, Unadvise, RemoveGroup,
    Disconnected, At, PhaseInv, Using, Closing
<1>6. CASE SAPI_Shut
  BY <1>1, <1>6 DEF SAPI_Shut, outside, At
<1>7. CASE ServerTakesSink
  BY <1>7 DEF ServerTakesSink, At, FreshInv, Inside, outside
<1>8. CASE ServerReleasesSink
  <2>1. sink.server /\ UNCHANGED <<known, m_pGroupList, pc, freed, g_bMainServer>>
    BY <1>8 DEF ServerReleasesSink, Inside, outside
  <2>2. sink # NoSink
    BY <2>1 DEF NoSink
  <2>. QED
    BY <2>1, <2>2 DEF FreshInv
<1>9. CASE ShutdownRequest \/ ServerEnds \/ UNCHANGED vars
  BY <1>9 DEF ShutdownRequest, ServerEnds, FreshInv, Inside, outside, vars
<1>. QED
  BY <1>1, <1>2, <1>3, <1>4, <1>5, <1>6, <1>7, <1>8, <1>9 DEF Next

\* What is in the list, and what is in it after a group is appended.
LEMMA Appended ==
  ASSUME TypeInv, NEW name \in Names
  PROVE  /\ DOMAIN m_pGroupList = 1 .. Len(m_pGroupList) /\ Len(m_pGroupList) \in Nat
         /\ DOMAIN Append(m_pGroupList, name) = 1 .. Len(m_pGroupList) + 1
         /\ \A i \in DOMAIN m_pGroupList : Append(m_pGroupList, name)[i] = m_pGroupList[i]
         /\ Append(m_pGroupList, name)[Len(m_pGroupList) + 1] = name
         /\ Range(Append(m_pGroupList, name)) = Range(m_pGroupList) \cup {name}
<1>1. m_pGroupList \in Seq(Names)
  BY DEF TypeInv
<1>2. /\ DOMAIN m_pGroupList = 1 .. Len(m_pGroupList) /\ Len(m_pGroupList) \in Nat
      /\ DOMAIN Append(m_pGroupList, name) = 1 .. Len(m_pGroupList) + 1
      /\ \A i \in DOMAIN m_pGroupList : Append(m_pGroupList, name)[i] = m_pGroupList[i]
      /\ Append(m_pGroupList, name)[Len(m_pGroupList) + 1] = name
  BY <1>1
<1>3. 1 .. Len(m_pGroupList) + 1 = (1 .. Len(m_pGroupList)) \cup {Len(m_pGroupList) + 1}
  BY <1>2
<1>. QED
  BY <1>2, <1>3 DEF Range

\* What is half built stays so.
LEMMA HalfBuiltStays ==
  ASSUME [Next]_vars
  PROVE  halfBuilt \subseteq halfBuilt'
BY DEF Next, Call, CoCreateInstanceEx, FindConnectionPoint, Advise, AddGroup, GroupBuilt,
  GroupNotBuilt, CallEnds, SAPI_Shut, Unadvise, RemoveGroup, Disconnected, ServerTakesSink,
  ServerReleasesSink, ShutdownRequest, ServerEnds, Inside, ghosts, vars

\* Steps outside the calls that make, use and close groups.
LEMMA ObjectsLeft ==
  ASSUME ListInv, UNCHANGED <<m_pGroupList, object>>, halfBuilt \subseteq halfBuilt',
         {pc.at, pc'.at} \cap {"use", "QueryInterface", "Unadvise", "RemoveGroup"} = {}
  PROVE  ListInv'
<1>1. pc.at \notin {"use", "QueryInterface", "Unadvise", "RemoveGroup"}
      /\ pc'.at \notin {"use", "QueryInterface", "Unadvise", "RemoveGroup"}
  OBVIOUS
<1>2. ASSUME NEW n \in Names
      PROVE  /\ InUse(n)' <=> InUse(n)
             /\ InMaking(n)' <=> InMaking(n)
             /\ Removed(n)' <=> Removed(n)
  BY <1>1 DEF InUse, InMaking, Removed
<1>3. ASSUME NEW n \in Names
      PROVE  ObjectInv(n)'
  <2>1. One(InUse(n))' = One(InUse(n))
    BY <1>2 DEF One
  <2>. QED
    BY <1>2, <2>1 DEF ListInv, ObjectInv
<1>. QED
  BY <1>1, <1>3 DEF ListInv

\* A call finds its group, uses it, and is the one that releases it again.
LEMMA CallKeepsList ==
  ASSUME TypeInv, PhaseInv, ListInv, NEW call \in Calls, NEW name \in Names, Call(call, name)
  PROVE  ListInv'
<1>0. halfBuilt \subseteq halfBuilt'
  BY HalfBuiltStays DEF Next
<1>1. pc.at = "idle" /\ UNCHANGED m_pGroupList
  BY DEF Call, At
<1>2. CASE g_bInitOK /\ g_bMainServer /\ GetGroupByName(name)
  <2>1. pc' = [at |-> "use", call |-> call, name |-> name]
    BY <1>2, Zenon DEF Call
  <2>2. object' = [object EXCEPT ![name].m_nRefCount = object[name].m_nRefCount + 1]
    BY <1>2, Zenon DEF Call
  <2>3. name \in Range(m_pGroupList) /\ object[name].m_nRefCount \in Nat
    BY <1>2 DEF GetGroupByName, TypeInv, GroupObject
  <2>4. ASSUME NEW n \in Names
        PROVE  /\ object'[n].m_nRefCount = IF n = name THEN object[n].m_nRefCount + 1
                                          ELSE object[n].m_nRefCount
               /\ object'[n].interfaces = object[n].interfaces
    <3>. DEFINE c == object[name].m_nRefCount + 1
    <3>1. c \in Nat /\ object' = [object EXCEPT ![name].m_nRefCount = c]
      BY <2>2, <2>3
    <3>. HIDE DEF c
    <3>2. /\ object'[n].m_nRefCount = IF n = name THEN c ELSE object[n].m_nRefCount
          /\ object'[n].interfaces = object[n].interfaces
      <4>1. object \in [Names -> GroupObject]
        BY DEF TypeInv
      <4>. QED
        BY <3>1, <4>1 DEF GroupObject
    <3>. QED
      BY <3>2 DEF c
  <2>5. ASSUME NEW n \in Names
        PROVE  ObjectInv(n)'
    <3>1. One(InUse(n)) = 0 /\ One(InUse(n))' = IF n = name THEN 1 ELSE 0
      BY <1>1, <2>1 DEF One, InUse
    <3>2. ~Removed(n) /\ ~Removed(n)' /\ ~InMaking(n) /\ ~InMaking(n)'
      BY <1>1, <2>1 DEF Removed, InMaking
    <3>3. One(n \in Range(m_pGroupList)) \in Nat
      BY DEF One
    <3>. QED
      BY <1>0, <1>1, <2>4, <3>1, <3>2, <3>3 DEF ListInv, ObjectInv
  <2>. QED
    BY <1>1, <2>1, <2>3, <2>5 DEF ListInv
<1>3. CASE ~(g_bInitOK /\ g_bMainServer /\ GetGroupByName(name))
  <2>1. UNCHANGED object
    BY <1>3, Zenon DEF Call
  <2>2. pc'.at \in {"idle", "CoCreateInstanceEx", "AddGroup"}
    BY <1>3 DEF Call, Idle
  <2>. QED
    BY <1>0, <1>1, <2>1, <2>2, ObjectsLeft
<1>. QED
  BY <1>2, <1>3

LEMMA AddGroupKeepsList ==
  ASSUME TypeInv, PhaseInv, ListInv, NamesInv, AddGroup
  PROVE  ListInv'
<1>0. halfBuilt \subseteq halfBuilt'
  BY HalfBuiltStays DEF Next
<1>1. pc.at = "AddGroup" /\ UNCHANGED m_pGroupList /\ pc.name \in Names /\ g_bMainServer
  BY Counter DEF AddGroup, At, Using, PhaseInv
<1>2. CASE /\ alive /\ pc.name \notin known /\ GoTo("QueryInterface")
           /\ object' = [object EXCEPT ![pc.name].interfaces = {"pIUnk"}]
  <2>1. pc.name \notin Range(m_pGroupList)
    BY <1>1, <1>2 DEF NamesInv
  <2>2. pc'.at = "QueryInterface" /\ pc'.name = pc.name
    BY <1>1, <1>2, CounterMoves DEF Using
  <2>3. ASSUME NEW n \in Names
        PROVE  /\ object'[n].interfaces = IF n = pc.name THEN {"pIUnk"} ELSE object[n].interfaces
               /\ object'[n].m_nRefCount = object[n].m_nRefCount
    <3>1. object \in [Names -> GroupObject]
      BY DEF TypeInv
    <3>2. object'[n] = IF n = pc.name THEN [object[n] EXCEPT !.interfaces = {"pIUnk"}] ELSE object[n]
      BY <1>1, <1>2, <3>1
    <3>. QED
      BY <3>1, <3>2 DEF GroupObject
  <2>4. ASSUME NEW n \in Names
        PROVE  ObjectInv(n)'
    <3>1. One(InUse(n)) = 0 /\ One(InUse(n))' = 0
      BY <1>1, <2>2 DEF One, InUse
    <3>2. ~Removed(n) /\ ~Removed(n)' /\ ~InMaking(n) /\ (InMaking(n)' <=> n = pc.name)
      BY <1>1, <2>2 DEF Removed, InMaking
    <3>. QED
      BY <1>0, <1>1, <2>1, <2>3, <3>1, <3>2 DEF ListInv, ObjectInv
  <2>. QED
    BY <1>1, <2>1, <2>2, <2>4 DEF ListInv
<1>3. CASE pc' = Idle /\ UNCHANGED object
  BY <1>0, <1>1, <1>3, ObjectsLeft DEF Idle
<1>. QED
  BY <1>2, <1>3 DEF AddGroup

LEMMA GroupBuiltKeepsList ==
  ASSUME TypeInv, ListInv, GroupBuilt
  PROVE  ListInv'
<1>0. halfBuilt \subseteq halfBuilt'
  BY HalfBuiltStays DEF Next
<1>1. pc.at = "QueryInterface" /\ pc.name \in Names
      /\ pc'.at = "use" /\ pc'.name = pc.name
  BY Counter, CounterMoves DEF GroupBuilt, At, Using
<1>2. m_pGroupList' = Append(m_pGroupList, pc.name)
  BY DEF GroupBuilt, Listed
<1>3. PICK named \in BOOLEAN : object' = [object EXCEPT ![pc.name] =
                       [m_nRefCount |-> 2, interfaces |-> GroupInterfaces, named |-> named]]
  BY DEF GroupBuilt
<1>4. pc.name \notin Range(m_pGroupList) /\ Range(m_pGroupList)' = Range(m_pGroupList) \cup {pc.name}
  BY <1>1, <1>2, Appended DEF ListInv
<1>5. ASSUME NEW i \in DOMAIN m_pGroupList', NEW j \in DOMAIN m_pGroupList',
             m_pGroupList'[i] = m_pGroupList'[j]
      PROVE  i = j
  <2>1. \A k \in DOMAIN m_pGroupList : m_pGroupList[k] # pc.name
    BY <1>4 DEF Range
  <2>2. \A k \in DOMAIN m_pGroupList' :
           \/ k \in DOMAIN m_pGroupList /\ m_pGroupList'[k] = m_pGroupList[k]
           \/ k = Len(m_pGroupList) + 1 /\ m_pGroupList'[k] = pc.name
    BY <1>1, <1>2, Appended
  <2>. QED
    BY <1>5, <2>1, <2>2 DEF ListInv
<1>6. ASSUME NEW n \in Names
      PROVE  ObjectInv(n)'
  <2>1. One(InUse(n)) = 0 /\ One(InUse(n))' = IF n = pc.name THEN 1 ELSE 0
    BY <1>1 DEF One, InUse
  <2>2. ~Removed(n) /\ ~Removed(n)' /\ ~InMaking(n)'
    BY <1>1 DEF Removed, InMaking
  <2>3. CASE n = pc.name
    <3>1. object'[n] = [m_nRefCount |-> 2, interfaces |-> GroupInterfaces, named |-> named]
      BY <1>1, <1>3, <2>3 DEF TypeInv
    <3>2. n \in Range(m_pGroupList)' /\ One(n \in Range(m_pGroupList))' = 1
      BY <1>4, <2>3 DEF One
    <3>. QED
      BY <1>0, <2>1, <2>2, <2>3, <3>1, <3>2 DEF ObjectInv
  <2>4. CASE n # pc.name
    <3>1. object'[n] = object[n] /\ ~InMaking(n)
      BY <1>1, <1>3, <2>4 DEF TypeInv, InMaking
    <3>2. n \in Range(m_pGroupList)' <=> n \in Range(m_pGroupList)
      BY <1>4, <2>4
    <3>3. One(n \in Range(m_pGroupList))' = One(n \in Range(m_pGroupList))
      BY <3>2 DEF One
    <3>. QED
      BY <1>0, <2>1, <2>2, <2>4, <3>1, <3>2, <3>3 DEF ListInv, ObjectInv
  <2>. QED
    BY <2>3, <2>4
<1>. QED
  BY <1>1, <1>4, <1>5, <1>6 DEF ListInv

LEMMA GroupNotBuiltKeepsList ==
  ASSUME TypeInv, ListInv, GroupNotBuilt
  PROVE  ListInv'
<1>0. halfBuilt \subseteq halfBuilt'
  BY HalfBuiltStays DEF Next
<1>1. pc.at = "QueryInterface" /\ pc.name \in Names /\ pc'.at = "idle" /\ UNCHANGED m_pGroupList
  BY Counter, Moves DEF GroupNotBuilt, At, Using
<1>2. PICK left \in {{}, LeftBehind} : object' = [object EXCEPT ![pc.name].interfaces = left]
  BY DEF GroupNotBuilt
<1>3. pc.name \notin Range(m_pGroupList)
  BY <1>1 DEF ListInv
<1>4. ASSUME NEW n \in Names
      PROVE  /\ object'[n].interfaces = IF n = pc.name THEN left ELSE object[n].interfaces
             /\ object'[n].m_nRefCount = object[n].m_nRefCount
  BY <1>1, <1>2, InterfacesChange
<1>5. pc.name \in halfBuilt'
  BY DEF GroupNotBuilt
<1>6. ASSUME NEW n \in Names
      PROVE  ObjectInv(n)'
  <2>1. One(InUse(n)) = 0 /\ One(InUse(n))' = 0
    BY <1>1 DEF One, InUse
  <2>2. ~Removed(n) /\ ~Removed(n)' /\ ~InMaking(n)'
    BY <1>1 DEF Removed, InMaking
  <2>3. CASE n = pc.name
    BY <1>1, <1>3, <1>4, <1>5, <2>1, <2>2, <2>3 DEF ListInv, ObjectInv
  <2>4. CASE n # pc.name
    <3>1. ~InMaking(n)
      BY <2>4 DEF InMaking
    <3>. QED
      BY <1>0, <1>1, <1>4, <2>1, <2>2, <2>4, <3>1 DEF ListInv, ObjectInv
  <2>. QED
    BY <2>3, <2>4
<1>. QED
  BY <1>1, <1>6 DEF ListInv

LEMMA CallEndsKeepsList ==
  ASSUME TypeInv, ListInv, CallEnds
  PROVE  ListInv'
<1>0. halfBuilt \subseteq halfBuilt'
  BY HalfBuiltStays DEF Next
<1>1. pc.at = "use" /\ pc.name \in Names /\ pc'.at = "idle" /\ UNCHANGED m_pGroupList
  BY Counter, Moves DEF CallEnds, At, Using
<1>2. object' = [object EXCEPT ![pc.name].m_nRefCount = object[pc.name].m_nRefCount - 1]
  BY DEF CallEnds
<1>3. pc.name \in Range(m_pGroupList)
  BY <1>1 DEF ListInv
<1>4. object[pc.name].m_nRefCount = 2
  BY <1>0, <1>1, <1>3 DEF ListInv, ObjectInv, One, InUse
<1>5. ASSUME NEW n \in Names
      PROVE  /\ object'[n].m_nRefCount = IF n = pc.name THEN 1 ELSE object[n].m_nRefCount
             /\ object'[n].interfaces = object[n].interfaces
  BY <1>1, <1>2, <1>4, CountChanges
<1>6. ASSUME NEW n \in Names
      PROVE  ObjectInv(n)'
  <2>1. One(InUse(n))' = 0 /\ One(InUse(n)) = IF n = pc.name THEN 1 ELSE 0
    BY <1>1 DEF One, InUse
  <2>2. ~Removed(n) /\ ~Removed(n)' /\ ~InMaking(n) /\ ~InMaking(n)'
    BY <1>1 DEF Removed, InMaking
  <2>3. n = pc.name => One(n \in Range(m_pGroupList)) = 1
    BY <1>3 DEF One
  <2>. QED
    BY <1>0, <1>1, <1>3, <1>5, <2>1, <2>2, <2>3 DEF ListInv, ObjectInv
<1>. QED
  BY <1>1, <1>6 DEF ListInv

\* SAPI_Shut starts with the first group.
LEMMA ShutKeepsList ==
  ASSUME TypeInv, PhaseInv, ListInv, SAPI_Shut \/ Unadvise
  PROVE  ListInv'
<1>0. halfBuilt \subseteq halfBuilt'
  BY HalfBuiltStays DEF Next
<1>1. pc.at \in {"idle", "Unadvise"} /\ pc'.at \in {"idle", "Unadvise", "RemoveGroup"}
      /\ UNCHANGED <<m_pGroupList, object>>
  BY Moves DEF SAPI_Shut, Unadvise
<1>2. pc'.at # "idle" => pc'.pos = 1
  <2>1. CASE SAPI_Shut
    BY <2>1 DEF SAPI_Shut, Idle
  <2>2. CASE Unadvise
    BY <2>2, CounterMoves DEF Unadvise, At, ListInv, Closing
  <2>. QED
    BY <2>1, <2>2
<1>3. ASSUME NEW n \in Names
      PROVE  ObjectInv(n)'
  <2>1. One(InUse(n)) = 0 /\ One(InUse(n))' = 0
    BY <1>1 DEF One, InUse
  <2>2. ~InMaking(n) /\ ~InMaking(n)' /\ ~Removed(n)
    BY <1>1 DEF Removed, InMaking
  <2>3. ~Removed(n)'
    <3>1. \A i \in DOMAIN m_pGroupList : ~(i < 1)
      BY DEF TypeInv
    <3>. QED
      BY <1>1, <1>2, <3>1 DEF Removed
  <2>. QED
    BY <1>0, <1>1, <2>1, <2>2, <2>3 DEF ListInv, ObjectInv
<1>. QED
  BY <1>1, <1>2, <1>3 DEF ListInv

LEMMA RemoveGroupKeepsList ==
  ASSUME TypeInv, ListInv, RemoveGroup
  PROVE  ListInv'
<1>0. halfBuilt \subseteq halfBuilt'
  BY HalfBuiltStays DEF Next
<1>1. pc.at = "RemoveGroup" /\ pc'.at = "RemoveGroup" /\ UNCHANGED m_pGroupList
      /\ pc.pos \in Nat /\ pc'.pos = pc.pos + 1
  BY Counter DEF RemoveGroup, At, Closing
<1>. DEFINE name == m_pGroupList[pc.pos]
<1>2. pc.pos \in 1 .. Len(m_pGroupList) /\ name \in Names /\ DOMAIN m_pGroupList = 1 .. Len(m_pGroupList)
  <2>1. pc.pos <= Len(m_pGroupList) /\ m_pGroupList \in Seq(Names)
    BY DEF RemoveGroup, TypeInv
  <2>. QED
    BY <1>1, <2>1, GroupAtPosition
<1>3. object' = [object EXCEPT ![name].interfaces = {}]
  BY DEF RemoveGroup
<1>4. ASSUME NEW n \in Names
      PROVE  /\ object'[n].interfaces = IF n = name THEN {} ELSE object[n].interfaces
             /\ object'[n].m_nRefCount = object[n].m_nRefCount
  <2>. HIDE DEF name
  <2>1. object \in [Names -> GroupObject]
    BY DEF TypeInv
  <2>. QED
    BY <1>2, <1>3, <2>1 DEF GroupObject
<1>5. ASSUME NEW n \in Names
      PROVE  ObjectInv(n)'
  <2>1. One(InUse(n)) = 0 /\ One(InUse(n))' = 0
    BY <1>1 DEF One, InUse
  <2>2. ~InMaking(n) /\ ~InMaking(n)'
    BY <1>1 DEF InMaking
  <2>3. Removed(n)' <=> Removed(n) \/ n = name
    <3>1. \A i \in DOMAIN m_pGroupList : i < pc.pos + 1 <=> i < pc.pos \/ i = pc.pos
      BY <1>1, <1>2
    <3>. QED
      BY <1>1, <1>2, <3>1 DEF Removed
  <2>. QED
    BY <1>0, <1>1, <1>4, <2>1, <2>2, <2>3 DEF ListInv, ObjectInv
<1>. QED
  BY <1>1, <1>5 DEF ListInv

LEMMA DisconnectedKeepsList ==
  ASSUME TypeInv, ListInv, Disconnected
  PROVE  ListInv'
<1>0. halfBuilt \subseteq halfBuilt'
  BY HalfBuiltStays DEF Next
<1>1. pc.at = "RemoveGroup" /\ pc'.at = "idle" /\ m_pGroupList' = << >>
      /\ pc.pos \in Nat /\ pc.pos > Len(m_pGroupList)
  BY Counter, Moves DEF Disconnected, At, Closing
<1>2. DOMAIN m_pGroupList = 1 .. Len(m_pGroupList) /\ Range(m_pGroupList)' = {}
      /\ DOMAIN m_pGroupList' = {}
  BY <1>1 DEF TypeInv, Range
<1>3. ASSUME NEW n \in Names
      PROVE  ObjectInv(n)'
  <2>1. One(InUse(n)) = 0 /\ One(InUse(n))' = 0 /\ One(n \in Range(m_pGroupList))' = 0
    BY <1>1, <1>2 DEF One, InUse
  <2>2. ~InMaking(n) /\ ~InMaking(n)'
    BY <1>1 DEF InMaking
  <2>3. CASE n \in Range(m_pGroupList)
    <3>1. Removed(n)
      BY <1>1, <1>2, <2>3 DEF Removed, Range
    <3>2. object[n].m_nRefCount = 1 /\ object[n].interfaces = {}
      BY <2>1, <2>2, <2>3, <3>1 DEF ListInv, ObjectInv, One
    <3>3. object'[n] = [object[n] EXCEPT !.m_nRefCount = @ - 1]
      BY <2>3 DEF Disconnected
    <3>4. object'[n].m_nRefCount = 0 /\ object'[n].interfaces = {}
      BY <3>2, <3>3 DEF TypeInv, GroupObject
    <3>. QED
      BY <1>0, <1>2, <2>1, <2>2, <3>4 DEF ObjectInv
  <2>4. CASE n \notin Range(m_pGroupList)
    <3>1. /\ object[n].m_nRefCount = 0
          /\ \/ object[n].interfaces = {}
             \/ n \in halfBuilt /\ object[n].interfaces = LeftBehind
      BY <2>1, <2>2, <2>4 DEF ListInv, ObjectInv, One
    <3>2. object'[n] = object[n]
      BY <2>4 DEF Disconnected
    <3>. QED
      BY <1>0, <1>2, <2>1, <2>2, <3>1, <3>2 DEF ObjectInv
  <2>. QED
    BY <2>3, <2>4
<1>. QED
  BY <1>1, <1>2, <1>3 DEF ListInv

LEMMA ListStep ==
  ASSUME IInv, [Next]_vars
  PROVE  ListInv'
<1>. TypeInv /\ PhaseInv /\ ListInv /\ NamesInv
  BY DEF IInv
<1>1. CASE CoCreateInstanceEx \/ FindConnectionPoint \/ Advise
  <2>1. UNCHANGED <<m_pGroupList, object>>
    BY <1>1 DEF CoCreateInstanceEx, FindConnectionPoint, Advise
  <2>. QED
    BY <1>1, <2>1, Moves, HalfBuiltStays, ObjectsLeft
<1>2. CASE \/ ServerTakesSink \/ ServerReleasesSink \/ ShutdownRequest \/ ServerEnds
           \/ UNCHANGED vars
  <2>1. UNCHANGED <<pc, m_pGroupList, object, halfBuilt>>
    BY <1>2 DEF ServerTakesSink, ServerReleasesSink, ShutdownRequest, ServerEnds, Inside, ghosts, vars
  <2>. QED
    BY <2>1 DEF ListInv, ObjectInv, InUse, InMaking, Removed
<1>. QED
  BY <1>1, <1>2, CallKeepsList, AddGroupKeepsList, GroupBuiltKeepsList, GroupNotBuiltKeepsList,
    CallEndsKeepsList, ShutKeepsList, RemoveGroupKeepsList, DisconnectedKeepsList DEF Next

\* A group is found as before, as long as it is in the list and keeps its name.
LEMMA NamesKept ==
  ASSUME TypeInv, [Next]_vars, IInv,
         pc.at \notin {"QueryInterface", "RemoveGroup"}
  PROVE  /\ \A n \in Names : object'[n].named = object[n].named
         /\ UNCHANGED m_pGroupList
         /\ \A n \in Names : GetGroupByName(n)' <=> GetGroupByName(n)
<1>1. UNCHANGED m_pGroupList
  BY DEF At, Next, Call, CoCreateInstanceEx, FindConnectionPoint, Advise, AddGroup, GroupBuilt,
    GroupNotBuilt, CallEnds, SAPI_Shut, Unadvise, RemoveGroup, Disconnected, ServerTakesSink,
    ServerReleasesSink, ShutdownRequest, ServerEnds, Inside, vars
<1>2. ASSUME NEW n \in Names
      PROVE  object'[n].named = object[n].named
  <2>1. CASE UNCHANGED object
    BY <2>1
  <2>2. ASSUME NEW call \in Calls, NEW name \in Names, Call(call, name)
        PROVE  object'[n].named = object[n].named
    <3>. DEFINE c == object[name].m_nRefCount + 1
    <3>1. c \in Nat
      BY DEF TypeInv, GroupObject
    <3>2. object' \in {object, [object EXCEPT ![name].m_nRefCount = c]}
      BY <2>2 DEF Call
    <3>. HIDE DEF c
    <3>3. [object EXCEPT ![name].m_nRefCount = c][n].named = object[n].named
      BY <3>1, CountChanges
    <3>. QED
      BY <3>2, <3>3
  <2>3. CASE AddGroup
    <3>1. pc.name \in Names
      BY <2>3, Counter DEF AddGroup, At, Using
    <3>2. object' \in {object, [object EXCEPT ![pc.name].interfaces = {"pIUnk"}]}
      BY <2>3 DEF AddGroup
    <3>3. {"pIUnk"} \in SUBSET LeftBehind
      BY DEF LeftBehind
    <3>4. [object EXCEPT ![pc.name].interfaces = {"pIUnk"}][n].named = object[n].named
      BY <3>1, <3>3, InterfacesChange
    <3>. QED
      BY <3>2, <3>4
  <2>4. CASE CallEnds
    <3>. DEFINE c == object[pc.name].m_nRefCount - 1
    <3>1. pc.at = "use" /\ pc.name \in Names
      BY <2>4, Counter DEF CallEnds, At, Using
    <3>2. object[pc.name].m_nRefCount \in Nat \ {0}
      BY <3>1 DEF IInv, ListInv, ObjectInv, InUse, One
    <3>3. c \in Nat /\ object' = [object EXCEPT ![pc.name].m_nRefCount = c]
      BY <2>4, <3>2 DEF CallEnds
    <3>. HIDE DEF c
    <3>. QED
      BY <3>1, <3>3, CountChanges
  <2>. QED
    BY <2>1, <2>2, <2>3, <2>4
    DEF At, Next, CoCreateInstanceEx, FindConnectionPoint, Advise, GroupBuilt,
      GroupNotBuilt, SAPI_Shut, Unadvise, RemoveGroup, Disconnected, ServerTakesSink,
      ServerReleasesSink, ShutdownRequest, ServerEnds, Inside, vars
<1>3. ASSUME NEW n \in Names
      PROVE  GetGroupByName(n)' <=> GetGroupByName(n)
  <2>1. object'[n].named = object[n].named
    BY <1>2
  <2>. QED
    BY <1>1, <2>1, Zenon DEF GetGroupByName
<1>. QED
  BY <1>1, <1>2, <1>3

LEMMA GroupBuiltKeepsNames ==
  ASSUME TypeInv, NamesInv, GroupBuilt
  PROVE  NamesInv'
<1>1. pc.at = "QueryInterface" /\ pc.name \in Names /\ pc'.at = "use"
      /\ UNCHANGED <<g_bMainServer, alive, known>>
  BY Counter, CounterMoves DEF GroupBuilt, At, Using, outside
<1>2. Range(m_pGroupList)' = Range(m_pGroupList) \cup {pc.name}
  BY <1>1, Appended DEF GroupBuilt, Listed
<1>3. PICK named \in BOOLEAN :
        /\ object' = [object EXCEPT ![pc.name] =
                       [m_nRefCount |-> 2, interfaces |-> GroupInterfaces, named |-> named]]
        /\ halfBuilt' = IF named THEN halfBuilt ELSE halfBuilt \cup {pc.name}
  BY DEF GroupBuilt
<1>. SUFFICES ASSUME g_bMainServer, alive
     PROVE  /\ Range(m_pGroupList)' \subseteq known
            /\ \A n \in known : GetGroupByName(n)' \/ n \in halfBuilt'
  BY <1>1 DEF NamesInv
<1>4. Range(m_pGroupList) \subseteq known /\ pc.name \in known
      /\ \A n \in known : GetGroupByName(n) \/ n \in halfBuilt \/ InMaking(n)
  BY <1>1 DEF NamesInv
<1>5. ASSUME NEW n \in known
      PROVE  GetGroupByName(n)' \/ n \in halfBuilt'
  <2>0. n \in Names
    BY DEF TypeInv
  <2>1. CASE n = pc.name
    <3>1. object'[n] = [m_nRefCount |-> 2, interfaces |-> GroupInterfaces, named |-> named]
      BY <1>1, <1>3, <2>1 DEF TypeInv
    <3>2. object'[n].named = named
      BY <3>1
    <3>3. named => GetGroupByName(n)'
      BY <1>2, <2>1, <3>2 DEF GetGroupByName
    <3>. QED
      BY <1>3, <2>1, <3>3
  <2>2. CASE n # pc.name
    <3>1. object'[n] = object[n] /\ ~InMaking(n)
      BY <1>1, <1>3, <2>0, <2>2 DEF TypeInv, InMaking
    <3>2. GetGroupByName(n) => GetGroupByName(n)'
      BY <1>2, <3>1 DEF GetGroupByName
    <3>3. n \in halfBuilt => n \in halfBuilt'
      BY <1>3
    <3>. QED
      BY <1>4, <3>1, <3>2, <3>3
  <2>. QED
    BY <2>1, <2>2
<1>. QED
  BY <1>2, <1>4, <1>5

LEMMA GroupNotBuiltKeepsNames ==
  ASSUME TypeInv, ListInv, NamesInv, GroupNotBuilt
  PROVE  NamesInv'
<1>1. pc.at = "QueryInterface" /\ pc.name \in Names /\ pc'.at = "idle"
      /\ UNCHANGED <<g_bMainServer, alive, known, m_pGroupList>>
  BY Counter, Moves DEF GroupNotBuilt, At, Using, outside
<1>2. PICK left \in SUBSET LeftBehind : object' = [object EXCEPT ![pc.name].interfaces = left]
  BY DEF GroupNotBuilt
<1>3. halfBuilt' = halfBuilt \cup {pc.name}
  BY DEF GroupNotBuilt
<1>. SUFFICES ASSUME g_bMainServer, alive
     PROVE  /\ Range(m_pGroupList) \subseteq known
            /\ \A n \in known : GetGroupByName(n)' \/ n \in halfBuilt'
  BY <1>1 DEF NamesInv
<1>4. Range(m_pGroupList) \subseteq known
      /\ \A n \in known : GetGroupByName(n) \/ n \in halfBuilt \/ InMaking(n)
  BY <1>1 DEF NamesInv
<1>5. ASSUME NEW n \in known, n # pc.name
      PROVE  GetGroupByName(n)' \/ n \in halfBuilt'
  <2>1. object'[n] = object[n] /\ ~InMaking(n)
    BY <1>1, <1>2, <1>5 DEF TypeInv, InMaking
  <2>2. GetGroupByName(n) => GetGroupByName(n)'
    BY <1>1, <2>1 DEF GetGroupByName
  <2>. QED
    BY <1>3, <1>4, <2>1, <2>2
<1>. QED
  BY <1>3, <1>4, <1>5

LEMMA NamesStep ==
  ASSUME IInv, [Next]_vars
  PROVE  NamesInv'
<1>. TypeInv /\ PhaseInv /\ FreshInv /\ ListInv /\ NamesInv
  BY DEF IInv
<1>. SUFFICES ASSUME g_bMainServer', alive', pc'.at # "RemoveGroup"
     PROVE  NamesInv'
  BY DEF NamesInv
<1>1. CASE CoCreateInstanceEx \/ FindConnectionPoint \/ Advise
  <2>1. pc.at \in Connecting /\ ~g_bMainServer /\ ~freed /\ UNCHANGED <<known, m_pGroupList>>
        /\ pc'.at # "QueryInterface"
    BY <1>1, Moves DEF CoCreateInstanceEx, FindConnectionPoint, Advise, Connecting, PhaseInv, outside
  <2>. QED
    BY <2>1 DEF FreshInv, NamesInv, Range
<1>2. CASE AddGroup
  <2>1. pc.at = "AddGroup" /\ UNCHANGED <<g_bMainServer, alive, halfBuilt, m_pGroupList>>
    BY <1>2 DEF AddGroup, At, ghosts
  <2>2. \A n \in Names : GetGroupByName(n)' <=> GetGroupByName(n)
    BY <2>1, NamesKept
  <2>3. /\ Range(m_pGroupList) \subseteq known
        /\ \A n \in known : n \in Names /\ (GetGroupByName(n) \/ n \in halfBuilt)
    BY <2>1 DEF NamesInv, TypeInv, InMaking
  <2>4. CASE known' = known \cup {pc.name} /\ GoTo("QueryInterface")
    <3>1. pc'.at = "QueryInterface" /\ pc'.name = pc.name
      BY <2>1, <2>4, CounterMoves DEF Using
    <3>. QED
      BY <2>1, <2>2, <2>3, <2>4, <3>1 DEF NamesInv, InMaking
  <2>5. CASE pc' = Idle /\ UNCHANGED known
    BY <2>1, <2>2, <2>3, <2>5 DEF NamesInv, Idle
  <2>. QED
    BY <1>2, <2>4, <2>5 DEF AddGroup
<1>3. CASE \/ \E call \in Calls, name \in Names : Call(call, name)
           \/ CallEnds \/ SAPI_Shut
  <2>1. pc.at \in {"idle", "use"} /\ pc'.at # "QueryInterface"
        /\ UNCHANGED <<g_bMainServer, alive, known, halfBuilt>>
    BY <1>3, Moves DEF Call, CallEnds, SAPI_Shut, outside, ghosts
  <2>2. UNCHANGED m_pGroupList /\ \A n \in Names : GetGroupByName(n)' <=> GetGroupByName(n)
    BY <2>1, NamesKept
  <2>3. /\ Range(m_pGroupList) \subseteq known
        /\ \A n \in known : n \in Names /\ (GetGroupByName(n) \/ n \in halfBuilt)
    BY <2>1 DEF NamesInv, TypeInv, InMaking
  <2>. QED
    BY <2>1, <2>2, <2>3 DEF NamesInv
<1>4. CASE Unadvise \/ RemoveGroup \/ Disconnected
  BY <1>4, Moves DEF Disconnected
<1>5. CASE \/ ServerTakesSink \/ ServerReleasesSink \/ ShutdownRequest \/ ServerEnds
           \/ UNCHANGED vars
  <2>1. UNCHANGED <<pc, g_bMainServer, alive, known, halfBuilt, m_pGroupList, object>>
    BY <1>5 DEF ServerTakesSink, ServerReleasesSink, ShutdownRequest, ServerEnds, Inside, outside,
      ghosts, vars
  <2>. QED
    BY <2>1 DEF NamesInv, GetGroupByName, InMaking
<1>. QED
  BY <1>1, <1>2, <1>3, <1>4, <1>5, GroupBuiltKeepsNames, GroupNotBuiltKeepsNames DEF Next

-----------------------------------------------------------------------------
(* The theorems                                                            *)

LEMMA InitInv ==
  ASSUME Init
  PROVE  IInv
<1>. USE DEF Init
<1>1. Idle.at = "idle"
  BY DEF Idle
<1>2. NoSink \in Sink /\ NoObject \in GroupObject
  BY DEF NoSink, Sink, NoObject, GroupObject
<1>3. TypeInv
  <2>1. pc \in PcType /\ m_pGroupList \in Seq(Names) /\ sink \in Sink
    BY <1>2 DEF PcType
  <2>2. object \in [Names -> GroupObject]
    BY <1>2
  <2>. QED
    BY <2>1, <2>2 DEF TypeInv
<1>4. PhaseInv /\ HeldInv
  BY <1>1 DEF PhaseInv, HeldInv, Connecting, Using, Closing
<1>5. SinkInv
  BY <1>1 DEF SinkInv, NoSink, One, ConnectionPoint
<1>6. FreshInv /\ NamesInv
  BY <1>1 DEF FreshInv, NamesInv
<1>7. ListInv
  <2>1. DOMAIN m_pGroupList = {} /\ Range(m_pGroupList) = {}
    BY DEF Range
  <2>2. ASSUME NEW n \in Names
        PROVE  ObjectInv(n)
    BY <1>1, <2>1 DEF ObjectInv, NoObject, One, InUse, InMaking
  <2>. QED
    BY <1>1, <2>1, <2>2 DEF ListInv
<1>. QED
  BY <1>3, <1>4, <1>5, <1>6, <1>7 DEF IInv

\* What the rest follows from: each step of the thread and of the server keeps
\* the counts of the sink and the groups, and the two tables of groups, together.
THEOREM Invariance == Spec => []IInv
<1>1. IInv /\ [Next]_vars => IInv'
  BY TypeStep, PhaseStep, HeldStep, SinkStep, FreshStep, ListStep, NamesStep DEF IInv
<1>. QED
  BY InitInv, <1>1, PTL DEF Spec

\* No count of the sink or of a group goes below zero or above the references
\* there can be, and what nobody references is gone (CObject.cpp:20-34).
THEOREM TypeCorrect == Spec => []TypeOK
<1>1. ASSUME IInv
      PROVE  TypeOK
  <2>. TypeInv /\ SinkInv /\ ListInv
    BY <1>1 DEF IInv
  <2>1. sink.m_cRef \in 0 .. 3
    <3>1. One(sink.server) \in {0, 1} /\ One(ConnectionPoint) \in {0, 1} /\ One(pc.at = "Advise") \in {0, 1}
      BY DEF One
    <3>. QED
      BY <3>1 DEF SinkInv
  <2>2. sink.m_pObjShutdown => sink.m_cRef > 0
    BY Zenon DEF SinkInv
  <2>3. ASSUME NEW n \in Names
        PROVE  object[n].m_nRefCount \in 0 .. 2
    BY DEF ListInv, ObjectInv, One
  <2>. QED
    BY <2>1, <2>2, <2>3 DEF TypeInv, TypeOK
<1>. QED
  BY Invariance, <1>1, PTL

\* The COpcServer is not used after SAPI_Shut has deleted it, unless the server
\* has once not taken the sink or not given it back (OPCDAServer.cpp:83, 97).
THEOREM DeletedNotUsed == Spec => []FreedNotUsed
<1>1. IInv => FreedNotUsed
  BY DEF IInv, SinkInv, FreedNotUsed
<1>. QED
  BY Invariance, <1>1, PTL

\* Between calls every reference is held by somebody who will release it, and a
\* DLL that is not connected holds nothing of the server; only a constructor that
\* an exception has ended leaves its interfaces behind.
THEOREM NothingLeaks == Spec => []ReferencesBalance
<1>1. ASSUME IInv, At("idle")
      PROVE  ReferencesBalance
  <2>. pc.at = "idle" /\ HeldInv /\ SinkInv /\ ListInv
    BY <1>1 DEF IInv, At
  <2>1. ASSUME NEW n \in Names
        PROVE  /\ object[n].m_nRefCount = IF n \in Range(m_pGroupList) THEN 1 ELSE 0
               /\ \/ object[n].interfaces = IF n \in Range(m_pGroupList) THEN GroupInterfaces ELSE {}
                  \/ /\ n \notin Range(m_pGroupList) /\ n \in halfBuilt
                     /\ object[n].interfaces = LeftBehind
    BY DEF ListInv, ObjectInv, One, InUse, InMaking, Removed
  <2>2. sink.m_cRef = (IF "IConnectionPoint" \in held THEN 1 ELSE 0) + (IF sink.server THEN 1 ELSE 0)
    <3>1. One(pc.at = "Advise") = 0
      BY DEF One
    <3>2. sink.m_cRef = One(sink.server) + One(ConnectionPoint) + 0
      BY <3>1 DEF SinkInv
    <3>. QED
      BY <3>2 DEF One, ConnectionPoint
  <2>3. ~g_bMainServer => held = {}
    BY DEF HeldInv
  <2>. QED
    BY <2>1, <2>2, <2>3 DEF ReferencesBalance
<1>. QED
  BY Invariance, <1>1, PTL DEF ReferencesBalance

\* As long as the server lives, the DLL finds the groups the server has, all but
\* the one in the making and those a failed call has left half built.
THEOREM TablesTheSame == Spec => []TablesAgree
<1>1. ASSUME IInv
      PROVE  TablesAgree
  <2>. NamesInv /\ PhaseInv
    BY <1>1 DEF IInv
  <2>. QED
    BY DEF NamesInv, PhaseInv, TablesAgree, GetGroupByName, InMaking, At
<1>. QED
  BY Invariance, <1>1, PTL
=============================================================================
