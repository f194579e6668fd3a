------------------------------- MODULE OpcServer -------------------------------
(***************************************************************************)
(* OpcS7.dll: the connection to the OPC server and the objects that stand  *)
(* for it (OPCRelease/OPCDAServer.cpp, OPCGroup.cpp, CObject.cpp, driven   *)
(* by GetOPCGroup, ConnectToServer and SAPI_Shut of OpcS7.cpp): who holds  *)
(* which reference, and which groups each side knows.  What the groups     *)
(* hold is in OpcGroups.                                                   *)
(*                                                                         *)
(* The DLL has one thread, but it lives in a COM apartment: while a call   *)
(* to the server is out, calls of the server to the shutdown sink come in. *)
(* So each call to the server is a step of its own, up to the next one.    *)
(* Names, languages and status of the server change nothing here.          *)
(***************************************************************************)
EXTENDS Integers, Sequences, FiniteSets, Functions

CONSTANTS
  Names            \* of the groups that formulas use

ASSUME NamesAssumption == IsFiniteSet(Names)

VARIABLES
  pc,              \* the call the thread is in, and which call to the server is out
  g_bInitOK,       \* from DllMain to SAPI_Shut
  g_bMainServer,   \* connected
  freed,           \* SAPI_Shut has deleted the COpcServer
  held,            \* the interfaces of the server that the DLL holds a reference to
  sink,            \* the sink: its count, what points at it, and who has it
  m_pGroupList,    \* the names of the groups in the list, in the order they were added
  object,          \* by name: the COPCGroup made for it, its count, the interfaces of
                   \* the group it holds, and whether it knows its name
  alive,           \* the process of the server runs
  known,           \* the names of the groups the server has
  unadvised,       \* what Unadvise has returned, or that Advise has failed
  halfBuilt,       \* the groups that could not be built or asked for their state
  touched,         \* freed memory has been used
  crashed          \* an exception that nobody handles has ended the process

outside == <<alive, known>>
ghosts == <<unadvised, halfBuilt, touched>>
vars == <<pc, g_bInitOK, g_bMainServer, freed, held, sink, m_pGroupList, object,
          outside, ghosts, crashed>>

\* SAPI_MWrite is the only call without an exception handler.
Calls == {"SAPI_Read", "SAPI_Write", "SAPI_MRead", "SAPI_MWrite"}

Idle == [at |-> "idle"]
NoSink == [m_cRef |-> 0, m_pObjShutdown |-> FALSE, m_dwAdviseCookie |-> FALSE, server |-> FALSE]
NoObject == [m_nRefCount |-> 0, interfaces |-> {}, named |-> FALSE]

\* DllMain, DLL_PROCESS_ATTACH.
Init ==
  /\ pc = Idle
  /\ g_bInitOK = TRUE
  /\ g_bMainServer = FALSE
  /\ freed = FALSE
  /\ held = {}
  /\ sink = NoSink
  /\ m_pGroupList = <<>>
  /\ object = [n \in Names |-> NoObject]
  /\ alive = FALSE
  /\ known = {}
  /\ unadvised = "no"
  /\ halfBuilt = {}
  /\ touched = FALSE
  /\ crashed = FALSE

At(where) == pc.at = where /\ ~crashed

GoTo(where) == pc' = [pc EXCEPT !.at = where]

-----------------------------------------------------------------------------
(* Objects with a count of references *)

\* A bug: the destructor leaves the pointer in its parent.
ReleaseSinkOnly(s, n) == [s EXCEPT !.m_cRef = @ - n]

\* Release of the sink, n times.  Its destructor resets the pointer in its parent.
ReleaseSink(s, n) ==
  [s EXCEPT !.m_cRef = @ - n, !.m_pObjShutdown = @ /\ s.m_cRef > n]

\* GetGroupByName: a group whose state could not be read is never found.
GetGroupByName(name) == name \in Range(m_pGroupList) /\ object[name].named

GroupInterfaces == {"IUnknown", "IOPCItemMgt", "IOPCSyncIO"}

\* What nobody releases when UploadStatus raises an exception.
LeftBehind == GroupInterfaces \cup {"pIUnk", "IOPCGroupStateMgt"}

-----------------------------------------------------------------------------
(* A call: connect, find the group or add it, use it, release it *)

\* After SAPI_Shut a call returns at once.
Call(call, name) ==
  /\ At("idle")
  /\ pc' = IF ~g_bInitOK THEN Idle
           ELSE [at |-> IF ~g_bMainServer THEN "CoCreateInstanceEx"
                        ELSE IF GetGroupByName(name) THEN "use" ELSE "AddGroup",
                 call |-> call, name |-> name]
  /\ object' = IF g_bInitOK /\ g_bMainServer /\ GetGroupByName(name)
               THEN [object EXCEPT ![name].m_nRefCount = @ + 1] ELSE object
  /\ UNCHANGED <<g_bInitOK, g_bMainServer, freed, held, sink, m_pGroupList, outside,
                 ghosts, crashed>>

\* Connect needs both.
Needed == {"IOPCCommon", "IOPCServer"}

\* A bug: a Connect that fails keeps the container.
KeptContainer(got) == IF Needed \subseteq got THEN got ELSE got \ Needed

\* The interfaces Connect keeps of those it got.
KeptInterfaces(got) == IF Needed \subseteq got THEN got ELSE {}

CoCreateInstanceEx ==
  /\ At("CoCreateInstanceEx")
  /\ \E got \in SUBSET (Needed \cup {"IConnectionPointContainer"}) :
       LET connected == Needed \subseteq got
           point == "IConnectionPointContainer" \in got
       IN /\ held' = KeptInterfaces(got)
          /\ alive' = connected
          /\ g_bMainServer' = (connected /\ ~point)
          /\ IF ~connected THEN pc' = Idle
             ELSE GoTo(IF point THEN "FindConnectionPoint" ELSE "AddGroup")
  /\ UNCHANGED <<g_bInitOK, freed, sink, m_pGroupList, object, known, ghosts, crashed>>

\* A new sink is referenced by m_pObjShutdown and by the IUnknown for Advise.
FindConnectionPoint ==
  /\ At("FindConnectionPoint")
  /\ \/ /\ alive
        /\ held' = held \cup {"IConnectionPoint"}
        /\ sink' = [NoSink EXCEPT !.m_cRef = 2, !.m_pObjShutdown = TRUE]
        /\ GoTo("Advise")
        /\ UNCHANGED g_bMainServer
     \/ /\ held' = held \ {"IConnectionPointContainer"}
        /\ g_bMainServer' = TRUE
        /\ GoTo("AddGroup")
        /\ UNCHANGED sink
  /\ UNCHANGED <<g_bInitOK, freed, m_pGroupList, object, outside, ghosts, crashed>>

\* Connect succeeds without the sink too.
Advise ==
  /\ At("Advise")
  /\ \/ /\ alive /\ sink.server
        /\ sink' = [ReleaseSink(sink, 1) EXCEPT !.m_dwAdviseCookie = TRUE]
        /\ held' = held \ {"IConnectionPointContainer"}
        /\ UNCHANGED unadvised
     \/ /\ sink' = ReleaseSink(sink, 2)
        /\ held' = held \ {"IConnectionPointContainer", "IConnectionPoint"}
        /\ unadvised' = "failed"
  /\ g_bMainServer' = TRUE
  /\ GoTo("AddGroup")
  /\ UNCHANGED <<g_bInitOK, freed, m_pGroupList, object, outside, halfBuilt, touched, crashed>>

\* The server refuses a name it has (OPC_E_DUPLICATENAME), and may refuse any.
AddGroup ==
  /\ At("AddGroup")
  /\ \/ /\ alive /\ pc.name \notin known
        /\ known' = known \cup {pc.name}
        /\ object' = [object EXCEPT ![pc.name].interfaces = {"pIUnk"}]
        /\ GoTo("QueryInterface")
     \/ /\ pc' = Idle
        /\ UNCHANGED <<known, object>>
  /\ UNCHANGED <<g_bInitOK, g_bMainServer, freed, held, sink, m_pGroupList, alive,
                 ghosts, crashed>>

\* The list has a reference and the caller has one.
\* A bug: the new group is not added to the list.
NotListed(list, name) == list

Listed(list, name) == Append(list, name)

\* The constructor has all interfaces; a state it cannot read leaves the group
\* without a name, if the one GetState has not set does no harm.
GroupBuilt ==
  /\ At("QueryInterface")
  /\ alive
  /\ \E named \in BOOLEAN :
       /\ object' = [object EXCEPT ![pc.name] =
                       [m_nRefCount |-> 2, interfaces |-> GroupInterfaces, named |-> named]]
       /\ halfBuilt' = IF named THEN halfBuilt ELSE halfBuilt \cup {pc.name}
  /\ m_pGroupList' = Listed(m_pGroupList, pc.name)
  /\ GoTo("use")
  /\ UNCHANGED <<g_bInitOK, g_bMainServer, freed, held, sink, outside, unadvised, touched,
                 crashed>>

\* The constructor returns early and releases what it has: m_pItems, which the
\* destructor releases, holds what the memory held, an exception or nothing that
\* shows.  Or GetState fails, and the name it has not set is an exception too: it
\* leaves the constructor before anything is released.  The server keeps the group.
GroupNotBuilt ==
  /\ At("QueryInterface")
  /\ \E exception \in BOOLEAN, left \in {{}, LeftBehind} :
       /\ left = LeftBehind => exception
       /\ object' = [object EXCEPT ![pc.name].interfaces = left]
       /\ crashed' = (exception /\ pc.call = "SAPI_MWrite")
  /\ halfBuilt' = halfBuilt \cup {pc.name}
  /\ pc' = Idle
  /\ UNCHANGED <<g_bInitOK, g_bMainServer, freed, held, sink, m_pGroupList, outside,
                 unadvised, touched>>

\* The items are added, read or written, and the caller releases the group.
CallEnds ==
  /\ At("use")
  /\ object' = [object EXCEPT ![pc.name].m_nRefCount = @ - 1]
  /\ pc' = Idle
  /\ UNCHANGED <<g_bInitOK, g_bMainServer, freed, held, sink, m_pGroupList, outside,
                 ghosts, crashed>>

-----------------------------------------------------------------------------
(* SAPI_Shut: Disconnect, delete, and never connect again *)

\* A bug: the sink is released without Unadvise.
AdvisedNever == FALSE

Advised == sink.m_pObjShutdown /\ sink.m_dwAdviseCookie

SAPI_Shut ==
  /\ At("idle")
  /\ pc' = IF ~g_bMainServer THEN Idle
           ELSE [at |-> IF "IConnectionPoint" \in held /\ Advised
                        THEN "Unadvise" ELSE "RemoveGroup", pos |-> 1]
  /\ g_bInitOK' = (g_bInitOK /\ g_bMainServer)
  /\ held' = IF g_bMainServer /\ ~Advised THEN held \ {"IConnectionPoint"} ELSE held
  /\ UNCHANGED <<g_bMainServer, freed, sink, m_pGroupList, object, outside, ghosts, crashed>>

\* A server that returns S_OK has released the sink.
Unadvise ==
  /\ At("Unadvise")
  /\ \/ alive /\ ~sink.server /\ unadvised' = "yes"
     \/ unadvised' = "failed"
  /\ sink' = ReleaseSink(sink, 1)
  /\ held' = held \ {"IConnectionPoint"}
  /\ GoTo("RemoveGroup")
  /\ UNCHANGED <<g_bInitOK, g_bMainServer, freed, m_pGroupList, object, outside,
                 halfBuilt, touched, crashed>>

\* RemoveGroups, one group: Detouch, and the server is told, by a handle that is
\* junk if the state could not be read.
RemoveGroup ==
  /\ At("RemoveGroup")
  /\ pc.pos <= Len(m_pGroupList)
  /\ LET name == m_pGroupList[pc.pos]
     IN /\ object' = [object EXCEPT ![name].interfaces = {}]
        /\ \E gone \in {n \in {name} : alive /\ object[n].named} \cup {""} :
             known' = known \ {gone}
  /\ pc' = [pc EXCEPT !.pos = @ + 1]
  /\ UNCHANGED <<g_bInitOK, g_bMainServer, freed, held, sink, m_pGroupList, alive,
                 ghosts, crashed>>

\* The list is released and releases its groups, then the server.
Disconnected ==
  /\ At("RemoveGroup")
  /\ pc.pos > Len(m_pGroupList)
  /\ object' = [n \in Names |-> IF n \in Range(m_pGroupList)
                                THEN [object[n] EXCEPT !.m_nRefCount = @ - 1] ELSE object[n]]
  /\ m_pGroupList' = <<>>
  /\ held' = held \ Needed
  /\ freed' = TRUE
  /\ g_bMainServer' = FALSE
  /\ g_bInitOK' = FALSE
  /\ pc' = Idle
  /\ UNCHANGED <<sink, outside, ghosts, crashed>>

-----------------------------------------------------------------------------
(* The server *)

Inside == <<pc, g_bInitOK, g_bMainServer, freed, held, m_pGroupList, object, unadvised,
            halfBuilt, crashed>>

\* It takes a reference to the sink while it serves Advise.
ServerTakesSink ==
  /\ At("Advise")
  /\ alive /\ ~sink.server
  /\ sink' = [sink EXCEPT !.m_cRef = @ + 1, !.server = TRUE]
  /\ UNCHANGED <<Inside, outside, touched>>

\* It releases the sink, or COM does when its process has ended.  The destructor
\* writes to the COpcServer the sink was made by.
ServerReleasesSink ==
  /\ ~crashed /\ sink.server
  /\ sink' = [ReleaseSink(sink, 1) EXCEPT !.server = FALSE]
  /\ touched' = (touched \/ (freed /\ sink.m_cRef = 1))
  /\ UNCHANGED <<Inside, outside>>

\* It tells the sink that it will shut down: OnShutdownRequest, which does
\* nothing, is a method of that COpcServer.
ShutdownRequest ==
  /\ ~crashed /\ alive /\ sink.server
  /\ touched' = (touched \/ freed)
  /\ UNCHANGED <<Inside, sink, outside>>

ServerEnds ==
  /\ ~crashed /\ alive
  /\ alive' = FALSE
  /\ known' = {}
  /\ UNCHANGED <<Inside, sink, touched>>

Next ==
  \/ \E call \in Calls, name \in Names : Call(call, name)
  \/ CoCreateInstanceEx
  \/ FindConnectionPoint
  \/ Advise
  \/ AddGroup
  \/ GroupBuilt
  \/ GroupNotBuilt
  \/ CallEnds
  \/ SAPI_Shut
  \/ Unadvise
  \/ RemoveGroup
  \/ Disconnected
  \/ ServerTakesSink
  \/ ServerReleasesSink
  \/ ShutdownRequest
  \/ ServerEnds

Spec == Init /\ [][Next]_vars

-----------------------------------------------------------------------------
\* Every count is at least zero, and a sink or a group nobody references is gone:
\* no pointer to it is left.
TypeOK ==
  /\ \A f \in {g_bInitOK, g_bMainServer, freed, alive, touched, crashed} : f \in BOOLEAN
  /\ sink.m_cRef \in 0 .. 3
  /\ sink.m_pObjShutdown => sink.m_cRef > 0
  /\ m_pGroupList \in Seq(Names)
  /\ \A n \in Names : object[n].m_nRefCount \in 0 .. 2
  /\ known \subseteq Names /\ halfBuilt \subseteq Names
  /\ unadvised \in {"no", "yes", "failed"}

\* The COpcServer is not used after SAPI_Shut has deleted it, unless the server
\* could not take the sink or give it back: the sink points at the COpcServer,
\* and a server that has kept it may call or release it later (OPCDAServer.cpp:83,
\* 97).
FreedNotUsed == touched => unadvised = "failed"

\* Between calls every group of the list is referenced by the list alone, and
\* the sink by m_pObjShutdown and the server; not connected, the DLL holds
\* nothing of the server, whichever interface Connect could not get.  Only a
\* GetState that fails can leave interfaces of a group behind, all it had at once
\* (OPCGroup.cpp:69-79).
ReferencesBalance ==
  At("idle") =>
    /\ \A n \in Names :
         LET here == n \in Range(m_pGroupList)
         IN /\ object[n].m_nRefCount = IF here THEN 1 ELSE 0
            /\ \/ object[n].interfaces = IF here THEN GroupInterfaces ELSE {}
               \/ ~here /\ n \in halfBuilt /\ object[n].interfaces = LeftBehind
    /\ sink.m_cRef = (IF "IConnectionPoint" \in held THEN 1 ELSE 0) + (IF sink.server THEN 1 ELSE 0)
    /\ ~g_bMainServer => held = {}

\* While the DLL is connected, the groups the server has and those
\* GetGroupByName finds are the same, but for one that is just being made and
\* those that were left half built: their names are taken for good, and every
\* later call that needs one fails (OPCGroup.cpp:12, 36).
TablesAgree ==
  g_bMainServer /\ alive /\ pc.at # "RemoveGroup" =>
    /\ \A n \in known : GetGroupByName(n) \/ n \in halfBuilt \/ (At("QueryInterface") /\ pc.name = n)
    /\ \A n \in Names : GetGroupByName(n) => n \in known
=============================================================================
