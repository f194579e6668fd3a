------------------------------- MODULE OpcGroups -------------------------------
(***************************************************************************)
(* OpcS7.dll: the calls SAPI_Read, SAPI_Write, SAPI_MRead, SAPI_MWrite and *)
(* SAPI_Shut (OpcS7/OpcS7.cpp, EdpsParams.cpp), the groups they keep on    *)
(* the OPC server, and the items of a group with their states              *)
(* (OPCRelease/OPCGroup.cpp, OPCItems.cpp).  The caller is the one thread  *)
(* of SIS, so a call is a step; what the server answers to each request in *)
(* it is a choice.                                                         *)
(***************************************************************************)
EXTENDS Integers, Sequences, FiniteSets, Functions

CONSTANTS
  Addresses,       \* item addresses: connection and variable
  Values,          \* what a PLC variable can hold
  NoValue,         \* no value, an empty VARIANT
  ParID,           \* by address: the parameter that is read from it
  Uses,            \* what formulas may use: the addresses they read alone and those
                   \* they write alone, the lists they read and write as a group
  ListHash,        \* by list: the hash of the addresses in the name of its group
  JunkHandles,     \* what a server handle nobody has assigned may be
  EmergencyNode    \* a second server is configured, and it is up

ASSUME OpcAssumption ==
  /\ Uses \subseteq [reads : SUBSET Addresses, writes : SUBSET Addresses,
                     readLists : SUBSET Seq(Addresses), writeLists : SUBSET Seq(Addresses)]
  /\ ParID \in [Addresses -> Nat \ {0}]
  /\ \A a, b \in Addresses : ParID[a] = ParID[b] => a = b
  /\ \A u \in Uses : \A l \in u.readLists \cup u.writeLists :
       l # <<>> /\ \A i, j \in DOMAIN l : l[i] = l[j] => i = j
  /\ EmergencyNode \in BOOLEAN
  /\ JunkHandles \subseteq Int
  /\ NoValue \notin Values

\* m_hServer of an item the server has refused.
NoHandle == 0

\* The groups of the single items.
ReadGp == <<"EDPS.ReadGp">>
WriteGp == <<"EDPS.WriteGp">>

\* The name of the group of a list: the identifiers of its items and the hash of
\* their addresses.  The items of a group that is read have the identifiers of
\* the parameters, those of a group that is written are numbered.
ReadName(l) == <<[k \in DOMAIN l |-> ParID[l[k]]], ListHash[l]>>
WriteName(l) == <<[k \in DOMAIN l |-> k], ListHash[l]>>

VARIABLES
  use,             \* what the loaded formulas use
  g_bInitOK,       \* until SAPI_Shut
  g_bMainServer,   \* connected to the local server
  g_bSndServer,    \* connected to the second server
  alive,           \* the server process we are connected to still runs
  groups,          \* by name: the items of the group, in the order they were added
  plc,             \* by address: what the PLC holds
  last             \* the last call: its group, what it asked for and what it returned

vars == <<use, g_bInitOK, g_bMainServer, g_bSndServer, alive, groups, plc, last>>

NoCall == [call |-> "none", name |-> <<>>, request |-> <<>>, ret |-> 0, data |-> <<>>]

Init ==
  /\ use \in Uses
  /\ g_bInitOK = TRUE
  /\ g_bMainServer = FALSE
  /\ g_bSndServer = FALSE
  /\ alive = TRUE
  /\ groups = <<>>
  /\ plc \in [Addresses -> Values]
  /\ last = NoCall

-----------------------------------------------------------------------------
(* Items *)

\* m_hServer keeps what the memory held.
NewItem(r, junk) ==
  [id |-> r.id, address |-> r.address, status |-> {"New"}, handle |-> junk,
   good |-> FALSE, value |-> NoValue]

Valid(item) == "Invalid" \notin item.status

Known(item) == item.status \cap {"New", "Invalid"} = {}

\* The handles the server knows of a group.
Registered(g) == {g[k].handle : k \in {j \in DOMAIN g : Known(g[j])}}

\* The answer to an item is stored: its handle, here its own number, or that
\* it cannot be used.
SetNewItemRes(item, accepted) ==
  IF accepted THEN [item EXCEPT !.handle = item.id, !.status = @ \ {"New"}]
              ELSE [item EXCEPT !.handle = NoHandle, !.status = {"Invalid"}]

\* The outcomes of AddItems.  If the server refuses the whole call the items
\* stay new.
AddItems(g) ==
  LET new == {k \in DOMAIN g : "New" \in g[k].status}
      Stored(accepted) ==
        [k \in DOMAIN g |-> IF k \in new THEN SetNewItemRes(g[k], k \in accepted) ELSE g[k]]
  IN IF new = {} THEN {[items |-> g, hr |-> "S_FALSE"]}
     ELSE {[items |-> Stored(accepted), hr |-> IF accepted = new THEN "S_OK" ELSE "S_FALSE"] :
             accepted \in (IF alive THEN SUBSET new ELSE {})}
          \cup {[items |-> g, hr |-> "FAILED"]}

First(S) == CHOOSE k \in S : \A j \in S : k <= j

\* The loops of SetReadValue and SetWriteResult go through the list once, and
\* through the answers, in the order of the positions asked for, only when an
\* item has the key of the next one: the position whose answer each item gets,
\* 0 for none.
AnswerOf(keys, asked) ==
  LET left[k \in {0} \cup DOMAIN keys] ==
        IF k = 0 THEN DOMAIN asked
        ELSE IF left[k - 1] # {} /\ keys[k] = asked[First(left[k - 1])]
        THEN left[k - 1] \ {First(left[k - 1])} ELSE left[k - 1]
  IN [k \in DOMAIN keys |-> IF left[k] = left[k - 1] THEN 0 ELSE First(left[k - 1])]

ItemOf(g, id) == CHOOSE item \in Range(g) : item.id = id

\* What the server says of a handle: the item that has it and its value, with
\* good quality or not, or that it could not be read, with the item's client
\* handle or without.
StateOf(g, h, answer) ==
  LET known == h \in Registered(g)
  IN [client |-> IF known /\ answer # "silent" THEN h ELSE NoHandle,
      good |-> known /\ answer = "good",
      value |-> IF known THEN plc[ItemOf(g, h).address] ELSE NoValue]

IDs(g) == [k \in DOMAIN g |-> g[k].id]

\* A bug: an item that could not be read keeps its state.
SetReadValueKept(g, states) ==
  LET answer == AnswerOf(IDs(g), [n \in DOMAIN states |-> states[n].client])
  IN [k \in DOMAIN g |->
        IF answer[k] = 0 THEN g[k]
        ELSE IF ~states[answer[k]].good THEN [g[k] EXCEPT !.status = @ \ {"ForRead"}]
        ELSE [g[k] EXCEPT !.status = @ \ {"ForRead"}, !.good = TRUE,
                          !.value = states[answer[k]].value]]

SetReadValue(g, states) ==
  LET answer == AnswerOf(IDs(g), [n \in DOMAIN states |-> states[n].client])
  IN [k \in DOMAIN g |->
        IF answer[k] = 0 THEN g[k]
        ELSE [g[k] EXCEPT !.status = @ \ {"ForRead"},
                          !.good = states[answer[k]].good,
                          !.value = states[answer[k]].value]]

GetItems2Read(g) == {k \in DOMAIN g : Valid(g[k]) /\ "ForRead" \in g[k].status}

\* The outcomes of ReadItems.  If the server refuses the whole call there are
\* no states, and looking at the first one raises an exception.
ReadItems(g) ==
  LET asked == GetItems2Read(g)
      States(answers) == [n \in asked |-> StateOf(g, g[n].handle, answers[n])]
  IN IF asked = {} THEN {[items |-> g, raised |-> FALSE]}
     ELSE {[items |-> g, raised |-> TRUE]}
          \cup {[items |-> SetReadValue(g, States(answers)), raised |-> FALSE] :
                  answers \in (IF alive THEN [asked -> {"good", "bad", "fail", "silent"}] ELSE {})}

\* A bug: the items stay chosen.
SetWriteResultNothing(g, handles) == g

SetWriteResult(g, handles) ==
  LET answer == AnswerOf([k \in DOMAIN g |-> g[k].handle], handles)
  IN [k \in DOMAIN g |->
        IF answer[k] = 0 THEN g[k] ELSE [g[k] EXCEPT !.status = @ \ {"ForWrite"}]]

GetItems2Write(g) == {k \in DOMAIN g : Valid(g[k]) /\ "ForWrite" \in g[k].status}

\* The PLC after the server has written the positions done of the group.
Written(g, done) ==
  [a \in Addresses |->
     LET at == {k \in done : \E item \in Range(g) : item.id = g[k].handle /\ item.address = a}
     IN IF at = {} THEN plc[a] ELSE g[CHOOSE k \in at : \A j \in at : j <= k].value]

\* The outcomes of WriteItems.
WriteItems(g) ==
  LET asked == GetItems2Write(g)
      known == {k \in asked : g[k].handle \in Registered(g)}
      items == SetWriteResult(g, [k \in asked |-> g[k].handle])
  IN IF asked = {} THEN {[items |-> g, hr |-> "S_FALSE", plc |-> plc]}
     ELSE {[items |-> items, hr |-> "FAILED", plc |-> plc]}
          \cup {[items |-> items,
                 hr |-> IF done = asked THEN "S_OK" ELSE "S_FALSE",
                 plc |-> Written(g, done)] : done \in (IF alive THEN SUBSET known ELSE {})}

-----------------------------------------------------------------------------
(* Groups *)

\* g_bInitOK holds whenever this is called, so the second server is never tried.
ConnectToServer ==
  IF g_bMainServer THEN UNCHANGED <<g_bMainServer, g_bSndServer>>
  ELSE /\ g_bMainServer' \in BOOLEAN
       /\ g_bSndServer' = (g_bSndServer \/ (~g_bInitOK /\ EmergencyNode))

Items(name) == IF name \in DOMAIN groups THEN groups[name] ELSE <<>>

\* The group of that name is there, or the server has added it, or not.
GetOPCGroup(name, found) ==
  \/ /\ ~g_bInitOK
     /\ ~found
     /\ UNCHANGED <<g_bMainServer, g_bSndServer>>
  \/ /\ g_bInitOK
     /\ ConnectToServer
     /\ found => g_bMainServer' /\ (name \in DOMAIN groups \/ alive)
     /\ g_bMainServer' /\ name \in DOMAIN groups => found

SetItems(name, items) ==
  groups' = [n \in DOMAIN groups \cup {name} |-> IF n = name THEN items ELSE groups[n]]

\* The items of a request are found in the group or added to it.
FindOrAddItems(g, request, junk) ==
  LET after[k \in 0 .. Len(request)] ==
        IF k = 0 THEN g
        ELSE IF \E item \in Range(after[k - 1]) : item.id = request[k].id THEN after[k - 1]
        ELSE Append(after[k - 1], NewItem(request[k], junk))
  IN after[Len(request)]

\* The outcomes of it.  A single item that is there but invalid is asked for
\* again, though AddItems passes over it, and nothing but success will do for it.
Prepare(g, request, single) ==
  IF \/ \E r \in Range(request) : \A item \in Range(g) : item.id # r.id
     \/ single /\ ~Valid(ItemOf(g, request[1].id))
  THEN {[items |-> o.items, ok |-> o.hr # "FAILED" /\ (single => o.hr = "S_OK")] :
          o \in UNION {AddItems(FindOrAddItems(g, request, junk)) : junk \in JunkHandles}}
  ELSE {[items |-> g, ok |-> TRUE]}

Requested(request) == {request[k].id : k \in DOMAIN request}

InitReading(g, request) ==
  [k \in DOMAIN g |-> IF g[k].id \in Requested(request)
                      THEN [g[k] EXCEPT !.status = @ \cup {"ForRead"}] ELSE g[k]]

\* A bug: an item that has a value keeps it.
InitWritingOnce(g, request) ==
  [k \in DOMAIN g |->
     IF g[k].id \in Requested(request)
     THEN [g[k] EXCEPT !.status = @ \cup {"ForWrite"},
                       !.value = IF @ # NoValue THEN @
                                 ELSE (CHOOSE r \in Range(request) : r.id = g[k].id).value]
     ELSE g[k]]

InitWriting(g, request) ==
  [k \in DOMAIN g |->
     IF g[k].id \in Requested(request)
     THEN [g[k] EXCEPT !.status = @ \cup {"ForWrite"},
                       !.value = (CHOOSE r \in Range(request) : r.id = g[k].id).value]
     ELSE g[k]]

\* The identifier of the item of an address in a group of single items.
SingleID(g, a) ==
  IF \E item \in Range(g) : item.address = a
  THEN (CHOOSE item \in Range(g) : item.address = a).id ELSE Len(g) + 1

-----------------------------------------------------------------------------
(* Calls *)

Finish(call, name, request, ret) ==
  last' = [NoCall EXCEPT !.call = call, !.name = name, !.request = request, !.ret = ret]

\* The values of a request that have been read with good quality.
Results(g, request) ==
  [k \in DOMAIN request |->
     LET item == ItemOf(g, request[k].id) IN IF item.good THEN item.value ELSE NoValue]

AnyGood(data) == \E k \in DOMAIN data : data[k] # NoValue

ReadCall(call, name, request, single) ==
  \E found \in BOOLEAN :
    /\ GetOPCGroup(name, found)
    /\ UNCHANGED <<g_bInitOK, alive, plc>>
    /\ \/ /\ ~found
          /\ UNCHANGED groups
          /\ Finish(call, name, request, IF single THEN -1 ELSE -2)
       \/ /\ found
          /\ \E p \in Prepare(Items(name), request, single) :
               \/ /\ ~p.ok
                  /\ SetItems(name, p.items)
                  /\ Finish(call, name, request, -4)
               \/ /\ p.ok
                  /\ LET g == InitReading(p.items, request)
                     IN \E o \in ReadItems(g) :
                          LET data == Results(o.items, request)
                          IN /\ SetItems(name, o.items)
                             /\ last' = [call |-> call, name |-> name, request |-> request,
                                         ret |-> IF o.raised THEN -10
                                                 ELSE IF AnyGood(data) THEN 0
                                                 ELSE IF single THEN -5 ELSE -6,
                                         data |-> IF ~o.raised /\ AnyGood(data)
                                                  THEN data ELSE <<>>]

WriteCall(call, name, request, single) ==
  \E found \in BOOLEAN :
    /\ GetOPCGroup(name, found)
    /\ UNCHANGED <<g_bInitOK, alive>>
    /\ \/ /\ ~found
          /\ UNCHANGED <<groups, plc>>
          /\ Finish(call, name, request, IF single THEN -1 ELSE -2)
       \/ /\ found
          /\ \E p \in Prepare(Items(name), request, single) :
               \/ /\ ~p.ok
                  /\ SetItems(name, p.items)
                  /\ UNCHANGED plc
                  /\ Finish(call, name, request, -4)
               \/ /\ p.ok
                  /\ LET g == InitWriting(p.items, request)
                     IN \E o \in WriteItems(g) :
                          /\ SetItems(name, o.items)
                          /\ plc' = o.plc
                          /\ last' = [NoCall EXCEPT
                                       !.call = call, !.name = name, !.request = request,
                                       !.ret = IF o.hr = "S_OK" THEN 0
                                               ELSE IF o.hr = "FAILED" /\ ~single THEN -5
                                               ELSE -6]

ReadRequest(id, a) == [id |-> id, address |-> a, value |-> NoValue]
WriteRequest(id, a, v) == [id |-> id, address |-> a, value |-> v]

SAPI_Read(a) ==
  ReadCall("read", ReadGp, <<ReadRequest(SingleID(Items(ReadGp), a), a)>>, TRUE)

SAPI_Write(a, v) ==
  WriteCall("write", WriteGp,
            <<WriteRequest(SingleID(Items(WriteGp), a), a, v)>>, TRUE)

SAPI_MRead(l) ==
  ReadCall("read", ReadName(l), [k \in DOMAIN l |-> ReadRequest(ParID[l[k]], l[k])], FALSE)

SAPI_MWrite(l, v) ==
  WriteCall("write", WriteName(l), [k \in DOMAIN l |-> WriteRequest(k, l[k], v[k])], FALSE)

SAPI_Shut ==
  /\ g_bInitOK' = FALSE
  /\ g_bMainServer' = FALSE
  /\ g_bSndServer' = FALSE
  /\ groups' = <<>>
  /\ last' = NoCall
  /\ UNCHANGED <<alive, plc>>

\* The server process ends.  What it says before (OnShutdownRequest) is not
\* looked at, so the connection is never made again.
ServerEnds ==
  /\ g_bMainServer /\ alive
  /\ alive' = FALSE
  /\ last' = NoCall
  /\ UNCHANGED <<g_bInitOK, g_bMainServer, g_bSndServer, groups, plc>>

PlcChanges ==
  /\ \E a \in Addresses : \E v \in Values \ {plc[a]} : plc' = [plc EXCEPT ![a] = v]
  /\ last' = NoCall
  /\ UNCHANGED <<g_bInitOK, g_bMainServer, g_bSndServer, alive, groups>>

Step ==
  \/ \E a \in use.reads : SAPI_Read(a)
  \/ \E a \in use.writes, v \in Values : SAPI_Write(a, v)
  \/ \E l \in use.readLists : SAPI_MRead(l)
  \/ \E l \in use.writeLists : \E v \in [DOMAIN l -> Values] : SAPI_MWrite(l, v)
  \/ SAPI_Shut
  \/ ServerEnds
  \/ PlcChanges

Next == Step /\ UNCHANGED use

Spec == Init /\ [][Next]_vars

-----------------------------------------------------------------------------
Flags == {"New", "ForRead", "ForWrite", "Invalid"}

\* Every item of a group has one identifier and one address, and the flags go
\* together: an item the server has refused has no handle.
TypeOK ==
  /\ g_bInitOK \in BOOLEAN /\ g_bMainServer \in BOOLEAN /\ g_bSndServer \in BOOLEAN
  /\ alive \in BOOLEAN
  /\ plc \in [Addresses -> Values]
  /\ \A name \in DOMAIN groups : \A k, j \in DOMAIN groups[name] :
       LET item == groups[name][k]
       IN /\ item.status \subseteq Flags /\ item.address \in Addresses
          /\ "Invalid" \in item.status => item.handle = NoHandle
          /\ item.id = groups[name][j].id => k = j

WrittenRequest(r) == plc[r.address] = r.value

Refused(a) ==
  \E g \in Range(groups) : \E item \in Range(g) : item.address = a /\ ~Valid(item)

\* A write call that returns 0 has written each value to its address unless the
\* server has refused the item for good: the trace of the other case says "Not
\* all member of Group was written" (OpcS7.cpp:325).
WrittenOrRefused ==
  last.call = "write" /\ last.ret = 0 =>
    \A r \in Range(last.request) : WrittenRequest(r) \/ Refused(r.address)

\* The item that stands for an entry of the last request has another address:
\* the group was made for another list, whose name has the same hash.
OtherItem(r) ==
  \E item \in Range(Items(last.name)) : item.id = r.id /\ item.address # r.address

\* An item the server does not know yet, whose handle, never assigned, is by
\* chance that of another item of the group.
SharesHandle(item, other) ==
  "New" \in item.status /\ Known(other) /\ item.handle = other.handle

\* The value of an entry of the last request went to another item, or that of
\* another entry came after it to the same item.
Misplaced(r) ==
  \/ OtherItem(r)
  \/ \E item, other \in Range(Items(last.name)) :
       SharesHandle(item, other) /\ (item.id = r.id \/ other.address = r.address)

\* What the code does promise of a write call that returns 0: the value is in
\* the PLC unless the server has refused the item for good or one of the two
\* mistakes above has been made, both of which the call does not notice.
ConfirmedIsWritten ==
  last.call = "write" /\ last.ret = 0 =>
    \A r \in Range(last.request) :
      WrittenRequest(r) \/ Refused(r.address) \/ Misplaced(r)

\* An item that an earlier call has left chosen.  It was chosen while the server
\* did not know it, and another item with the same handle was reset instead.
\* The server does not know it yet, or has added it in an AddItems that refused
\* another item of the group, so that the call went no further.
LeftChosen(a) ==
  \E g \in Range(groups) : \E item \in Range(g) :
    /\ item.address = a /\ Valid(item) /\ "ForWrite" \in item.status
    /\ "New" \in item.status \/ \E other \in Range(g) : ~Valid(other)

\* The value an address has now was meant for another: the mistakes of Misplaced.
Misdirected(a) ==
  \E item \in Range(Items(last.name)) :
    /\ item.value = plc[a]
    /\ \/ item.address = a
          /\ \E r \in Range(last.request) : r.id = item.id /\ r.address # a
       \/ \E other \in Range(Items(last.name)) :
            SharesHandle(item, other) /\ other.address = a

\* A call changes no address but those it was asked to write: a value an
\* earlier call could not write is not written later.  The exceptions are an item
\* whose AddItems was refused as a whole and which was written all the same, and
\* an address that was mistaken for that of an item of the request.
OnlyAskedWritten ==
  [][\A a \in Addresses :
       plc'[a] # plc[a] /\ last' # NoCall =>
         \/ \E k \in DOMAIN last'.request :
              last'.request[k].address = a /\ last'.request[k].value = plc'[a]
         \/ LeftChosen(a)
         \/ Misdirected(a)']_vars
=============================================================================
