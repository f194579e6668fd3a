------------------------------- MODULE SisValues -------------------------------
(***************************************************************************)
(* The values of the parameters: the pool in ds.dll, the lines of a        *)
(* formula that read and write parameters by the calls of OpcS7.dll        *)
(* (SIS/Calculator.cls, LocalRWFDatum and the cases of Calculate), the     *)
(* requests and results of groups (SIS/Declares.bas), and the samples that *)
(* storing a value queues at LEIS (SIS/FDPTR.cls).  A parameter is named   *)
(* by its address, a group of parameters by the list of its members.  The  *)
(* text of a number is the number; a text of <length><text> parts is the   *)
(* sequence of its parts.  A line that raises an error ends the formula.   *)
(***************************************************************************)
EXTENDS OpcGroups

CONSTANTS
  Auto2LEIS,       \* the parameters with a data set: a value that is stored goes to LEIS
  GroupAuto2LEIS,  \* the groups with a data set
  Empty,           \* texts that are no numbers: that of a parameter nobody has set,
  ErrorRead,       \* that of one the server could not read,
  WriteError       \* and that of one it could not write

ASSUME ValuesAssumption ==
  /\ 0 \in Values
  /\ {Empty, ErrorRead, WriteError} \cap Values = {}
  /\ Auto2LEIS \subseteq Addresses

VARIABLES
  pool,            \* by parameter: its value in ds.dll
  line             \* the last line of a formula: its function, the result of its group,
                   \* which nothing modelled here uses later, and what it queued

valueVars == <<pool, line>>

NoLine == [op |-> "none", result |-> <<>>, queued |-> <<>>]

ValuesInit ==
  /\ Init
  /\ pool = [a \in Addresses |-> Empty]
  /\ line = NoLine

\* atol.
\* A bug: the text is passed on.
NumberAsIs(text) == text

NumberOf(text) == IF text \in Values THEN text ELSE 0

-----------------------------------------------------------------------------
(* Groups *)

\* The index of the last member, from 0.
ParseGroup(l) == Len(l) - 1

\* A group of one member gives 0, which is taken for none.
CombineToRead(l) == IF ParseGroup(l) <= 0 THEN <<>> ELSE l

\* SAPI_MRead of an empty request finds no parameter.
NoParameters ==
  /\ Finish("read", <<>>, <<>>, -1)
  /\ UNCHANGED <<g_bInitOK, g_bMainServer, g_bSndServer, alive, groups, plc>>

ReadGroup(l) == IF CombineToRead(l) = <<>> THEN NoParameters ELSE SAPI_MRead(l)

\* GetMReadResult: the identifiers and values of all members, an error text for
\* those that could not be read.
GetMReadResult(request, data) ==
  [k \in DOMAIN data |-> [param |-> request[k].address,
                          value |-> IF data[k] = NoValue THEN ErrorRead ELSE data[k]]]

\* A bug: the loop stops before the last part.
SpreadButLast(result) ==
  [a \in Addresses |->
     LET at == {k \in DOMAIN result : result[k].param = a /\ k < Len(result)}
     IN IF at = {} THEN pool[a] ELSE result[CHOOSE k \in at : TRUE].value]

\* The pool with every part of a result stored under its identifier.
SpreadResuts(result) ==
  [a \in Addresses |->
     LET at == {k \in DOMAIN result : result[k].param = a}
     IN IF at = {} THEN pool[a] ELSE result[CHOOSE k \in at : TRUE].value]

-----------------------------------------------------------------------------
(* Lines of a formula *)

\* Value of FDPTR is set: the sample that is queued.
Queued(a, value) == IF a \in Auto2LEIS THEN <<[param |-> a, value |-> value]>> ELSE <<>>

Done(op, result, queued) == line' = [op |-> op, result |-> result, queued |-> queued]

\* The line raises an error before it stores anything.
Raised(op) == Done(op, <<>>, <<>>) /\ UNCHANGED pool

\* READ stores the value, SREAD only shares it.
READ(op, a) ==
  /\ SAPI_Read(a)
  /\ IF last'.ret < 0 THEN Raised(op)
     ELSE /\ pool' = [pool EXCEPT ![a] = last'.data[1]]
          /\ Done(op, <<>>, IF op = "READ" THEN Queued(a, last'.data[1]) ELSE <<>>)

\* MREAD stores the result: each part is queued, none is shared.
MREAD(l) ==
  /\ ReadGroup(l)
  /\ IF last'.ret < 0 THEN Raised("MREAD")
     ELSE LET result == GetMReadResult(last'.request, last'.data)
          IN /\ Done("MREAD", result, IF l \in GroupAuto2LEIS THEN result ELSE <<>>)
             /\ UNCHANGED pool

\* SMREAD shares the result and each part of it, and stores none.
SMREAD(l) ==
  /\ ReadGroup(l)
  /\ IF last'.ret < 0 THEN Raised("SMREAD")
     ELSE LET result == GetMReadResult(last'.request, last'.data)
          IN /\ pool' = SpreadResuts(result)
             /\ Done("SMREAD", result, <<>>)

\* A value that could not be written is stored as the text of the error, and
\* not shared.
WRITE(a) ==
  /\ SAPI_Write(a, NumberOf(pool[a]))
  /\ Done("WRITE", <<>>, IF last'.ret # 0 THEN Queued(a, WriteError) ELSE <<>>)
  /\ UNCHANGED pool

\* WRITE of a group: the values are those of its address.
WriteGroup(l, v) == SAPI_MWrite(l, v) /\ Raised("SGR WRITE")

\* SET stores and shares the value of another operand, SHARE only shares it.
SET(op, a, value) ==
  /\ pool' = [pool EXCEPT ![a] = value]
  /\ Done(op, <<>>, IF op = "SET" THEN Queued(a, value) ELSE <<>>)
  /\ last' = NoCall
  /\ UNCHANGED <<g_bInitOK, g_bMainServer, g_bSndServer, alive, groups, plc>>

Outside == (SAPI_Shut \/ ServerEnds \/ PlcChanges) /\ Raised("none")

ValuesStep ==
  \/ \E a \in use.reads, op \in {"READ", "SREAD"} : READ(op, a)
  \/ \E l \in use.readLists : MREAD(l)
  \/ \E l \in use.readLists : SMREAD(l)
  \/ \E a \in use.writes : WRITE(a)
  \/ \E l \in use.writeLists : \E v \in [DOMAIN l -> Values] : WriteGroup(l, v)
  \/ \E a \in use.writes, op \in {"SET", "SHARE"} :
       \E value \in Values \cup {pool[b] : b \in Addresses} : SET(op, a, value)
  \/ Outside

ValuesNext == ValuesStep /\ UNCHANGED use

ValuesSpec == ValuesInit /\ [][ValuesNext]_<<vars, valueVars>>

-----------------------------------------------------------------------------
\* The types of the calls' state, and only numbers and read errors are shared:
\* the PLC is never given a text.
ValuesTypeOK ==
  /\ TypeOK
  /\ pool \in [Addresses -> Values \cup {Empty, ErrorRead}]
  /\ \A k \in DOMAIN line.result : line.result[k].value \in Values \cup {ErrorRead}

\* The value of an entry of the last request, a read, is not new: the server has
\* not said whose its answer was, and the item is still to be read, or the item
\* is that of another list's address.
Unread(r) ==
  \E item \in Range(Items(last.name)) :
    item.id = r.id /\ ("ForRead" \in item.status \/ item.address # r.address)

\* After a line that has read, each parameter it shares (each part of a result)
\* is what the PLC holds at the address of that parameter, or the error text if
\* the server could not read that one, or what the item held before, if it is
\* still unread; after a line that has written, what is shared is in the PLC
\* unless the server has refused the item for good or the write was misplaced.
PoolIsPlc ==
  last.ret = 0 =>
    \A k \in DOMAIN last.request :
      LET r == last.request[k]
          value == IF line.op = "MREAD" THEN line.result[k].value ELSE pool[r.address]
      IN /\ last.call = "read" =>
              \/ value = (IF last.data[k] = NoValue THEN ErrorRead ELSE plc[r.address])
              \/ Unread(r) /\ value = last.data[k]
         /\ line.op = "WRITE" =>
              NumberOf(value) = plc[r.address] \/ Refused(r.address) \/ Misplaced(r)

\* What is queued at LEIS for a parameter is what the PLC holds, however many
\* calls have failed before.  The exceptions: a value a formula has set, the
\* error text of a member MREAD could not read, that of a failed WRITE, and the
\* value of an item that is still unread.
HistoryIsPlc ==
  \A k \in DOMAIN line.queued :
    LET sample == line.queued[k]
    IN \/ sample.value = plc[sample.param]
       \/ line.op = "SET"
       \/ line.op = "MREAD" /\ sample.value = ErrorRead
       \/ line.op = "WRITE" /\ sample.value = WriteError /\ last.ret # 0
       \/ line.op \in {"READ", "MREAD"} /\ Unread(last.request[k])
=============================================================================
