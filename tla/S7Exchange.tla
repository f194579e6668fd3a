------------------------------ MODULE S7Exchange ------------------------------
(***************************************************************************)
(* One read or write of a variable of the PLC by the S7 library SAPI       *)
(* (CConnection::ReadData and WriteData with the CConnection::Read and     *)
(* Write they call, SAPI/CConnection.cpp): the value is converted, and up  *)
(* to three attempts are made to establish the connection, send the        *)
(* request and await its confirmation, each given up when ten seconds have *)
(* passed.  A negative return shuts the library down (SAPIlib.cpp).        *)
(*                                                                         *)
(* The messages come from the S7 driver, which is not in this repository;  *)
(* the code relies on s7_abort to discard what is pending: it looks at no  *)
(* order ID.  When s7_abort fails the code goes on in the same way, and    *)
(* what was under way may still arrive, in this call or in a later one.    *)
(***************************************************************************)
EXTENDS SapiData

CONSTANTS
  Values,        \* by type: the values of the variable in the PLC
  NoValue,       \* the content of a buffer nothing was put in
  AbortMayFail,  \* s7_abort may fail
  MaxQueue       \* bound: the requests, and the messages, that the driver holds

ASSUME ExchangeAssumption ==
  /\ AbortMayFail \in BOOLEAN
  /\ MaxQueue \in Nat \ {0}
  /\ DOMAIN Values \subseteq Types
  /\ \A t \in DOMAIN Values :
       Values[t] # {} /\ Values[t] \subseteq TypeRange(t) /\ NoValue \notin Values[t]

VARIABLES
  pc,            \* "idle", "start" (StartPoint) or "loop" (the receive loop)
  type,          \* the type of the variable
  op,            \* "read" or "write"
  value,         \* the value to write
  iAtt,          \* the attempts that have been made
  nBufLen,       \* the length: the caller's ("full"), 0 ("zero") or -4 ("refused")
  data,          \* the buffer: the bytes to write, or the bytes that were read
  late,          \* ten seconds have passed since the attempt started
  code,          \* what the call has returned, 0 for a length as well
  crashed,       \* the process has died of a copy of -4 bytes
  inbox,         \* the messages s7_receive has not returned yet
  pending,       \* what the PLC has been asked for: requests [op, length, data]
  asked,         \* an initiate request is on its way
  unaborted,     \* the last s7_abort has failed
  stale,         \* history: it had failed when this call began
  memory,        \* the variable in the PLC
  plc            \* what the PLC has done since the call began: the values the
                 \* variable had and was given, whether it has confirmed and refused

callVars == <<pc, type, op, value, iAtt, nBufLen, data, late, code, crashed>>
wireVars == <<inbox, pending, asked, unaborted, stale>>
plcVars  == <<memory, plc>>
vars == <<callVars, wireVars, plcVars>>

Fresh(v) == [values |-> {v}, written |-> {}, confirmed |-> FALSE, refused |-> FALSE]

Init ==
  /\ pc = "idle" /\ op = "read" /\ iAtt = 0 /\ nBufLen = "full"
  /\ data = NoValue /\ late = FALSE /\ code = 0 /\ crashed = FALSE
  /\ inbox = << >> /\ pending = << >> /\ asked = FALSE
  /\ unaborted = FALSE /\ stale = FALSE
  /\ type \in DOMAIN Values /\ value = NoValue
  /\ memory \in Values[type]
  /\ plc = Fresh(memory)

-----------------------------------------------------------------------------
\* The call is made.
BeginCall(o, v) ==
  /\ pc = "idle"
  /\ pc' = "start"
  /\ op' = o
  /\ value' = IF o = "write" THEN v ELSE NoValue
  /\ data' = IF o = "write" THEN ToPlc(type, v) ELSE NoValue
  /\ iAtt' = 0
  /\ nBufLen' = "full"
  /\ plc' = Fresh(memory)
  /\ stale' = unaborted
  /\ UNCHANGED <<type, late, code, crashed, inbox, pending, asked, unaborted, memory>>

\* SAPI_Shut, and s7_abort when it does not fail.
Shut ==
  /\ inbox' = << >>
  /\ pending' = << >>
  /\ asked' = FALSE
  /\ unaborted' = FALSE
  /\ UNCHANGED stale

\* Mutant of Abort: it is left out.
AbortNothing(messages, requests) ==
  inbox' = messages /\ pending' = requests /\ UNCHANGED <<asked, unaborted, stale>>

\* s7_abort, called when these messages and requests are under way.
Abort(messages, requests) ==
  \/ Shut
  \/ /\ AbortMayFail
     /\ inbox' = messages /\ pending' = requests
     /\ unaborted' = TRUE
     /\ UNCHANGED <<asked, stale>>

Return(c) ==
  /\ pc' = "idle"
  /\ code' = c

\* Mutant of AttemptsLeft: the attempts are not counted.
AttemptsUnlimited == TRUE

AttemptsLeft == iAtt < 3

\* ReadData or WriteData does not know the type, or a STRING* has no length.
UnknownType ==
  /\ pc = "idle"
  /\ \/ op' = "read" /\ Return(-1)
     \/ op' = "write" /\ \E c \in {-5, -6} : Return(c)
  /\ iAtt' = 0
  /\ value' = NoValue
  /\ Shut
  /\ UNCHANGED <<type, nBufLen, data, late, crashed, plcVars>>

\* StartPoint: the attempts are used up, or s7_initiate_req is called and may
\* be refused.
StartPoint ==
  /\ pc = "start"
  /\ iAtt' = IF iAtt < 3 THEN iAtt + 1 ELSE iAtt
  /\ \/ ~AttemptsLeft /\ Return(-3) /\ Shut /\ UNCHANGED late
     \/ AttemptsLeft /\ Return(-1) /\ Shut /\ UNCHANGED late
     \/ /\ AttemptsLeft
        /\ pc' = "loop"
        /\ late' = FALSE
        /\ asked' = TRUE
        /\ UNCHANGED <<code, inbox, pending, unaborted, stale>>
  /\ UNCHANGED <<type, op, value, nBufLen, data, crashed, plcVars>>

\* An attempt is late: the connection is aborted and the next one begins, whatever
\* s7_abort returns.  (Mutant of GiveUp: it is not aborted.)
GiveUpOnly(messages, requests) ==
  pc' = "start" /\ inbox' = messages /\ pending' = requests /\ UNCHANGED <<asked, unaborted, stale>>

GiveUp(messages, requests) == pc' = "start" /\ Abort(messages, requests)

\* One turn of the receive loop: no message.
NoMessage ==
  /\ pc = "loop"
  /\ inbox = << >>
  /\ late
  /\ GiveUp(inbox, pending)
  /\ UNCHANGED <<type, op, value, iAtt, nBufLen, data, late, code, crashed, plcVars>>

Request == [op |-> op, length |-> nBufLen, data |-> data]

\* S7_INITIATE_CNF: the request is sent, or s7_read_req or s7_write_req fails,
\* which nobody looks at.  The value is copied with the length nBufLen, and the
\* process dies in a copy of -4 bytes.
InitiateCnf ==
  /\ pc = "loop"
  /\ inbox # << >>
  /\ Head(inbox).kind = "initiate"
  /\ \/ /\ op = "write" /\ nBufLen = "refused"
        /\ crashed' = TRUE
        /\ UNCHANGED <<pc, wireVars>>
     \/ /\ ~(op = "write" /\ nBufLen = "refused")
        /\ \E requests \in {pending} \cup {r \in {Append(pending, Request)} : Len(r) <= MaxQueue} :
             IF late
               THEN GiveUp(Tail(inbox), requests)
               ELSE inbox' = Tail(inbox) /\ pending' = requests /\ UNCHANGED <<pc, asked, unaborted, stale>>
        /\ UNCHANGED crashed
  /\ UNCHANGED <<type, op, value, iAtt, nBufLen, data, late, code, plcVars>>

\* Mutant of NewLength: a refused request is taken for a confirmed one.
NewLengthUnchecked(confirmed) == IF op = "write" THEN "zero" ELSE "full"

\* Mutant of NewLength: the two outcomes are exchanged.
NewLengthSwapped(confirmed) == IF confirmed THEN "refused" ELSE "full"

\* What the confirmation makes of nBufLen.
NewLength(confirmed) ==
  IF ~confirmed THEN "refused" ELSE IF op = "write" THEN "zero" ELSE "full"

\* S7_READ_CNF or S7_WRITE_CNF: the connection is aborted and the call returns,
\* unless the attempt is late.
Confirmation ==
  /\ pc = "loop"
  /\ inbox # << >>
  /\ Head(inbox).kind = op
  /\ nBufLen' = NewLength(Head(inbox).confirmed)
  /\ data' = IF op = "read" /\ Head(inbox).confirmed THEN Head(inbox).data ELSE data
  /\ IF late
       THEN GiveUp(Tail(inbox), pending) /\ UNCHANGED code
       ELSE IF nBufLen' = "refused"
         THEN Return(-4) /\ Shut
         ELSE Return(0) /\ Abort(Tail(inbox), pending)
  /\ UNCHANGED <<type, op, value, iAtt, late, crashed, plcVars>>

\* Any other message.
WrongMessage ==
  /\ pc = "loop"
  /\ inbox # << >>
  /\ Head(inbox).kind \notin {"initiate", op}
  /\ Return(-2)
  /\ Shut
  /\ UNCHANGED <<type, op, value, iAtt, nBufLen, data, late, crashed, plcVars>>

\* time() has advanced ten seconds.
TenSeconds ==
  /\ pc = "loop"
  /\ ~late
  /\ late' = TRUE
  /\ UNCHANGED <<pc, type, op, value, iAtt, nBufLen, data, code, crashed, wireVars, plcVars>>

-----------------------------------------------------------------------------
\* The driver and the PLC.
Message(kind, confirmed, bytes) == [kind |-> kind, confirmed |-> confirmed, data |-> bytes]

Deliver(message) == Len(inbox) < MaxQueue /\ inbox' = Append(inbox, message)

PlcAccepts ==
  /\ asked
  /\ asked' = FALSE
  /\ Deliver(Message("initiate", TRUE, NoValue))
  /\ UNCHANGED <<callVars, pending, unaborted, stale, plcVars>>

\* A write of no bytes changes nothing.
PlcExecutes ==
  /\ pending # << >>
  /\ LET request == Head(pending)
         writes  == request.op = "write" /\ request.length = "full"
     IN  /\ memory' = IF writes THEN PlcValue(type, request.data) ELSE memory
         /\ plc' = [plc EXCEPT !.values = @ \cup {memory'}, !.confirmed = TRUE,
                               !.written = IF writes THEN @ \cup {memory'} ELSE @]
         /\ Deliver(Message(request.op, TRUE, PlcBytes(type, memory')))
  /\ pending' = Tail(pending)
  /\ UNCHANGED <<callVars, asked, unaborted, stale>>

PlcRefuses ==
  /\ pending # << >>
  /\ plc' = [plc EXCEPT !.refused = TRUE]
  /\ Deliver(Message(Head(pending).op, FALSE, NoValue))
  /\ pending' = Tail(pending)
  /\ UNCHANGED <<callVars, asked, unaborted, stale, memory>>

\* The connection breaks.
PlcBreaks ==
  /\ pc = "loop"
  /\ inbox = << >>
  /\ Deliver(Message("abort", FALSE, NoValue))
  /\ asked' = FALSE
  /\ pending' = << >>
  /\ UNCHANGED <<callVars, unaborted, stale, plcVars>>

\* The process the PLC controls changes the variable.
PlcChanges ==
  /\ memory' \in Values[type] \ {memory}
  /\ plc' = [plc EXCEPT !.values = @ \cup {memory'}]
  /\ UNCHANGED <<callVars, wireVars>>

Step == StartPoint \/ NoMessage \/ InitiateCnf \/ Confirmation \/ WrongMessage

Next ==
  /\ ~crashed
  /\ \/ \E o \in {"read", "write"}, v \in Values[type] : BeginCall(o, v)
     \/ UnknownType
     \/ Step
     \/ TenSeconds
     \/ PlcAccepts \/ PlcExecutes \/ PlcRefuses \/ PlcBreaks \/ PlcChanges

Spec == Init /\ [][Next]_vars

\* The thread runs, and time passes: nothing is assumed of the PLC.
Fairness == WF_vars(Step /\ ~crashed) /\ WF_vars(TenSeconds /\ ~crashed)

LiveSpec == Spec /\ Fairness

-----------------------------------------------------------------------------
Buffers == {PlcBytes(type, v) : v \in Values[type]} \cup {NoValue}
Requests == [op : {"read", "write"}, length : {"full", "zero", "refused"},
             data : Buffers]
Messages == [kind : {"initiate", "read", "write", "abort"}, confirmed : BOOLEAN,
             data : Buffers]

\* Every variable has its type; outside the receive loop nothing is under way,
\* unless s7_abort has failed.
TypeOK ==
  /\ pc \in {"idle", "start", "loop"}
  /\ type \in DOMAIN Values
  /\ op \in {"read", "write"}
  /\ value \in Values[type] \cup {NoValue}
  /\ iAtt \in 0 .. 3
  /\ nBufLen \in {"full", "zero", "refused"}
  /\ data \in Buffers
  /\ late \in BOOLEAN /\ crashed \in BOOLEAN /\ asked \in BOOLEAN
  /\ unaborted \in BOOLEAN /\ stale \in BOOLEAN
  /\ code \in -6 .. 0
  /\ inbox \in Seq(Messages) /\ pending \in Seq(Requests)
  /\ pc # "loop" /\ ~unaborted => inbox = << >> /\ pending = << >> /\ ~asked
  /\ memory \in Values[type]
  /\ plc \in [values : SUBSET Values[type], written : SUBSET Values[type], confirmed : BOOLEAN, refused : BOOLEAN]

\* The call has returned, and what it took for its answers were no messages an
\* s7_abort before the call had failed to discard.
Returned(o) == pc = "idle" /\ iAtt > 0 /\ op = o /\ ~stale

\* A write that returns no error has been executed by the PLC in this call, and
\* has given the variable the caller's value, whatever was given up, repeated
\* and confirmed late, and whether or not its own s7_abort fails.
WriteReturnsWritten == Returned("write") /\ code = 0 => value \in plc.written

\* The value of the PLC that a value ReadData returns stands for: a negative
\* INTEGER comes back with 65536 added, for Convert2Int extends it with zeros.
StandsFor(v) == IF type = "INTEGER" /\ v > 32767 THEN v - 65536 ELSE v

\* A read that returns no error returns a value the variable had during this
\* call, not one an earlier call had asked for.
ReadReturnsCurrent ==
  Returned("read") /\ code = 0 => StandsFor(FromPlc(type, data)) \in plc.values

\* The process dies in the copy of the value only if the PLC has refused this
\* write: its late refusal is the length of the next attempt.
CrashNeedsRefusal == crashed /\ ~stale => op = "write" /\ plc.refused

\* Whatever the PLC does or does not do, and whether or not s7_abort fails, a call
\* returns, unless the process dies in the copy of -4 bytes.
CallReturns == pc # "idle" ~> pc = "idle" \/ crashed

\* What CConnection.cpp:272 says when Write returns -3: "Three attempts to write
\* are failed due to time-out".  None has been confirmed.
TimeOutMeansFailed == Returned("write") /\ code = -3 => nBufLen # "zero"
=============================================================================
