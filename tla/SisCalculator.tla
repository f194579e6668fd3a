---------------------------- MODULE SisCalculator ----------------------------
(***************************************************************************)
(* cCalculator (SIS/Calculator.cls).  Its timer event takes one formula    *)
(* from ToCalculate, takes the mutex "MUTEX_<CalculatorID>" and runs the   *)
(* formula line by line (Calculate).  A line that reads or writes a PLC    *)
(* item (OPC server) or stores a value (LEIS) makes an out-of-process call *)
(* and the thread dispatches messages until the reply is there.            *)
(***************************************************************************)
EXTENDS SisHost

CONSTANTS
  Lines          \* tblOperation: for each formula with operations the sequence
                 \* of its lines, records [code, to, saved]: the kind of
                 \* operation, the line a jump names, and whether the value
                 \* written has a data set name (IsAuto2LEIS)

\* The operations, by what they do to other components: "SET" stands for all
\* that assign the Value of a parameter, "IF" for all jumps, "SHARE" for those
\* that touch no other component, "WRITE" and the four reads for themselves.
Codes == {"SHARE", "IF", "SET", "READ", "SREAD", "MREAD", "SMREAD", "WRITE"}

Formulas == DOMAIN Lines

ASSUME LinesAssumption ==
  /\ Formulas \subseteq Nat \ {0}
  /\ Lines \in [Formulas -> Seq([code : Codes, to : Nat, saved : BOOLEAN])]

VARIABLES
  calcPc,        \* where the timer event of calculator c is: "idle", "wait"
                 \* (for its mutex), "line", "plc" or "leis" (in a call),
                 \* "failing" (in a call to LEIS that stores an error text)
  request,       \* the formula calculator c has taken
  iCurrent,      \* the line it has reached
  calcTimer,     \* tmrScheduler.Enabled: all calculators use the timer of the
                 \* one default instance of frmCalcTimer
  mfdptr,        \* the global MFDPTR is set
  owner          \* who owns the mutex of calculator c: "none", "sis", "edps"

calcVars == <<calcPc, request, iCurrent, calcTimer, mfdptr, owner>>

CalcInit ==
  /\ calcPc = [c \in Calculators |-> "idle"]
  /\ request = [c \in Calculators |-> 0]
  /\ iCurrent = [c \in Calculators |-> 0]
  /\ calcTimer = FALSE
  /\ mfdptr = FALSE
  /\ owner = [c \in Calculators |-> "none"]

\* vFormulas of calculator c.  EDPSRun adds the formulas to the first one only.
vFormulas(c) == IF c = 1 THEN Formulas ELSE {}

\* StartProcessing walks over vFormulas and skips an index without formula
\* only if the one before it has a formula; any other gap is error 91.
CrossReferenceOK(c) ==
  \A f \in vFormulas(c) : \A i \in 1 .. f :
    i \notin vFormulas(c) => i - 1 \in vFormulas(c)

\* The look-up of formula f dereferences every index up to it.
LookupFails(c, f) ==
  \E i \in 1 .. f : i \notin vFormulas(c) /\ \E g \in vFormulas(c) : i < g

Calculating(c) == calcPc[c] \in {"line", "plc", "leis", "failing"}

Op(c) == Lines[request[c]][iCurrent[c]]

-----------------------------------------------------------------------------
\* The timer event finds a request: an index without formula ends the process.
CalculatorTimer(c) ==
  /\ calcTimer
  /\ c \notin Active
  /\ queue # << >>
  /\ queue' = Tail(queue)
  /\ request' = [request EXCEPT ![c] = Head(queue)]
  /\ IF LookupFails(c, Head(queue))
       THEN alive' = FALSE /\ UNCHANGED <<stack, calcPc>>
       ELSE /\ Enter(c)
            /\ calcPc' = [calcPc EXCEPT ![c] = "wait"]
            /\ UNCHANGED alive
  /\ UNCHANGED <<iCurrent, calcTimer, mfdptr, owner>>

\* WaitForSingleObject(lMutex, MutexTimeOut) returns: with the mutex, and the
\* calculation begins (a formula the look-up did not find ends the process in
\* the error handler of Calculate), or with a time-out, and the timer is off.
MutexWait(c) ==
  /\ Executes(c)
  /\ calcPc[c] = "wait"
  /\ IF owner[c] = "none"
       THEN /\ owner' = [owner EXCEPT ![c] = "sis"]
            /\ alive' = (request[c] \in vFormulas(c))
            /\ calcPc' = [calcPc EXCEPT ![c] = "line"]
            /\ iCurrent' = [iCurrent EXCEPT ![c] = 1]
            /\ UNCHANGED <<stack, calcTimer>>
       ELSE /\ calcTimer' = FALSE
            /\ calcPc' = [calcPc EXCEPT ![c] = "idle"]
            /\ Leave
            /\ UNCHANGED <<owner, alive, iCurrent>>
  /\ UNCHANGED <<queue, request, mfdptr>>

\* Mutant of Return: the mutex is not released.
ReturnKeepsMutex(c) ==
  /\ calcPc' = [calcPc EXCEPT ![c] = "idle"]
  /\ Leave
  /\ UNCHANGED <<iCurrent, owner>>

\* Calculate returns, at its end or through its error handler, the mutex is
\* released and the event is over.
Return(c) ==
  /\ calcPc' = [calcPc EXCEPT ![c] = "idle"]
  /\ owner' = [owner EXCEPT ![c] = "none"]
  /\ Leave
  /\ UNCHANGED iCurrent

NextLine(c) ==
  /\ calcPc' = [calcPc EXCEPT ![c] = "line"]
  /\ iCurrent' = [iCurrent EXCEPT ![c] = @ + 1]
  /\ UNCHANGED <<stack, owner>>

Call(c, where) ==
  /\ calcPc' = [calcPc EXCEPT ![c] = where]
  /\ UNCHANGED <<stack, owner, iCurrent>>

\* Store a value: the setter of cFDPTR.Value writes it to LEIS if it is saved.
Store(c) == IF Op(c).saved THEN Call(c, "leis") ELSE NextLine(c)

\* The line at iCurrent starts.  Beyond the last line, and for an operand that
\* does not convert to the type the line needs, the calculation returns.  The
\* multiple reads build their request from the parameters MFDPTR gives access to.
Line(c) ==
  /\ Executes(c)
  /\ calcPc[c] = "line"
  /\ \/ Return(c)
     \/ /\ iCurrent[c] \in DOMAIN Lines[request[c]]
        /\ \/ Op(c).code \in {"SHARE", "IF"} /\ NextLine(c)
           \/ /\ Op(c).code = "IF"
              /\ iCurrent' = [iCurrent EXCEPT ![c] = Op(c).to]
              /\ UNCHANGED <<stack, owner, calcPc>>
           \/ Op(c).code = "SET" /\ Store(c)
           \/ Op(c).code \in {"READ", "SREAD", "WRITE"} /\ Call(c, "plc")
           \/ Op(c).code \in {"MREAD", "SMREAD"} /\ mfdptr /\ Call(c, "plc")
  /\ UNCHANGED <<queue, alive, request, calcTimer, mfdptr>>

\* The PLC access returns.  A failed one raises an error, which ends the
\* calculation; a failed write first assigns an error text to the parameter's
\* Value.  SMREAD spreads its results over the parameters MFDPTR gives access to.
PlcReply(c) ==
  /\ Executes(c)
  /\ calcPc[c] = "plc"
  /\ \/ ~(Op(c).code = "WRITE" /\ Op(c).saved) /\ Return(c)
     \/ Op(c).code = "WRITE" /\ Op(c).saved /\ Call(c, "failing")
     \/ Op(c).code \in {"READ", "MREAD"} /\ Store(c)
     \/ Op(c).code \in {"SREAD", "WRITE"} /\ NextLine(c)
     \/ Op(c).code = "SMREAD" /\ mfdptr /\ NextLine(c)
  /\ UNCHANGED <<queue, alive, request, calcTimer, mfdptr>>

\* LEIS answers WriteQueue: the calculation goes on whatever it answered.
LeisReply(c) ==
  /\ Executes(c)
  /\ \/ calcPc[c] = "leis" /\ NextLine(c)
     \/ calcPc[c] = "failing" /\ Return(c)
  /\ UNCHANGED <<queue, alive, request, calcTimer, mfdptr>>

CalculatorStep(c) == MutexWait(c) \/ Line(c) \/ PlcReply(c) \/ LeisReply(c)

\* StartProcessing and StopProcessing, called by EDPSRun.  (Mutant of the latter:
\* it leaves the timer on.)
CalculatorStart ==
  /\ mfdptr' = TRUE
  /\ calcTimer' = TRUE
  /\ UNCHANGED <<hostVars, calcPc, request, iCurrent, owner>>

CalculatorStopTimerOn ==
  /\ mfdptr' = FALSE
  /\ UNCHANGED <<hostVars, calcPc, request, iCurrent, calcTimer, owner>>

CalculatorStop ==
  /\ calcTimer' = FALSE
  /\ mfdptr' = FALSE
  /\ UNCHANGED <<hostVars, calcPc, request, iCurrent, owner>>
=============================================================================
