------------------------------ MODULE SisProofs ------------------------------
(***************************************************************************)
(* Proofs about the acquisition pipeline, for any table of formulas and    *)
(* any number of calculators.                                              *)
(***************************************************************************)
EXTENDS SisRefinement, TLAPS

\* The states in which a calculator waits for the reply of a call.
InCall == {"plc", "leis", "failing"}

\* Where a handler is, and whether it dispatches messages there.
Where(h) == IF h = Sched THEN schedPc ELSE calcPc[h]
Dispatches(h) == Where(h) \in {"drain"} \cup InCall

\* Handlers nest: each is entered at most once, and all but the innermost are
\* suspended where they dispatch messages.
StackInv ==
  /\ \A i, j \in 1 .. Len(stack) : stack[i] = stack[j] => i = j
  /\ \A h \in Handlers : Where(h) # "idle" <=> \E i \in 1 .. Len(stack) : stack[i] = h
  /\ \A i \in 1 .. Len(stack) - 1 : Dispatches(stack[i])

\* A calculator owns its mutex exactly while it calculates, EDPSRun exactly
\* while it sleeps, and what is calculated has lines.
MutexInv ==
  /\ \A c \in Calculators :
       /\ Calculating(c) <=> owner[c] = "sis"
       /\ owner[c] = "edps" <=> runPc = "sleep" /\ c = Stopped
       /\ alive /\ Calculating(c) => request[c] \in Formulas

\* Once EDPSRun has stopped the calculator, none takes a request.  A call of
\* EDPSRun fails only when Sis.exe is gone.
StopInv ==
  /\ runPc = "failed" => ~alive
  /\ runPc \notin BeforeStop \cup {"failed"} =>
       ~calcTimer /\ \A c \in Calculators : calcPc[c] # "wait"

\* The queue has no duplicates.  While the autoexec formulas are queued it holds
\* only formulas of the rows that have been passed, before that it is empty.
QueueInv ==
  /\ QueueNoDuplicates
  /\ \A i \in 1 .. Len(vSchedule) : i <= Len(Rows) /\ vSchedule[i].id = Rows[i].id
  /\ bFirstRun => queue = << >> /\ schedPc = "idle"
  /\ schedPc = "autoexec" =>
       \A i \in 1 .. Len(queue) : \E k \in 1 .. Len(Rows) : k < lCnt /\ queue[i] = Rows[k].id
  /\ runPc = "done" => queue = << >> /\ vSchedule = << >>

IInv == TypeOK /\ StackInv /\ MutexInv /\ StopInv /\ QueueInv

-----------------------------------------------------------------------------
(* The stack of handlers                                                   *)

\* Entering a handler puts it on top of the stack.
LEMMA EnterStack ==
  ASSUME NEW h \in Handlers, stack \in Seq(Handlers), Enter(h)
  PROVE  /\ stack' \in Seq(Handlers)
         /\ Len(stack') = Len(stack) + 1
         /\ stack'[Len(stack) + 1] = h
         /\ \A i \in 1 .. Len(stack) : stack'[i] = stack[i]
BY DEF Enter

\* Leaving a handler removes the top of the stack.
LEMMA LeaveStack ==
  ASSUME stack \in Seq(Handlers), stack # << >>, Leave
  PROVE  /\ stack' \in Seq(Handlers)
         /\ Len(stack') = Len(stack) - 1
         /\ \A i \in 1 .. Len(stack) - 1 : stack'[i] = stack[i]
<1>1. Len(stack) \in Nat \ {0}
  OBVIOUS
<1>2. stack' = [i \in 1 .. Len(stack) - 1 |-> stack[i]]
  BY <1>1 DEF Leave
<1>. QED
  BY <1>1, <1>2

\* The handler that executes is on top of the stack.
LEMMA ExecutesTop ==
  ASSUME NEW h \in Handlers, stack \in Seq(Handlers), Executes(h)
  PROVE  alive /\ stack # << >> /\ Len(stack) \in Nat \ {0} /\ stack[Len(stack)] = h
BY WorkThreadsAssumption DEF Executes, Top, Nobody, Handlers, Calculators, Sched

\* An element of a sequence.
LEMMA ElementOfSequence ==
  ASSUME NEW S, NEW s \in Seq(S), NEW i \in DOMAIN s
  PROVE  s[i] \in S
OBVIOUS

\* Replacing an element of a sequence.
LEMMA ReplaceElement ==
  ASSUME NEW S, NEW s \in Seq(S), NEW i \in 1 .. Len(s), NEW x \in S
  PROVE  [s EXCEPT ![i] = x] \in Seq(S)
OBVIOUS

\* The setters of a schedule record give a schedule record.
LEMMA UpdateRow ==
  ASSUME NEW r \in ScheduleRow, NEW n \in Int
  PROVE  SetLeft2Run(r, n) \in ScheduleRow /\ SetTimeLoop(r, n) \in ScheduleRow
BY DEF ScheduleRow, SetLeft2Run, SetTimeLoop

\* The pass of a loop over the table that is at row lCnt has a record there.
LEMMA RowAtCounter ==
  ASSUME TypeOK, lCnt <= Len(vSchedule)
  PROVE  /\ lCnt \in 1 .. Len(vSchedule)
         /\ vSchedule[lCnt] \in ScheduleRow
         /\ vSchedule[lCnt].id \in Scheduled
         /\ vSchedule[lCnt].loop \in Int
         /\ vSchedule[lCnt].left \in Int
<1>1. vSchedule \in Seq(ScheduleRow) /\ lCnt \in Nat \ {0} /\ lCnt \in DOMAIN vSchedule
  BY DEF TypeOK
<1>2. vSchedule[lCnt] \in ScheduleRow
  BY <1>1, ElementOfSequence
<1>. QED
  BY <1>1, <1>2 DEF ScheduleRow

-----------------------------------------------------------------------------
(* Type correctness                                                        *)

\* What the steps of a calculation do to the variables they share: the
\* calculation goes on or returns.
CalculationMoves(c) ==
  /\ Executes(c) /\ calcPc[c] \in InCall \cup {"line"}
  /\ \/ /\ calcPc' = [calcPc EXCEPT ![c] = "idle"]
        /\ owner' = [owner EXCEPT ![c] = "none"]
        /\ Leave
     \/ /\ \E p \in InCall \cup {"line"} : calcPc' = [calcPc EXCEPT ![c] = p]
        /\ UNCHANGED <<stack, owner>>
  /\ \E k \in Nat : iCurrent' = [iCurrent EXCEPT ![c] = k]
  /\ UNCHANGED <<queue, alive, request, calcTimer, mfdptr>>

\* Every step of a calculation, whatever the line, is such a move.
LEMMA StepsOfCalculation ==
  ASSUME TypeOK, MutexInv, NEW c \in Calculators, Line(c) \/ PlcReply(c) \/ LeisReply(c)
  PROVE  CalculationMoves(c)
<1>1. alive /\ iCurrent[c] \in Nat /\ iCurrent \in [Calculators -> Nat]
      /\ calcPc \in [Calculators -> {"idle", "wait", "line", "plc", "leis", "failing"}]
  BY DEF Line, PlcReply, LeisReply, Executes, TypeOK
<1>2. calcPc[c] \in InCall \cup {"line"} /\ Executes(c)
  BY DEF Line, PlcReply, LeisReply, InCall
<1>3. request[c] \in Formulas
  BY <1>1, <1>2 DEF MutexInv, Calculating, InCall
<1>4. iCurrent = [iCurrent EXCEPT ![c] = iCurrent[c]]
  BY <1>1
<1>5. ASSUME iCurrent[c] \in DOMAIN Lines[request[c]]
      PROVE  Op(c).to \in Nat
  <2>1. Lines[request[c]] \in Seq([code : Codes, to : Nat, saved : BOOLEAN])
    BY <1>3, LinesAssumption
  <2>2. Op(c) \in [code : Codes, to : Nat, saved : BOOLEAN]
    BY <1>5, <2>1, ElementOfSequence DEF Op
  <2>. QED
    BY <2>2
<1>6. ASSUME Return(c) \/ NextLine(c) \/ Store(c)
             \/ Call(c, "plc") \/ Call(c, "leis") \/ Call(c, "failing"),
             UNCHANGED <<queue, alive, request, calcTimer, mfdptr>>
      PROVE  CalculationMoves(c)
  <2>1. CASE Return(c)
    BY <1>1, <1>2, <1>4, <1>6, <2>1 DEF Return, CalculationMoves
  <2>2. ASSUME NextLine(c)
        PROVE  CalculationMoves(c)
    <3>1. iCurrent' = [iCurrent EXCEPT ![c] = iCurrent[c] + 1] /\ iCurrent[c] + 1 \in Nat
      BY <1>1, <2>2 DEF NextLine
    <3>. QED
      BY <1>2, <1>6, <2>2, <3>1 DEF NextLine, CalculationMoves
  <2>3. ASSUME NEW p \in InCall, Call(c, p)
        PROVE  CalculationMoves(c)
    BY <1>1, <1>2, <1>4, <1>6, <2>3 DEF Call, CalculationMoves
  <2>4. CASE Store(c)
    BY <2>2, <2>3, <2>4 DEF Store, InCall
  <2>. QED
    BY <1>6, <2>1, <2>2, <2>3, <2>4 DEF InCall
<1>7. CASE PlcReply(c)
  BY <1>6, <1>7 DEF PlcReply
<1>8. CASE LeisReply(c)
  BY <1>6, <1>8 DEF LeisReply
<1>9. CASE Line(c)
  <2>1. CASE /\ iCurrent[c] \in DOMAIN Lines[request[c]]
             /\ iCurrent' = [iCurrent EXCEPT ![c] = Op(c).to]
             /\ UNCHANGED <<stack, owner, calcPc>>
    <3>1. calcPc = [calcPc EXCEPT ![c] = calcPc[c]]
      BY <1>1
    <3>. QED
      BY <1>2, <1>5, <1>9, <2>1, <3>1 DEF Line, CalculationMoves
  <2>2. CASE Return(c) \/ NextLine(c) \/ Store(c) \/ Call(c, "plc")
    BY <1>6, <1>9, <2>2 DEF Line
  <2>. QED
    BY <1>9, <2>1, <2>2 DEF Line
<1>. QED
  BY <1>7, <1>8, <1>9

\* TypeOK is inductive, given that what is calculated has lines.
LEMMA TypeOKStep ==
  ASSUME TypeOK, StackInv, MutexInv, [Next]_vars
  PROVE  TypeOK'
<1>1. stack \in Seq(Handlers) /\ queue \in Seq(Scheduled) /\ vSchedule \in Seq(ScheduleRow)
  BY DEF TypeOK
<1>2. Sched \in Handlers /\ \A c \in Calculators : c \in Handlers
  BY DEF Handlers
<1>3. CASE SisScheduling
  <2>1. UNCHANGED <<calcVars, runPc, completed>>
    BY <1>3 DEF SisScheduling
  <2>2. CASE Pumping /\ SchedulerTimer
    <3>1. stack' \in Seq(Handlers)
      BY <1>1, <1>2, <2>2, EnterStack DEF SchedulerTimer
    <3>2. schedPc' \in {"autoexec", "scan"} /\ lCnt' = 1 /\ bFirstRun' \in BOOLEAN
          /\ UNCHANGED <<queue, alive, schedTimer, vSchedule>>
      BY <2>2 DEF SchedulerTimer
    <3>. QED
      BY <2>1, <3>1, <3>2 DEF TypeOK, calcVars
  <2>3. CASE AutoexecRow
    <3>1. /\ lCnt \in 1 .. Len(vSchedule)
          /\ vSchedule[lCnt] \in ScheduleRow
          /\ vSchedule[lCnt].id \in Scheduled
      BY <2>3, RowAtCounter DEF AutoexecRow
    <3>2. UNCHANGED <<stack, alive, schedPc, bFirstRun, schedTimer>> /\ lCnt' = lCnt + 1
      BY <2>3 DEF AutoexecRow
    <3>3. \/ UNCHANGED <<vSchedule, queue>>
          \/ /\ vSchedule' = [vSchedule EXCEPT ![lCnt] = SetTimeLoop(vSchedule[lCnt], 0)]
             /\ queue' = Append(queue, vSchedule[lCnt].id)
      BY <2>3 DEF AutoexecRow, qm_push
    <3>4. Append(queue, vSchedule[lCnt].id) \in Seq(Scheduled)
      BY <1>1, <3>1
    <3>5. SetTimeLoop(vSchedule[lCnt], 0) \in ScheduleRow
      BY <3>1, UpdateRow
    <3>6. [vSchedule EXCEPT ![lCnt] = SetTimeLoop(vSchedule[lCnt], 0)] \in Seq(ScheduleRow)
      BY <1>1, <3>1, <3>5, ReplaceElement
    <3>7. queue' \in Seq(Scheduled) /\ vSchedule' \in Seq(ScheduleRow) /\ lCnt' \in Nat \ {0}
      <4>1. queue' \in Seq(Scheduled)
        BY <1>1, <3>3, <3>4
      <4>2. vSchedule' \in Seq(ScheduleRow)
        BY <1>1, <3>3, <3>6
      <4>3. lCnt' \in Nat \ {0}
        BY <1>1, <3>1, <3>2
      <4>. QED
        BY <4>1, <4>2, <4>3
    <3>. QED
      BY <2>1, <3>2, <3>7 DEF TypeOK, calcVars
  <2>4. CASE AutoexecQueued
    BY <2>1, <2>4 DEF AutoexecQueued, TypeOK, calcVars, hostVars
  <2>5. CASE AutoexecTaken
    BY <2>1, <2>5 DEF AutoexecTaken, TypeOK, calcVars, hostVars
  <2>6. CASE ScanRow
    <3>1. /\ lCnt \in 1 .. Len(vSchedule)
          /\ vSchedule[lCnt] \in ScheduleRow
          /\ vSchedule[lCnt].id \in Scheduled
          /\ vSchedule[lCnt].loop \in Int /\ vSchedule[lCnt].left - 1 \in Int
      BY <2>6, RowAtCounter DEF ScanRow
    <3>2. UNCHANGED <<stack, alive, schedPc, bFirstRun, schedTimer>> /\ lCnt' = lCnt + 1
      BY <2>6 DEF ScanRow
    <3>3. queue' = queue \/ queue' = Append(queue, vSchedule[lCnt].id)
      BY <2>6 DEF ScanRow, qm_pushex
    <3>4. \/ vSchedule' = vSchedule
          \/ \E n \in Int : vSchedule' = [vSchedule EXCEPT ![lCnt] = SetLeft2Run(vSchedule[lCnt], n)]
      BY <2>6, <3>1 DEF ScanRow
    <3>5. Append(queue, vSchedule[lCnt].id) \in Seq(Scheduled)
      BY <1>1, <3>1
    <3>6. \A n \in Int :
            [vSchedule EXCEPT ![lCnt] = SetLeft2Run(vSchedule[lCnt], n)] \in Seq(ScheduleRow)
      BY <1>1, <3>1, UpdateRow, ReplaceElement
    <3>7. queue' \in Seq(Scheduled) /\ vSchedule' \in Seq(ScheduleRow) /\ lCnt' \in Nat \ {0}
      <4>1. queue' \in Seq(Scheduled)
        BY <1>1, <3>3, <3>5
      <4>2. vSchedule' \in Seq(ScheduleRow)
        BY <1>1, <3>4, <3>6
      <4>3. lCnt' \in Nat \ {0}
        BY <1>1, <3>1, <3>2
      <4>. QED
        BY <4>1, <4>2, <4>3
    <3>. QED
      BY <2>1, <3>2, <3>7 DEF TypeOK, calcVars
  <2>7. CASE ScanDone
    BY <1>1, <1>2, <2>1, <2>7, ExecutesTop, LeaveStack DEF ScanDone, TypeOK, calcVars
  <2>. QED
    BY <1>3, <2>2, <2>3, <2>4, <2>5, <2>6, <2>7 DEF SisScheduling, SchedulerStep
<1>4. ASSUME NEW c \in Calculators, SisCalculating(c)
      PROVE  TypeOK'
  <2>. DEFINE Pcs == {"idle", "wait", "line", "plc", "leis", "failing"}
  <2>1. UNCHANGED schedVars /\ UNCHANGED runPc
    BY <1>4 DEF SisCalculating
  <2>2. completed' \subseteq Scheduled
    <3>1. alive /\ Calculating(c) => request[c] \in Scheduled
      BY LinesAssumption DEF MutexInv, TypeOK
    <3>2. alive
      BY <1>4 DEF SisCalculating, Pumping, CalculatorStep, MutexWait, Line, PlcReply, LeisReply,
                  Executes
    <3>. QED
      BY <1>4, <3>1, <3>2 DEF SisCalculating, TypeOK
  <2>3. SUFFICES /\ queue' \in Seq(Scheduled)
                 /\ stack' \in Seq(Handlers)
                 /\ alive' \in BOOLEAN
                 /\ calcPc' \in [Calculators -> Pcs]
                 /\ request' \in [Calculators -> Scheduled \cup {0}]
                 /\ iCurrent' \in [Calculators -> Nat]
                 /\ calcTimer' \in BOOLEAN
                 /\ mfdptr' \in BOOLEAN
                 /\ owner' \in [Calculators -> {"none", "sis", "edps"}]
    BY <2>1, <2>2 DEF TypeOK, schedVars
  <2>. /\ calcPc \in [Calculators -> Pcs] /\ request \in [Calculators -> Scheduled \cup {0}]
       /\ iCurrent \in [Calculators -> Nat]
       /\ owner \in [Calculators -> {"none", "sis", "edps"}]
       /\ alive \in BOOLEAN /\ calcTimer \in BOOLEAN /\ mfdptr \in BOOLEAN
    BY DEF TypeOK
  <2>4. CASE CalculatorTimer(c)
    <3>1. Head(queue) \in Scheduled /\ queue' \in Seq(Scheduled)
      BY <1>1, <2>4 DEF CalculatorTimer
    <3>2. stack' \in Seq(Handlers)
      BY <1>1, <1>2, <2>4, EnterStack DEF CalculatorTimer
    <3>3. calcPc' \in [Calculators -> Pcs] /\ alive' \in BOOLEAN
      BY <2>4 DEF CalculatorTimer
    <3>4. request' \in [Calculators -> Scheduled \cup {0}]
      BY <2>4, <3>1 DEF CalculatorTimer
    <3>5. UNCHANGED <<iCurrent, calcTimer, mfdptr, owner>>
      BY <2>4 DEF CalculatorTimer
    <3>. QED
      BY <3>1, <3>2, <3>3, <3>4, <3>5
  <2>5. CASE MutexWait(c)
    <3>1. Executes(c) /\ UNCHANGED <<queue, request, mfdptr>>
      BY <2>5 DEF MutexWait
    <3>2. CASE owner[c] = "none"
      <4>1. /\ owner' = [owner EXCEPT ![c] = "sis"]
            /\ calcPc' = [calcPc EXCEPT ![c] = "line"]
            /\ iCurrent' = [iCurrent EXCEPT ![c] = 1]
            /\ stack' = stack /\ calcTimer' = calcTimer
        BY <2>5, <3>2 DEF MutexWait
      <4>2. alive' \in BOOLEAN
        BY <2>5, <3>2 DEF MutexWait
      <4>. QED
        BY <1>1, <3>1, <4>1, <4>2
    <3>3. CASE owner[c] # "none"
      <4>1. /\ calcPc' = [calcPc EXCEPT ![c] = "idle"]
            /\ Leave /\ UNCHANGED <<owner, iCurrent>>
        BY <2>5, <3>3 DEF MutexWait
      <4>2. calcTimer' \in BOOLEAN /\ alive' \in BOOLEAN
        BY <2>5, <3>3 DEF MutexWait
      <4>3. stack' \in Seq(Handlers)
        BY <1>1, <1>2, <3>1, <4>1, ExecutesTop, LeaveStack
      <4>. QED
        BY <1>1, <3>1, <4>1, <4>2, <4>3
    <3>. QED
      BY <3>2, <3>3
  <2>6. CASE CalculationMoves(c)
    <3>1. stack' \in Seq(Handlers)
      BY <1>1, <1>2, <2>6, ExecutesTop, LeaveStack DEF CalculationMoves
    <3>2. /\ calcPc' \in [Calculators -> Pcs]
          /\ owner' \in [Calculators -> {"none", "sis", "edps"}]
          /\ iCurrent' \in [Calculators -> Nat]
      BY <2>6 DEF CalculationMoves, InCall
    <3>3. UNCHANGED <<queue, alive, request, calcTimer, mfdptr>>
      BY <2>6 DEF CalculationMoves
    <3>. QED
      BY <1>1, <3>1, <3>2, <3>3
  <2>. QED
    BY <1>4, <2>4, <2>5, <2>6, StepsOfCalculation DEF SisCalculating, CalculatorStep
<1>5. CASE EdpsRun
  <2>. UNCHANGED completed
    BY <1>5 DEF EdpsRun, Load, StartScheduler, Close, StopCalculator, WaitMutex, Slept,
                ReleaseCalculator, StopScheduler, CallFails
  <2>1. CASE Load
    <3>1. vSchedule' \in Seq(ScheduleRow)
      <4>1. Len(Rows) \in Nat
        BY RowsAssumption
      <4>2. \A i \in 1 .. Len(Rows) :
              [id |-> Rows[i].id, loop |-> Rows[i].loop, left |-> Rows[i].loop] \in ScheduleRow
        <5>. SUFFICES ASSUME NEW i \in 1 .. Len(Rows)
                      PROVE  /\ Rows[i].id \in Scheduled
                             /\ Rows[i].loop \in Int
          BY DEF ScheduleRow
        <5>1. Rows[i] \in [id : Nat \ {0}, loop : Int]
          <6>. i \in DOMAIN Rows /\ Rows \in Seq([id : Nat \ {0}, loop : Int])
            BY RowsAssumption
          <6>. QED
            BY ElementOfSequence
        <5>. QED
          BY <5>1 DEF Scheduled
      <4>. QED
        BY <2>1, <4>1, <4>2 DEF Load, AddSchedules
    <3>2. /\ UNCHANGED <<schedPc, lCnt, bFirstRun, schedTimer, hostVars, calcPc, request,
                         iCurrent, owner>>
          /\ runPc' \in RunStates
      BY <2>1 DEF Load, CalculatorStart, calcVars, RunStates
    <3>3. calcTimer' \in BOOLEAN /\ mfdptr' \in BOOLEAN
      BY <2>1 DEF Load, CalculatorStart, calcVars, TypeOK
    <3>. QED
      BY <3>1, <3>2, <3>3 DEF TypeOK, hostVars
  <2>2. CASE StartScheduler
    BY <2>2 DEF StartScheduler, SchedulerStart, TypeOK, hostVars, calcVars, RunStates
  <2>3. CASE Close \/ ReleaseCalculator \/ CallFails
    BY <2>3 DEF Close, ReleaseCalculator, CallFails, TypeOK, hostVars, schedVars, calcVars,
                RunStates
  <2>4. CASE StopCalculator
    BY <2>4 DEF StopCalculator, CalculatorStop, TypeOK, hostVars, schedVars, RunStates
  <2>5. CASE WaitMutex \/ Slept
    <3>1. UNCHANGED <<hostVars, schedVars, calcPc, request, iCurrent, calcTimer, mfdptr>>
      BY <2>5 DEF WaitMutex, Slept
    <3>2. owner' \in [Calculators -> {"none", "sis", "edps"}] /\ runPc' \in RunStates
      BY <2>5 DEF WaitMutex, Slept, TypeOK, RunStates
    <3>. QED
      BY <3>1, <3>2 DEF TypeOK, hostVars, schedVars
  <2>6. CASE StopScheduler
    <3>1. UNCHANGED <<stack, alive, schedPc, lCnt, bFirstRun, calcVars>>
          /\ queue' = << >> /\ vSchedule' = << >> /\ schedTimer' = FALSE /\ runPc' = "done"
      BY <2>6 DEF StopScheduler, SchedulerStop, qm_drain
    <3>2. queue' \in Seq(Scheduled) /\ vSchedule' \in Seq(ScheduleRow) /\ schedTimer' \in BOOLEAN
      <4>1. << >> \in Seq(Scheduled) /\ << >> \in Seq(ScheduleRow)
        OBVIOUS
      <4>. QED
        BY <3>1, <4>1
    <3>. QED
      BY <3>1, <3>2 DEF TypeOK, calcVars, RunStates
  <2>. QED
    BY <1>5, <2>1, <2>2, <2>3, <2>4, <2>5, <2>6 DEF EdpsRun
<1>6. CASE UNCHANGED vars
  BY <1>6 DEF vars, hostVars, schedVars, calcVars, TypeOK
<1>. QED
  BY <1>3, <1>4, <1>5, <1>6 DEF Next

-----------------------------------------------------------------------------
(* The nesting of handlers                                                 *)

\* What one step does to the stack: h is entered, returns, or goes on.
StackMove(h) ==
  /\ \A g \in Handlers \ {h} : Where(g)' = Where(g)
  /\ \/ Pumping /\ h \notin Active /\ Enter(h) /\ Where(h)' # "idle"
     \/ Executes(h) /\ Leave /\ Where(h)' = "idle"
     \/ Executes(h) /\ stack' = stack /\ Where(h)' # "idle"

\* Such a step keeps the handlers nested.
LEMMA StackMoveStep ==
  ASSUME stack \in Seq(Handlers), StackInv, NEW h \in Handlers, StackMove(h)
  PROVE  StackInv'
<1>1. Len(stack) \in Nat /\ \A i \in 1 .. Len(stack) : stack[i] \in Handlers
  OBVIOUS
<1>2. \A g \in Handlers \ {h} : Where(g)' = Where(g) /\ (Dispatches(g)' <=> Dispatches(g))
  BY DEF StackMove, Dispatches
<1>3. CASE Pumping /\ h \notin Active /\ Enter(h) /\ Where(h)' # "idle"
  <2>1. /\ stack' \in Seq(Handlers)
        /\ Len(stack') = Len(stack) + 1
        /\ stack'[Len(stack) + 1] = h
        /\ \A i \in 1 .. Len(stack) : stack'[i] = stack[i] /\ stack[i] # h
    BY <1>3, EnterStack DEF Active
  <2>2. stack # << >> => Dispatches(stack[Len(stack)])
    BY <1>1, <1>3, WorkThreadsAssumption
    DEF Pumping, Top, Nobody, Dispatches, Where, Handlers, Calculators, Sched, InCall
  <2>3. \A i \in 1 .. Len(stack) : Dispatches(stack[i])'
    BY <1>1, <1>2, <2>1, <2>2 DEF StackInv
  <2>4. \A g \in Handlers \ {h} :
          Where(g)' # "idle" <=> \E i \in 1 .. Len(stack') : stack'[i] = g
    BY <1>1, <1>2, <2>1 DEF StackInv
  <2>5. \A i, j \in 1 .. Len(stack') : stack'[i] = stack'[j] => i = j
    BY <1>1, <2>1 DEF StackInv
  <2>6. \A i \in 1 .. Len(stack') - 1 : stack'[i] = stack[i] /\ i \in 1 .. Len(stack)
    BY <1>1, <2>1
  <2>7. \A i \in 1 .. Len(stack') - 1 : Dispatches(stack[i])'
    BY <2>3, <2>6 DEF Dispatches, Where
  <2>8. Where(h)' # "idle" /\ \E i \in 1 .. Len(stack') : stack'[i] = h
    BY <1>1, <1>3, <2>1
  <2>. QED
    BY <2>4, <2>5, <2>7, <2>8 DEF StackInv
<1>4. CASE Executes(h) /\ Leave /\ Where(h)' = "idle"
  <2>1. Len(stack) \in Nat \ {0} /\ stack[Len(stack)] = h /\ stack # << >>
    BY <1>4, ExecutesTop
  <2>2. /\ Len(stack') = Len(stack) - 1
        /\ \A i \in 1 .. Len(stack) - 1 : stack'[i] = stack[i]
    BY <1>4, <2>1, LeaveStack
  <2>3. \A i \in 1 .. Len(stack) - 1 : stack[i] # h /\ stack[i] \in Handlers
    BY <1>1, <2>1 DEF StackInv
  <2>4. \A i, j \in 1 .. Len(stack') : stack'[i] = stack'[j] => i = j
    BY <2>1, <2>2 DEF StackInv
  <2>5. \A i \in 1 .. Len(stack') - 1 : Dispatches(stack[i])'
    <3>. TAKE i \in 1 .. Len(stack') - 1
    <3>1. i \in 1 .. Len(stack) - 1 /\ stack'[i] = stack[i]
      BY <2>1, <2>2
    <3>. QED
      BY <1>2, <2>3, <3>1 DEF StackInv, Dispatches, Where
  <2>6. \A g \in Handlers \ {h} :
          Where(g)' # "idle" <=> \E i \in 1 .. Len(stack') : stack'[i] = g
    BY <1>1, <1>2, <2>1, <2>2 DEF StackInv
  <2>7. ~ \E i \in 1 .. Len(stack') : stack'[i] = h
    BY <2>1, <2>2, <2>3
  <2>. QED
    BY <1>4, <2>4, <2>5, <2>6, <2>7 DEF StackInv
<1>5. CASE Executes(h) /\ stack' = stack /\ Where(h)' # "idle"
  <2>1. Len(stack) \in Nat \ {0} /\ stack[Len(stack)] = h
    BY <1>5, ExecutesTop
  <2>2. \A i \in 1 .. Len(stack) - 1 : stack[i] # h /\ stack[i] \in Handlers
    BY <1>1, <2>1 DEF StackInv
  <2>3. \A i \in 1 .. Len(stack') - 1 : Dispatches(stack[i])'
    BY <1>2, <1>5, <2>2 DEF StackInv, Dispatches, Where
  <2>4. \A g \in Handlers : Where(g)' # "idle" <=> \E i \in 1 .. Len(stack') : stack'[i] = g
    BY <1>2, <1>5, <2>1 DEF StackInv
  <2>. QED
    BY <1>5, <2>3, <2>4 DEF StackInv
<1>. QED
  BY <1>3, <1>4, <1>5 DEF StackMove

\* StackInv is inductive: every step of the system is such a step or leaves the
\* handlers alone.
LEMMA StackInvStep ==
  ASSUME TypeOK, StackInv, MutexInv, [Next]_vars
  PROVE  StackInv'
<1>. stack \in Seq(Handlers) /\ calcPc \in [Calculators -> {"idle", "wait", "line"} \cup InCall]
  BY DEF TypeOK, InCall
<1>1. Sched \in Handlers /\ Sched \notin Calculators
      /\ \A h \in Handlers : h # Sched => h \in Calculators
  BY WorkThreadsAssumption DEF Handlers, Sched, Calculators
<1>2. ASSUME UNCHANGED <<stack, schedPc, calcPc>>
      PROVE  StackInv'
  BY <1>2 DEF StackInv, Where, Dispatches
<1>3. CASE SisScheduling
  <2>1. calcPc' = calcPc
    BY <1>3 DEF SisScheduling, calcVars
  <2>2. \A g \in Handlers \ {Sched} : Where(g)' = Where(g)
    BY <2>1 DEF Where
  <2>3. StackMove(Sched)
    <3>1. CASE Pumping /\ SchedulerTimer
      BY <2>2, <3>1 DEF SchedulerTimer, StackMove, Where
    <3>2. CASE AutoexecRow \/ AutoexecQueued \/ AutoexecTaken \/ ScanRow
      BY <2>2, <3>2
      DEF AutoexecRow, AutoexecQueued, AutoexecTaken, ScanRow, StackMove, Where, hostVars
    <3>3. CASE ScanDone
      BY <2>2, <3>3 DEF ScanDone, StackMove, Where
    <3>. QED
      BY <1>3, <3>1, <3>2, <3>3 DEF SisScheduling, SchedulerStep
  <2>. QED
    BY <1>1, <2>3, StackMoveStep
<1>4. ASSUME NEW c \in Calculators, SisCalculating(c)
      PROVE  StackInv'
  <2>. c \in Handlers /\ c # Sched
    BY <1>1 DEF Handlers
  <2>1. schedPc' = schedPc
    BY <1>4 DEF SisCalculating, schedVars
  <2>2. ASSUME NEW p, calcPc' = [calcPc EXCEPT ![c] = p]
        PROVE  Where(c)' = p /\ \A g \in Handlers \ {c} : Where(g)' = Where(g)
    BY <1>1, <2>1, <2>2 DEF Where
  <2>3. CASE Pumping /\ CalculatorTimer(c)
    <3>1. CASE UNCHANGED <<stack, calcPc>>
      BY <1>2, <2>1, <3>1
    <3>2. CASE Enter(c) /\ calcPc' = [calcPc EXCEPT ![c] = "wait"]
      <4>1. c \notin Active /\ Where(c)' = "wait"
        BY <2>2, <2>3, <3>2 DEF CalculatorTimer
      <4>2. StackMove(c)
        BY <2>2, <2>3, <3>2, <4>1 DEF StackMove
      <4>. QED
        BY <4>2, StackMoveStep
    <3>. QED
      BY <2>3, <3>1, <3>2 DEF CalculatorTimer
  <2>4. CASE MutexWait(c)
    <3>1. CASE owner[c] = "none"
      <4>1. stack' = stack /\ calcPc' = [calcPc EXCEPT ![c] = "line"] /\ Executes(c)
        BY <2>4, <3>1 DEF MutexWait
      <4>2. Where(c)' = "line"
        BY <2>2, <4>1
      <4>3. StackMove(c)
        BY <2>2, <4>1, <4>2 DEF StackMove
      <4>. QED
        BY <4>3, StackMoveStep
    <3>2. CASE owner[c] # "none"
      <4>1. Leave /\ calcPc' = [calcPc EXCEPT ![c] = "idle"] /\ Executes(c)
        BY <2>4, <3>2 DEF MutexWait
      <4>2. Where(c)' = "idle"
        BY <2>2, <4>1
      <4>3. StackMove(c)
        BY <2>2, <4>1, <4>2 DEF StackMove
      <4>. QED
        BY <4>3, StackMoveStep
    <3>. QED
      BY <3>1, <3>2
  <2>5. CASE CalculationMoves(c)
    <3>1. CASE Leave /\ calcPc' = [calcPc EXCEPT ![c] = "idle"]
      BY <2>2, <2>5, <3>1, StackMoveStep DEF StackMove, CalculationMoves
    <3>2. ASSUME NEW p \in InCall \cup {"line"},
                 stack' = stack, calcPc' = [calcPc EXCEPT ![c] = p]
          PROVE  StackInv'
      BY <2>2, <2>5, <3>2, StackMoveStep DEF StackMove, CalculationMoves, InCall
    <3>. QED
      BY <2>5, <3>1, <3>2 DEF CalculationMoves
  <2>. QED
    BY <1>4, <2>3, <2>4, <2>5, StepsOfCalculation DEF SisCalculating, CalculatorStep
<1>5. CASE EdpsRun \/ UNCHANGED vars
  <2>. UNCHANGED <<stack, schedPc, calcPc>>
    BY <1>5 DEF EdpsRun, Load, StartScheduler, Close, StopCalculator, WaitMutex, Slept,
      ReleaseCalculator, StopScheduler, CallFails, CalculatorStart, CalculatorStop,
      SchedulerStart, SchedulerStop, vars, hostVars, schedVars, calcVars
  <2>. QED
    BY <1>2
<1>. QED
  BY <1>3, <1>4, <1>5 DEF Next

-----------------------------------------------------------------------------
(* The mutexes                                                             *)

\* MutexInv is inductive.
LEMMA MutexInvStep ==
  ASSUME TypeOK, StackInv, MutexInv, [Next]_vars
  PROVE  MutexInv'
<1>. /\ calcPc \in [Calculators -> {"idle", "wait", "line"} \cup InCall]
     /\ owner \in [Calculators -> {"none", "sis", "edps"}]
     /\ request \in [Calculators -> Scheduled \cup {0}]
  BY DEF TypeOK, InCall
<1>1. \A c \in Calculators : vFormulas(c) \subseteq Formulas
  BY DEF vFormulas
<1>2. ASSUME UNCHANGED <<calcPc, owner, request, alive>>, runPc' = "sleep" <=> runPc = "sleep"
      PROVE  MutexInv'
  BY <1>2 DEF MutexInv, Calculating
<1>3. CASE SisScheduling
  BY <1>2, <1>3 DEF SisScheduling, calcVars, SchedulerTimer, SchedulerStep, AutoexecRow,
    AutoexecQueued, AutoexecTaken, ScanRow, ScanDone, hostVars
<1>4. ASSUME NEW c \in Calculators, SisCalculating(c)
      PROVE  MutexInv'
  <2>1. runPc' = runPc
    BY <1>4 DEF SisCalculating
  <2>2. ASSUME NEW p \in {"idle", "wait", "line"} \cup InCall, NEW o \in {"none", "sis", "edps"},
               calcPc' = [calcPc EXCEPT ![c] = p], owner' = [owner EXCEPT ![c] = o],
               p \in InCall \cup {"line"} <=> o = "sis",
               o = "edps" <=> runPc = "sleep" /\ c = Stopped,
               \A d \in Calculators \ {c} : request'[d] = request[d],
               alive' => alive,
               alive' /\ o = "sis" => request'[c] \in Formulas
        PROVE  MutexInv'
    <3>1. \A d \in Calculators : owner'[d] = IF d = c THEN o ELSE owner[d]
      BY <2>2
    <3>2. \A d \in Calculators : Calculating(d)' <=> (IF d = c THEN o = "sis" ELSE Calculating(d))
      BY <2>2 DEF Calculating, InCall
    <3>. QED
      BY <2>1, <2>2, <3>1, <3>2 DEF MutexInv
  <2>3. owner[c] # "edps" => ~(runPc = "sleep" /\ c = Stopped)
    BY DEF MutexInv
  <2>4. CASE Pumping /\ CalculatorTimer(c)
    <3>1. calcPc[c] = "idle" /\ owner[c] # "sis"
      BY <2>4 DEF CalculatorTimer, StackInv, Active, Where, MutexInv, Calculating, Handlers, Sched,
        Calculators, InCall
    <3>2. /\ owner' = [owner EXCEPT ![c] = owner[c]]
          /\ \A d \in Calculators \ {c} : request'[d] = request[d]
          /\ alive' => alive
          /\ alive
      BY <2>4 DEF CalculatorTimer, Pumping
    <3>3. PICK p \in {"idle", "wait"} : calcPc' = [calcPc EXCEPT ![c] = p]
      BY <2>4, <3>1 DEF CalculatorTimer
    <3>. QED
      BY <2>2, <3>1, <3>2, <3>3 DEF MutexInv, InCall
  <2>5. CASE MutexWait(c)
    <3>1. request' = request /\ calcPc[c] = "wait" /\ alive
      BY <2>5 DEF MutexWait, Executes
    <3>2. owner[c] # "sis"
      BY <3>1 DEF MutexInv, Calculating
    <3>3. CASE owner[c] = "none"
      <4>1. /\ calcPc' = [calcPc EXCEPT ![c] = "line"]
            /\ owner' = [owner EXCEPT ![c] = "sis"]
        BY <2>5, <3>3 DEF MutexWait
      <4>2. alive' => request'[c] \in Formulas
        BY <1>1, <2>5, <3>1, <3>3 DEF MutexWait
      <4>. QED
        BY <2>2, <2>3, <3>1, <3>3, <4>1, <4>2
    <3>4. CASE owner[c] # "none"
      <4>1. /\ calcPc' = [calcPc EXCEPT ![c] = "idle"]
            /\ owner' = [owner EXCEPT ![c] = owner[c]]
        BY <2>5, <3>4 DEF MutexWait
      <4>. QED
        BY <2>2, <3>1, <3>2, <4>1 DEF MutexInv, InCall
    <3>. QED
      BY <3>3, <3>4
  <2>6. CASE CalculationMoves(c)
    <3>1. /\ UNCHANGED request /\ alive
          /\ owner[c] = "sis" /\ request[c] \in Formulas
      BY <2>6 DEF CalculationMoves, MutexInv, Calculating, InCall, Executes
    <3>2. CASE calcPc' = [calcPc EXCEPT ![c] = "idle"] /\ owner' = [owner EXCEPT ![c] = "none"]
      BY <2>2, <2>3, <3>1, <3>2 DEF InCall
    <3>3. ASSUME NEW p \in InCall \cup {"line"},
                 calcPc' = [calcPc EXCEPT ![c] = p], owner' = owner
          PROVE  MutexInv'
      <4>1. owner' = [owner EXCEPT ![c] = owner[c]]
        BY <3>3
      <4>. QED
        BY <2>2, <2>3, <3>1, <3>3, <4>1
    <3>. QED
      BY <2>6, <3>2, <3>3 DEF CalculationMoves
  <2>. QED
    BY <1>4, <2>4, <2>5, <2>6, StepsOfCalculation DEF SisCalculating, CalculatorStep
<1>5. CASE EdpsRun
  <2>1. CASE WaitMutex \/ Slept
    <3>1. UNCHANGED <<calcPc, request, alive>>
      BY <2>1 DEF WaitMutex, Slept, hostVars
    <3>2. \A c \in Calculators : Calculating(c)' = Calculating(c)
      BY <3>1 DEF Calculating
    <3>3. Stopped \in Calculators
      BY WorkThreadsAssumption DEF Stopped, Calculators
    <3>4. \A c \in Calculators :
            /\ c # Stopped => owner'[c] = owner[c]
            /\ owner'[c] = "sis" <=> owner[c] = "sis"
            /\ owner'[c] = "edps" <=> runPc' = "sleep" /\ c = Stopped
      BY <2>1, <3>3 DEF WaitMutex, Slept, MutexInv
    <3>. QED
      BY <3>1, <3>2, <3>4 DEF MutexInv
  <2>2. CASE \/ Load \/ StartScheduler \/ Close \/ StopCalculator \/ ReleaseCalculator
             \/ StopScheduler \/ CallFails
    BY <1>2, <2>2 DEF Load, StartScheduler, Close, StopCalculator, ReleaseCalculator,
      StopScheduler, CallFails, CalculatorStart, CalculatorStop, SchedulerStart, SchedulerStop,
      hostVars, calcVars
  <2>. QED
    BY <1>5, <2>1, <2>2 DEF EdpsRun
<1>6. CASE UNCHANGED vars
  BY <1>2, <1>6 DEF vars, hostVars, calcVars
<1>. QED
  BY <1>3, <1>4, <1>5, <1>6 DEF Next

-----------------------------------------------------------------------------
(* Stopping                                                                *)

\* Where the thread dispatches messages, no handler is in the midst of its work.
LEMMA PumpingSuspends ==
  ASSUME TypeOK, StackInv, Pumping
  PROVE  /\ \A c \in Calculators : calcPc[c] \notin {"wait", "line"}
         /\ schedPc \notin {"autoexec", "scan"}
<1>1. Len(stack) \in Nat /\ \A i \in 1 .. Len(stack) : stack[i] \in Handlers
  BY DEF TypeOK
<1>2. stack # << >> => Dispatches(stack[Len(stack)])
  BY <1>1, WorkThreadsAssumption
  DEF Pumping, Top, Nobody, Dispatches, Where, Handlers, Calculators, Sched, InCall
<1>3. \A i \in 1 .. Len(stack) : Dispatches(stack[i])
  BY <1>1, <1>2 DEF StackInv
<1>4. \A h \in Handlers : Where(h) \in {"idle", "drain"} \cup InCall
  BY <1>1, <1>3 DEF StackInv, Dispatches
<1>5. Sched \in Handlers /\ \A c \in Calculators : c \in Handlers /\ c # Sched
  BY WorkThreadsAssumption DEF Handlers, Sched, Calculators
<1>. QED
  BY <1>4, <1>5 DEF Where, InCall

\* StopInv is inductive.
LEMMA StopInvStep ==
  ASSUME TypeOK, StackInv, MutexInv, StopInv, [Next]_vars
  PROVE  StopInv'
<1>. calcPc \in [Calculators -> {"idle", "wait", "line"} \cup InCall]
  BY DEF TypeOK, InCall
<1>1. ASSUME alive' => alive, UNCHANGED <<runPc, calcTimer>>,
             \A c \in Calculators : calcPc'[c] = "wait" => calcPc[c] = "wait"
      PROVE  StopInv'
  BY <1>1 DEF StopInv
<1>2. CASE SisScheduling
  BY <1>1, <1>2 DEF SisScheduling, calcVars, SchedulerTimer, SchedulerStep, AutoexecRow,
    AutoexecQueued, AutoexecTaken, ScanRow, ScanDone, hostVars
<1>3. ASSUME NEW c \in Calculators, SisCalculating(c)
      PROVE  StopInv'
  <2>1. runPc' = runPc
    BY <1>3 DEF SisCalculating
  <2>2. CASE Pumping /\ CalculatorTimer(c)
    <3>1. calcTimer /\ alive
      BY <2>2 DEF CalculatorTimer, Pumping
    <3>. QED
      BY <2>1, <3>1 DEF StopInv
  <2>3. CASE MutexWait(c)
    <3>1. calcPc[c] = "wait" /\ alive
      BY <2>3 DEF MutexWait, Executes
    <3>. QED
      BY <2>1, <3>1 DEF StopInv
  <2>4. CASE CalculationMoves(c)
    BY <1>1, <2>1, <2>4 DEF CalculationMoves, InCall
  <2>. QED
    BY <1>3, <2>2, <2>3, <2>4, StepsOfCalculation DEF SisCalculating, CalculatorStep
<1>4. CASE EdpsRun
  <2>1. CASE Load
    BY <2>1 DEF Load, StopInv, BeforeStop
  <2>2. CASE StartScheduler \/ Close
    BY <2>2 DEF StartScheduler, Close, StopInv, BeforeStop
  <2>3. CASE StopCalculator
    BY <2>3, PumpingSuspends DEF StopCalculator, CalculatorStop, StopInv, BeforeStop
  <2>4. CASE WaitMutex \/ Slept \/ ReleaseCalculator \/ StopScheduler
    <3>1. UNCHANGED <<calcTimer, calcPc>>
      BY <2>4 DEF WaitMutex, Slept, ReleaseCalculator, StopScheduler, calcVars
    <3>2. runPc \notin BeforeStop \cup {"failed"} /\ runPc' \notin BeforeStop \cup {"failed"}
      BY <2>4 DEF WaitMutex, Slept, ReleaseCalculator, StopScheduler, BeforeStop
    <3>. QED
      BY <3>1, <3>2 DEF StopInv
  <2>5. CASE CallFails
    BY <2>5 DEF CallFails, StopInv, BeforeStop, hostVars
  <2>. QED
    BY <1>4, <2>1, <2>2, <2>3, <2>4, <2>5 DEF EdpsRun
<1>5. CASE UNCHANGED vars
  BY <1>1, <1>5 DEF vars, hostVars, calcVars
<1>. QED
  BY <1>2, <1>3, <1>4, <1>5 DEF Next

-----------------------------------------------------------------------------
(* The queue                                                               *)

\* The id of a row of tblFormula.
LEMMA RowId ==
  ASSUME NEW i \in 1 .. Len(Rows)
  PROVE  Rows[i].id \in Scheduled
BY DEF Scheduled

\* Appending a formula that is not queued makes no duplicate.
LEMMA AppendNoDuplicates ==
  ASSUME queue \in Seq(Scheduled), QueueNoDuplicates, NEW f \in Scheduled, f \notin Queued,
         queue' = Append(queue, f)
  PROVE  QueueNoDuplicates'
<1>1. /\ Len(queue) \in Nat /\ Len(queue') = Len(queue) + 1
      /\ queue'[Len(queue) + 1] = f
      /\ \A i \in 1 .. Len(queue) : queue'[i] = queue[i] /\ queue[i] # f
  BY DEF Queued
<1>. QED
  BY <1>1 DEF QueueNoDuplicates

\* Taking the oldest formula makes no duplicate, and adds none.
LEMMA TailNoDuplicates ==
  ASSUME queue \in Seq(Scheduled), QueueNoDuplicates, queue # << >>, queue' = Tail(queue)
  PROVE  /\ QueueNoDuplicates'
         /\ \A i \in 1 .. Len(queue') : i + 1 \in 1 .. Len(queue) /\ queue'[i] = queue[i + 1]
<1>1. /\ Len(queue) \in Nat \ {0} /\ Len(queue') = Len(queue) - 1
      /\ \A i \in 1 .. Len(queue') : queue'[i] = queue[i + 1]
  OBVIOUS
<1>2. \A i \in 1 .. Len(queue') : i + 1 \in 1 .. Len(queue)
  BY <1>1
<1>3. QueueNoDuplicates'
  <2>. SUFFICES ASSUME NEW i \in 1 .. Len(queue'), NEW j \in 1 .. Len(queue'),
                       queue'[i] = queue'[j]
                PROVE  i = j
    BY DEF QueueNoDuplicates
  <2>1. i + 1 = j + 1
    BY <1>1, <1>2 DEF QueueNoDuplicates
  <2>. QED
    BY <1>1, <2>1
<1>. QED
  BY <1>1, <1>2, <1>3

\* QueueInv is inductive.
LEMMA QueueInvStep ==
  ASSUME TypeOK, StackInv, MutexInv, QueueInv, [Next]_vars
  PROVE  QueueInv'
<1>. queue \in Seq(Scheduled) /\ vSchedule \in Seq(ScheduleRow) /\ lCnt \in Nat \ {0}
  BY DEF TypeOK
<1>. Len(Rows) \in Nat
  BY RowsAssumption
<1>1. ASSUME UNCHANGED <<queue, lCnt, vSchedule, bFirstRun, schedPc>>,
             runPc' = "done" <=> runPc = "done"
      PROVE  QueueInv'
  BY <1>1 DEF QueueInv, QueueNoDuplicates
<1>2. CASE SisScheduling
  <2>. UNCHANGED runPc
    BY <1>2 DEF SisScheduling
  <2>1. CASE SchedulerTimer
    <3>1. UNCHANGED <<queue, vSchedule>> /\ bFirstRun' = FALSE
          /\ schedPc' = (IF bFirstRun THEN "autoexec" ELSE "scan")
      BY <2>1 DEF SchedulerTimer
    <3>2. schedPc' = "autoexec" => queue' = << >>
      BY <3>1 DEF QueueInv
    <3>. QED
      BY <3>1, <3>2 DEF QueueInv, QueueNoDuplicates
  <2>2. CASE AutoexecRow \/ ScanRow
    <3>1. /\ lCnt \in 1 .. Len(vSchedule) /\ lCnt \in 1 .. Len(Rows)
          /\ vSchedule[lCnt].id = Rows[lCnt].id
      BY <2>2 DEF AutoexecRow, ScanRow, QueueInv
    <3>2. lCnt' = lCnt + 1 /\ UNCHANGED <<schedPc, bFirstRun>> /\ runPc # "done"
      BY <2>2, <3>1 DEF AutoexecRow, ScanRow, QueueInv
    <3>3. ~bFirstRun
      BY <2>2 DEF AutoexecRow, ScanRow, QueueInv
    <3>4. /\ Len(vSchedule') = Len(vSchedule)
          /\ \A i \in 1 .. Len(vSchedule') : vSchedule'[i].id = vSchedule[i].id
      <4>1. \/ vSchedule' = vSchedule
            \/ \E n : \/ vSchedule' = [vSchedule EXCEPT ![lCnt] = SetTimeLoop(vSchedule[lCnt], n)]
                     \/ vSchedule' = [vSchedule EXCEPT ![lCnt] = SetLeft2Run(vSchedule[lCnt], n)]
        BY <2>2 DEF AutoexecRow, ScanRow
      <4>2. \A n : /\ SetTimeLoop(vSchedule[lCnt], n).id = vSchedule[lCnt].id
                   /\ SetLeft2Run(vSchedule[lCnt], n).id = vSchedule[lCnt].id
        BY DEF SetTimeLoop, SetLeft2Run
      <4>3. \/ vSchedule' = vSchedule
            \/ \E row : row.id = vSchedule[lCnt].id /\ vSchedule' = [vSchedule EXCEPT ![lCnt] = row]
        BY <4>1, <4>2
      <4>. QED
        BY <3>1, <4>3
    <3>5. \A i \in 1 .. Len(vSchedule') : i <= Len(Rows) /\ vSchedule'[i].id = Rows[i].id
      BY <3>4 DEF QueueInv
    <3>6. \/ queue' = queue
          \/ queue' = Append(queue, Rows[lCnt].id) /\ Rows[lCnt].id \notin Queued
      <4>1. CASE ScanRow
        BY <3>1, <4>1 DEF ScanRow, qm_pushex
      <4>2. CASE AutoexecRow
        <5>1. Rows[lCnt].id \notin Queued
          <6>1. \A k \in 1 .. Len(Rows) : k < lCnt => Rows[k].id # Rows[lCnt].id
            BY <3>1, RowsAssumption
          <6>. QED
            BY <4>2, <6>1 DEF AutoexecRow, QueueInv, Queued
        <5>. QED
          BY <3>1, <4>2, <5>1 DEF AutoexecRow, qm_push
      <4>. QED
        BY <2>2, <4>1, <4>2
    <3>7. QueueNoDuplicates'
      BY <3>1, <3>6, RowId, AppendNoDuplicates DEF QueueInv, QueueNoDuplicates
    <3>8. schedPc' = "autoexec" =>
            \A i \in 1 .. Len(queue') :
              \E k \in 1 .. Len(Rows) : k < lCnt' /\ queue'[i] = Rows[k].id
      <4>1. Len(queue) \in Nat
        OBVIOUS
      <4>2. queue' = Append(queue, Rows[lCnt].id) =>
              /\ Len(queue') = Len(queue) + 1 /\ queue'[Len(queue) + 1] = Rows[lCnt].id
              /\ \A i \in 1 .. Len(queue) : queue'[i] = queue[i]
        BY RowId, <3>1
      <4>. QED
        BY <3>1, <3>2, <3>6, <4>1, <4>2 DEF QueueInv
    <3>. QED
      BY <3>2, <3>3, <3>5, <3>7, <3>8 DEF QueueInv
  <2>3. CASE AutoexecQueued \/ AutoexecTaken \/ ScanDone
    <3>1. UNCHANGED <<queue, vSchedule, bFirstRun>> /\ schedPc' # "autoexec"
      BY <2>3 DEF AutoexecQueued, AutoexecTaken, ScanDone, hostVars
    <3>2. ~bFirstRun
      BY <2>3 DEF AutoexecQueued, AutoexecTaken, ScanDone, QueueInv
    <3>. QED
      BY <3>1, <3>2 DEF QueueInv, QueueNoDuplicates
  <2>. QED
    BY <1>2, <2>1, <2>2, <2>3 DEF SisScheduling, SchedulerStep
<1>3. ASSUME NEW c \in Calculators, SisCalculating(c)
      PROVE  QueueInv'
  <2>1. UNCHANGED <<lCnt, vSchedule, bFirstRun, schedPc, runPc>>
    BY <1>3 DEF SisCalculating, schedVars
  <2>2. CASE Pumping /\ CalculatorTimer(c)
    <3>1. queue # << >> /\ queue' = Tail(queue)
      BY <2>2 DEF CalculatorTimer
    <3>2. schedPc # "autoexec"
      BY <2>2, PumpingSuspends
    <3>. QED
      BY <2>1, <3>1, <3>2, TailNoDuplicates DEF QueueInv
  <2>3. CASE MutexWait(c) \/ CalculationMoves(c)
    BY <1>1, <2>1, <2>3 DEF MutexWait, CalculationMoves
  <2>. QED
    BY <1>3, <2>2, <2>3, StepsOfCalculation DEF SisCalculating, CalculatorStep
<1>4. CASE EdpsRun
  <2>1. CASE Load
    <3>1. UNCHANGED <<queue, lCnt, bFirstRun, schedPc>> /\ runPc' # "done" /\ AddSchedules
      BY <2>1 DEF Load, CalculatorStart, hostVars
    <3>2. \A i \in 1 .. Len(vSchedule') : i <= Len(Rows) /\ vSchedule'[i].id = Rows[i].id
      BY <3>1 DEF AddSchedules
    <3>. QED
      BY <3>1, <3>2 DEF QueueInv, QueueNoDuplicates
  <2>2. CASE StopScheduler
    <3>1. queue' = << >> /\ vSchedule' = << >> /\ UNCHANGED <<lCnt, bFirstRun, schedPc>>
      BY <2>2 DEF StopScheduler, SchedulerStop, qm_drain
    <3>2. schedPc # "autoexec"
      BY <2>2, PumpingSuspends DEF StopScheduler
    <3>. QED
      BY <3>1, <3>2 DEF QueueInv, QueueNoDuplicates
  <2>3. CASE \/ StartScheduler \/ Close \/ StopCalculator \/ WaitMutex \/ Slept
             \/ ReleaseCalculator \/ CallFails
    BY <1>1, <2>3 DEF StartScheduler, Close, StopCalculator, WaitMutex, Slept,
      ReleaseCalculator, CallFails, CalculatorStop, SchedulerStart, hostVars, schedVars
  <2>. QED
    BY <1>4, <2>1, <2>2, <2>3 DEF EdpsRun
<1>5. CASE UNCHANGED vars
  BY <1>1, <1>5 DEF vars, hostVars, schedVars
<1>. QED
  BY <1>2, <1>3, <1>4, <1>5 DEF Next

-----------------------------------------------------------------------------
(* The theorems                                                            *)

\* The invariant holds initially.
LEMMA InitInv == Init => IInv
<1>. SUFFICES ASSUME Init PROVE IInv
  OBVIOUS
<1>. USE DEF Init, HostInit, SchedInit, CalcInit
<1>1. TypeOK
  <2>1. << >> \in Seq(Scheduled) /\ << >> \in Seq(Handlers) /\ << >> \in Seq(ScheduleRow)
    OBVIOUS
  <2>. QED
    <3>1. /\ queue \in Seq(Scheduled) /\ stack \in Seq(Handlers) /\ vSchedule \in Seq(ScheduleRow)
          /\ runPc \in RunStates /\ completed \subseteq Scheduled /\ lCnt \in Nat \ {0}
      BY <2>1 DEF RunStates
    <3>2. /\ alive \in BOOLEAN /\ bFirstRun \in BOOLEAN /\ schedTimer \in BOOLEAN
          /\ calcTimer \in BOOLEAN /\ mfdptr \in BOOLEAN
      OBVIOUS
    <3>3. /\ calcPc \in [Calculators -> {"idle", "wait", "line", "plc", "leis", "failing"}]
          /\ request \in [Calculators -> Scheduled \cup {0}]
          /\ iCurrent \in [Calculators -> Nat]
          /\ owner \in [Calculators -> {"none", "sis", "edps"}]
          /\ schedPc \in {"idle", "autoexec", "drain", "scan"}
      OBVIOUS
    <3>. QED
      BY <3>1, <3>2, <3>3 DEF TypeOK
<1>2. StackInv
  BY WorkThreadsAssumption DEF StackInv, Where, Handlers, Sched, Calculators
<1>3. MutexInv
  BY DEF MutexInv, Calculating
<1>4. StopInv /\ QueueInv
  BY DEF StopInv, BeforeStop, QueueInv, QueueNoDuplicates
<1>. QED
  BY <1>1, <1>2, <1>3, <1>4 DEF IInv

\* The inductive invariant: the handlers of Sis.exe nest, the mutexes are owned
\* as the program counters say, nothing is taken after the stop, and the queue
\* has no duplicates, whatever the tables and the number of calculators are.
THEOREM Invariance == Spec => []IInv
<1>1. IInv /\ [Next]_vars => IInv'
  BY TypeOKStep, StackInvStep, MutexInvStep, StopInvStep, QueueInvStep DEF IInv
<1>. QED
  BY <1>1, InitInv, PTL DEF Spec

\* Every variable keeps its type.
THEOREM TypeCorrect == Spec => []TypeOK
BY Invariance, PTL DEF IInv

\* While EDPSRun sleeps with the mutex the calculator it stops is not calculating
\* (Main.frm:258-264, Calculator.cls:508-516).
THEOREM SleepExcludes == Spec => []SleepExcludesCalculation
<1>1. IInv => SleepExcludesCalculation
  BY WorkThreadsAssumption
  DEF IInv, MutexInv, SleepExcludesCalculation, Stopped, Calculators
<1>. QED
  BY <1>1, Invariance, PTL

\* No calculator waits for a mutex that EDPSRun owns, so none loses the request
\* it has taken (Calculator.cls:513-516).
THEOREM NoTimeOut == Spec => []NoRequestTimesOut
<1>1. IInv => NoRequestTimesOut
  BY DEF IInv, MutexInv, StopInv, BeforeStop, NoRequestTimesOut
<1>. QED
  BY <1>1, Invariance, PTL

\* A formula is queued at most once (Scheduler.cls:101-112, 121-135).
THEOREM NoDuplicates == Spec => []QueueNoDuplicates
<1>1. IInv => QueueNoDuplicates
  BY DEF IInv, QueueInv
<1>. QED
  BY <1>1, Invariance, PTL

\* Nothing is queued after Deactivate (Scheduler.cls:241-271).
THEOREM Quiet == Spec => []QuietWhenDone
<1>1. IInv => QuietWhenDone
  BY DEF IInv, QueueInv, QuietWhenDone
<1>. QED
  BY <1>1, Invariance, PTL

\* After the calculators have been stopped no calculation begins.
THEOREM NothingBegins == Spec => NothingBeginsAfterStop
<1>1. ASSUME IInv, [Next]_vars,
             NEW c \in Calculators, runPc \notin BeforeStop, ~Calculating(c)
      PROVE  ~Calculating(c)'
  <2>1. calcPc \in [Calculators -> {"idle", "wait", "line"} \cup InCall]
    BY <1>1 DEF IInv, TypeOK, InCall
  <2>2. CASE UNCHANGED calcPc
    BY <1>1, <2>2 DEF Calculating
  <2>3. ASSUME NEW d \in Calculators, SisCalculating(d)
        PROVE  ~Calculating(c)'
    <3>1. CASE Pumping /\ CalculatorTimer(d)
      BY <1>1, <2>1, <3>1 DEF CalculatorTimer, Calculating
    <3>2. CASE MutexWait(d)
      BY <1>1, <3>2 DEF MutexWait, Executes, IInv, StopInv
    <3>3. CASE CalculationMoves(d)
      BY <1>1, <2>1, <3>3 DEF CalculationMoves, Calculating, InCall
    <3>. QED
      BY <1>1, <2>3, <3>1, <3>2, <3>3, StepsOfCalculation
      DEF IInv, SisCalculating, CalculatorStep
  <2>4. CASE SisScheduling \/ EdpsRun \/ UNCHANGED vars
    <3>. UNCHANGED calcPc
      BY <2>4 DEF SisScheduling, EdpsRun, Load, StartScheduler, Close, StopCalculator, WaitMutex,
        Slept, ReleaseCalculator, StopScheduler, CallFails, CalculatorStart, CalculatorStop,
        calcVars, vars
    <3>. QED
      BY <2>2
  <2>. QED
    BY <1>1, <2>3, <2>4 DEF Next
<1>2. IInv /\ [Next]_vars => 
        (\A c \in Calculators :
           runPc \notin BeforeStop /\ ~Calculating(c) => ~Calculating(c)')
  BY <1>1
<1>. QED
  BY <1>2, Invariance, PTL DEF Spec, NothingBeginsAfterStop

-----------------------------------------------------------------------------
(* The pipeline implements FormulaDispatch                                 *)

\* The variables the refinement mapping is made of.
mapped == <<queue, alive, calcPc, request, runPc>>

\* A step that changes no formula that waits or is worked on, and no phase.
LEMMA Stutter ==
  ASSUME UNCHANGED <<Waiting, Work, Phase>>
  PROVE  [Dispatch!DispatchNext]_(Dispatch!dispatchVars)
BY DEF Dispatch!dispatchVars

LEMMA StutterMapped ==
  ASSUME UNCHANGED mapped
  PROVE  [Dispatch!DispatchNext]_(Dispatch!dispatchVars)
<1>1. Waiting' = Waiting /\ Phase' = Phase
  BY DEF mapped, Waiting, Phase
<1>2. Work' = Work
  BY DEF mapped, Work, Working
<1>. QED
  BY <1>1, <1>2, Stutter

\* What one calculator works on changes, and nothing else is worked on.
LEMMA WorkChanges ==
  ASSUME TypeOK, NEW c \in Calculators, NEW p, NEW f \in Scheduled \cup {0},
         alive, alive' = alive, calcPc' = [calcPc EXCEPT ![c] = p],
         request' = [request EXCEPT ![c] = f]
  PROVE  Work' = [Work EXCEPT ![c] = IF p = "idle" THEN 0 ELSE f]
<1>1. DOMAIN calcPc = Calculators /\ DOMAIN request = Calculators
  BY DEF TypeOK
<1>2. \A d \in Calculators :
        Working(d)' = IF d = c THEN (IF p = "idle" THEN 0 ELSE f) ELSE Working(d)
  BY <1>1 DEF Working, NoFormula
<1>. QED
  BY <1>2 DEF Work

\* The death of the process is a crash.
LEMMA Crashes ==
  ASSUME ~alive'
  PROVE  [Dispatch!DispatchNext]_(Dispatch!dispatchVars)
<1>1. Waiting' = << >> /\ Phase' = "dead" /\ Work' = [c \in Calculators |-> 0]
  BY DEF Waiting, Phase, Work, Working, NoFormula
<1>. QED
  BY <1>1 DEF Dispatch!DispatchNext, Dispatch!Crash, NoFormula

\* Queueing a formula is a request.
LEMMA SchedulingImplements ==
  ASSUME IInv, SisScheduling
  PROVE  [Dispatch!DispatchNext]_(Dispatch!dispatchVars)
<1>1. UNCHANGED <<calcPc, request, runPc>>
  BY DEF SisScheduling, calcVars
<1>2. CASE SchedulerTimer \/ AutoexecQueued \/ AutoexecTaken \/ ScanDone
  BY <1>1, <1>2, StutterMapped
  DEF SchedulerTimer, AutoexecQueued, AutoexecTaken, ScanDone, hostVars, mapped
<1>3. CASE AutoexecRow \/ ScanRow
  <2>1. /\ alive /\ alive' = alive /\ runPc # "done"
    BY <1>3 DEF AutoexecRow, ScanRow, Executes, IInv, TypeOK, QueueInv
  <2>2. Waiting = queue /\ Waiting' = queue' /\ Work' = Work /\ Phase' = Phase
    BY <1>1, <2>1 DEF Waiting, Work, Working, Phase
  <2>3. CASE queue' = queue
    BY <2>2, <2>3, Stutter
  <2>4. CASE queue' # queue
    <3>1. QueueInv /\ lCnt \in 1 .. Len(vSchedule) /\ vSchedule[lCnt].id \in Scheduled
      BY <1>3, RowAtCounter DEF AutoexecRow, ScanRow, IInv
    <3>2. queue' = Append(queue, vSchedule[lCnt].id)
      BY <1>3, <2>4 DEF AutoexecRow, ScanRow, qm_push, qm_pushex
    <3>3. vSchedule[lCnt].id \notin Queued
      <4>1. CASE ScanRow
        BY <2>4, <4>1 DEF ScanRow, qm_pushex
      <4>2. CASE AutoexecRow
        <5>1. Len(Rows) \in Nat /\ lCnt \in 1 .. Len(Rows) /\ vSchedule[lCnt].id = Rows[lCnt].id
          BY <3>1, RowsAssumption DEF QueueInv
        <5>2. \A k \in 1 .. Len(Rows) : k < lCnt => Rows[k].id # Rows[lCnt].id
          BY <5>1, RowsAssumption
        <5>. QED
          BY <3>1, <4>2, <5>1, <5>2 DEF AutoexecRow, QueueInv, Queued
      <4>. QED
        BY <1>3, <4>1, <4>2
    <3>4. Phase \in {"open", "stopping"}
      BY <2>1 DEF Phase
    <3>5. Dispatch!Request(vSchedule[lCnt].id)
      BY <2>2, <3>2, <3>3, <3>4 DEF Dispatch!Request, Dispatch!InLine, Queued
    <3>. QED
      BY <3>1, <3>5 DEF Dispatch!DispatchNext
  <2>. QED
    BY <2>3, <2>4
<1>. QED
  BY <1>2, <1>3 DEF SisScheduling, SchedulerStep

\* Taking a request begins its calculation, the end of the event ends it.
LEMMA CalculatingImplements ==
  ASSUME IInv, NEW c \in Calculators, SisCalculating(c)
  PROVE  [Dispatch!DispatchNext]_(Dispatch!dispatchVars)
<1>1. TypeOK /\ runPc' = runPc
  BY DEF IInv, SisCalculating
<1>2. CASE Pumping /\ CalculatorTimer(c)
  <2>1. /\ alive /\ queue # << >> /\ queue' = Tail(queue)
        /\ request' = [request EXCEPT ![c] = Head(queue)] /\ Head(queue) \in Scheduled
    BY <1>1, <1>2 DEF Pumping, CalculatorTimer, TypeOK
  <2>2. calcPc[c] = "idle"
    BY <1>2 DEF CalculatorTimer, IInv, StackInv, Active, Where, Handlers, Sched, Calculators
  <2>3. runPc \in BeforeStop
    BY <1>2, <2>1 DEF CalculatorTimer, IInv, StopInv
  <2>4. CASE ~alive'
    BY <2>4, Crashes
  <2>5. CASE alive'
    <3>1. calcPc' = [calcPc EXCEPT ![c] = "wait"]
      BY <1>2, <2>5 DEF CalculatorTimer
    <3>2. alive' = alive
      BY <1>2, <2>5, <2>1 DEF CalculatorTimer
    <3>3. Work' = [Work EXCEPT ![c] = Head(queue)]
      BY <1>1, <2>1, <3>1, <3>2, WorkChanges
    <3>4. Work[c] = 0
      BY <2>2 DEF Work, Working, NoFormula
    <3>5. Waiting = queue /\ Waiting' = Tail(queue) /\ Phase = "open" /\ Phase' = "open"
      BY <1>1, <2>1, <2>3, <3>2 DEF Waiting, Phase
    <3>6. Dispatch!Begin(c)
      BY <2>1, <3>3, <3>4, <3>5 DEF Dispatch!Begin, NoFormula
    <3>. QED
      BY <3>6 DEF Dispatch!DispatchNext
  <2>. QED
    BY <2>4, <2>5
<1>3. CASE MutexWait(c)
  <2>1. alive /\ calcPc[c] = "wait" /\ UNCHANGED <<queue, request>>
    BY <1>3 DEF MutexWait, Executes
  <2>2. owner[c] = "none"
    BY <2>1 DEF IInv, TypeOK, MutexInv, StopInv, BeforeStop, Calculating
  <2>3. calcPc' = [calcPc EXCEPT ![c] = "line"]
    BY <1>3, <2>2 DEF MutexWait
  <2>4. CASE ~alive'
    BY <2>4, Crashes
  <2>5. CASE alive'
    <3>1. alive' = alive
      BY <1>3, <2>1, <2>2, <2>5 DEF MutexWait
    <3>2. request' = [request EXCEPT ![c] = request[c]] /\ request[c] \in Scheduled \cup {0}
      BY <1>1, <2>1 DEF TypeOK
    <3>3. Work' = [Work EXCEPT ![c] = request[c]]
      BY <1>1, <2>1, <2>3, <3>1, <3>2, WorkChanges
    <3>4. Work[c] = request[c] /\ Work = [Work EXCEPT ![c] = Work[c]]
      BY <2>1 DEF Work, Working
    <3>5. Waiting' = Waiting /\ Phase' = Phase
      BY <1>1, <2>1, <3>1 DEF Waiting, Phase
    <3>. QED
      BY <3>3, <3>4, <3>5, Stutter
  <2>. QED
    BY <2>4, <2>5
<1>4. CASE CalculationMoves(c)
  <2>1. alive /\ alive' = alive /\ UNCHANGED <<queue, request>> /\ calcPc[c] # "idle"
    BY <1>4 DEF CalculationMoves, Executes, InCall
  <2>2. request[c] # 0
    BY <1>4, <2>1, LinesAssumption DEF CalculationMoves, IInv, MutexInv, Calculating, InCall
  <2>3. request' = [request EXCEPT ![c] = request[c]] /\ request[c] \in Scheduled \cup {0}
    BY <1>1, <2>1 DEF TypeOK
  <2>4. Work[c] = request[c] /\ Work = [Work EXCEPT ![c] = Work[c]]
    BY <2>1 DEF Work, Working
  <2>5. Waiting' = Waiting /\ Phase' = Phase /\ Phase # "dead"
    BY <1>1, <2>1 DEF Waiting, Phase
  <2>6. CASE calcPc' = [calcPc EXCEPT ![c] = "idle"]
    <3>1. Work' = [Work EXCEPT ![c] = 0]
      BY <1>1, <2>1, <2>3, <2>6, WorkChanges
    <3>2. Dispatch!End(c)
      BY <2>2, <2>4, <2>5, <3>1 DEF Dispatch!End, NoFormula
    <3>. QED
      BY <3>2 DEF Dispatch!DispatchNext
  <2>7. ASSUME NEW p \in InCall \cup {"line"}, calcPc' = [calcPc EXCEPT ![c] = p]
        PROVE  [Dispatch!DispatchNext]_(Dispatch!dispatchVars)
    <3>1. Work' = [Work EXCEPT ![c] = request[c]]
      BY <1>1, <2>1, <2>3, <2>7, WorkChanges DEF InCall
    <3>. QED
      BY <2>4, <2>5, <3>1, Stutter
  <2>. QED
    BY <1>4, <2>6, <2>7 DEF CalculationMoves
<1>. QED
  BY <1>2, <1>3, <1>4, StepsOfCalculation DEF IInv, SisCalculating, CalculatorStep

\* Stopping the calculators is Stop, stopping the scheduler Discard.
LEMMA EdpsRunImplements ==
  ASSUME IInv, EdpsRun
  PROVE  [Dispatch!DispatchNext]_(Dispatch!dispatchVars)
<1>1. UNCHANGED <<alive, calcPc, request>>
  BY DEF EdpsRun, Load, StartScheduler, Close, StopCalculator, WaitMutex, Slept,
    ReleaseCalculator, StopScheduler, CallFails, CalculatorStart, CalculatorStop,
    SchedulerStart, SchedulerStop, hostVars, calcVars
<1>2. Work' = Work
  BY <1>1 DEF Work, Working
<1>3. CASE \/ Load \/ StartScheduler \/ Close \/ WaitMutex \/ Slept \/ ReleaseCalculator
           \/ CallFails
  <2>1. queue' = queue
    BY <1>3 DEF Load, StartScheduler, Close, WaitMutex, Slept, ReleaseCalculator, CallFails,
      CalculatorStart, SchedulerStart, hostVars
  <2>2. Waiting' = Waiting
    BY <1>1, <2>1 DEF Waiting
  <2>3. Phase' = Phase
    BY <1>1, <1>3 DEF Load, StartScheduler, Close, WaitMutex, Slept, ReleaseCalculator, CallFails,
      Phase, BeforeStop
  <2>. QED
    BY <1>2, <2>2, <2>3, Stutter
<1>4. CASE StopCalculator
  <2>1. alive /\ queue' = queue /\ runPc = "stopCalc" /\ runPc' = "waitMutex"
    BY <1>4 DEF StopCalculator, CalculatorStop, Pumping, hostVars
  <2>2. Waiting' = Waiting /\ Phase = "open" /\ Phase' = "stopping"
    BY <1>1, <2>1 DEF Waiting, Phase, BeforeStop
  <2>. QED
    BY <1>2, <2>2 DEF Dispatch!DispatchNext, Dispatch!Stop
<1>5. CASE StopScheduler
  <2>1. alive /\ queue' = << >> /\ runPc = "stopSched" /\ runPc' = "done"
    BY <1>5 DEF StopScheduler, SchedulerStop, qm_drain, Pumping
  <2>2. Waiting' = << >> /\ Phase = "stopping" /\ Phase' = "closed"
    BY <1>1, <2>1 DEF Waiting, Phase, BeforeStop
  <2>. QED
    BY <1>2, <2>2 DEF Dispatch!DispatchNext, Dispatch!Discard
<1>. QED
  BY <1>3, <1>4, <1>5 DEF EdpsRun

\* The pipeline of SIS implements FormulaDispatch: no request is lost, doubled,
\* invented or overtaken, and none is begun once the calculators are stopped,
\* for any tables of formulas and any number of calculators.
THEOREM Refinement == Spec => ImplementsDispatch
<1>1. Init => Dispatch!DispatchInit
  BY DEF Init, HostInit, CalcInit, Dispatch!DispatchInit, Waiting, Work, Working, Phase, NoFormula,
    BeforeStop
<1>2. IInv /\ [Next]_vars => [Dispatch!DispatchNext]_(Dispatch!dispatchVars)
  <2>1. CASE UNCHANGED vars
    BY <2>1, StutterMapped DEF vars, hostVars, calcVars, mapped
  <2>. QED
    BY <2>1, SchedulingImplements, CalculatingImplements, EdpsRunImplements DEF Next
<1>. QED
  BY <1>1, <1>2, Invariance, PTL DEF Spec, ImplementsDispatch, Dispatch!DispatchSpec
=============================================================================
