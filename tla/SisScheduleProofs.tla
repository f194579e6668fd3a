--------------------------- MODULE SisScheduleProofs ---------------------------
(***************************************************************************)
(* Proofs about what the scheduler queues and when, for any table of       *)
(* formulas and any number of calculators.                                 *)
(***************************************************************************)
EXTENDS SisProofs, WellFoundedInduction

\* Calculator c has taken formula f and has not returned.
HasTaken(c, f) == calcPc[c] # "idle" /\ request[c] = f

\* The autoexec loop of the first timer event has passed row i.
Passed(i) == ~bFirstRun /\ (schedPc = "autoexec" => i < lCnt)

\* The table is filled before the scheduler starts.
TableInv ==
  /\ runPc = "load" => vSchedule = << >>
  /\ runPc \in {"load", "start", "notStarted"} => ~schedTimer
  /\ runPc \in {"load", "start"} => bFirstRun
  /\ runPc = "start" \/ schedTimer => Len(vSchedule) = Len(Rows)
  /\ \A i \in 1 .. Len(vSchedule) :
       vSchedule[i].loop = IF Rows[i].loop = -1 /\ Passed(i) THEN 0 ELSE Rows[i].loop

\* Until its first event the scheduler queues nothing, so no calculator works;
\* during that event it is the first handler of the thread, below all others.
FirstInv ==
  /\ bFirstRun => \A c \in Calculators : calcPc[c] = "idle"
  /\ schedPc \in {"autoexec", "drain"} => stack[1] = Sched
  /\ \A c \in Calculators : calcPc[c] # "idle" => request[c] \in Scheduled

\* An autoexec formula the loop has passed is queued, calculated or done.
AutoexecInv ==
  alive /\ schedTimer /\ schedPc \in {"autoexec", "drain"} =>
    \A i \in 1 .. Len(Rows) :
      Rows[i].loop = -1 /\ Passed(i) =>
        \/ Rows[i].id \in Queued \cup completed
        \/ \E c \in Calculators : HasTaken(c, Rows[i].id)

TickInv == \E n \in Nat : CountedTo(n)

ScheduleInv == TableInv /\ FirstInv /\ AutoexecInv /\ AutoexecFirst /\ TickInv

-----------------------------------------------------------------------------
(* The table                                                               *)

\* The fields of a row of tblFormula.
LEMMA RowTypes == \A i \in 1 .. Len(Rows) : Rows[i].id \in Nat \ {0} /\ Rows[i].loop \in Int
<1>. SUFFICES ASSUME NEW i \in 1 .. Len(Rows)
              PROVE  Rows[i].id \in Nat \ {0} /\ Rows[i].loop \in Int
  OBVIOUS
<1>1. Rows[i] \in [id : Nat \ {0}, loop : Int]
  <2>. i \in DOMAIN Rows /\ Rows \in Seq([id : Nat \ {0}, loop : Int])
    BY RowsAssumption
  <2>. QED
    BY ElementOfSequence
<1>. QED
  BY <1>1

\* A row that changes keeps the other rows, and the table its length.
LEMMA RowChanges ==
  ASSUME TypeOK, NEW i \in 1 .. Len(vSchedule), NEW s \in ScheduleRow,
         vSchedule' = [vSchedule EXCEPT ![i] = s]
  PROVE  /\ Len(vSchedule') = Len(vSchedule)
         /\ vSchedule'[i] = s
         /\ \A j \in 1 .. Len(vSchedule) : j # i => vSchedule'[j] = vSchedule[j]
BY DEF TypeOK

\* What the passes of the two loops do to their row.
LEMMA PassChanges ==
  ASSUME TypeOK, QueueInv, AutoexecRow \/ ScanRow
  PROVE  /\ lCnt \in 1 .. Len(vSchedule) /\ lCnt' = lCnt + 1 /\ Len(vSchedule) <= Len(Rows)
         /\ UNCHANGED <<schedPc, bFirstRun, schedTimer>> /\ Len(vSchedule') = Len(vSchedule)
         /\ \A j \in 1 .. Len(vSchedule) : j # lCnt => vSchedule'[j] = vSchedule[j]
         /\ AutoexecRow => vSchedule'[lCnt].loop = IF vSchedule[lCnt].loop = -1 THEN 0
                                                 ELSE vSchedule[lCnt].loop
         /\ ScanRow =>
              /\ vSchedule'[lCnt].loop = vSchedule[lCnt].loop
              /\ vSchedule[lCnt].loop > 0 /\ vSchedule[lCnt].left > 0 =>
                   vSchedule'[lCnt].left = IF vSchedule[lCnt].left = 1 THEN vSchedule[lCnt].loop
                                           ELSE vSchedule[lCnt].left - 1
<1>. DEFINE s == vSchedule[lCnt]
<1>1. lCnt <= Len(vSchedule) /\ lCnt' = lCnt + 1 /\ UNCHANGED <<schedPc, bFirstRun, schedTimer>>
  BY DEF AutoexecRow, ScanRow
<1>2. lCnt \in 1 .. Len(vSchedule) /\ s \in ScheduleRow /\ s.loop \in Int /\ s.left \in Int
  BY <1>1, RowAtCounter
<1>3. Len(vSchedule) <= Len(Rows)
  BY <1>2 DEF QueueInv, TypeOK
<1>4. ASSUME NEW t \in ScheduleRow, vSchedule' = [vSchedule EXCEPT ![lCnt] = t]
      PROVE  /\ Len(vSchedule') = Len(vSchedule) /\ vSchedule'[lCnt] = t
             /\ \A j \in 1 .. Len(vSchedule) : j # lCnt => vSchedule'[j] = vSchedule[j]
  BY <1>2, <1>4, RowChanges
<1>5. \A n \in Int : /\ SetTimeLoop(s, n) \in ScheduleRow /\ SetLeft2Run(s, n) \in ScheduleRow
                     /\ SetTimeLoop(s, n).loop = n
                     /\ SetLeft2Run(s, n).loop = s.loop /\ SetLeft2Run(s, n).left = n
  BY <1>2, UpdateRow DEF SetTimeLoop, SetLeft2Run
<1>6. CASE AutoexecRow
  <2>1. CASE s.loop = -1
    <3>1. vSchedule' = [vSchedule EXCEPT ![lCnt] = SetTimeLoop(s, 0)]
      BY <1>6, <2>1 DEF AutoexecRow
    <3>2. ~ScanRow
      BY <1>6 DEF AutoexecRow, ScanRow
    <3>. HIDE DEF s
    <3>3. SetTimeLoop(s, 0) \in ScheduleRow /\ SetTimeLoop(s, 0).loop = 0
      BY <1>5
    <3>4. /\ Len(vSchedule') = Len(vSchedule) /\ vSchedule'[lCnt] = SetTimeLoop(s, 0)
          /\ \A j \in 1 .. Len(vSchedule) : j # lCnt => vSchedule'[j] = vSchedule[j]
      BY <1>4, <3>1, <3>3
    <3>. QED
      BY <1>1, <1>2, <1>3, <2>1, <3>2, <3>3, <3>4 DEF s
  <2>2. CASE s.loop # -1
    <3>1. UNCHANGED vSchedule /\ ~ScanRow
      BY <1>6, <2>2 DEF AutoexecRow, ScanRow
    <3>. QED
      BY <1>1, <1>2, <1>3, <2>2, <3>1
  <2>. QED
    BY <2>1, <2>2
<1>7. CASE ScanRow
  <2>0. ~AutoexecRow
    BY <1>7 DEF AutoexecRow, ScanRow
  <2>1. CASE s.loop > 0 /\ s.left > 0
    <3>. DEFINE n == IF s.left = 1 THEN s.loop ELSE s.left - 1
    <3>1. n \in Int /\ vSchedule' = [vSchedule EXCEPT ![lCnt] = SetLeft2Run(s, n)]
      BY <1>2, <1>7, <2>1 DEF ScanRow
    <3>. HIDE DEF n, s
    <3>2. SetLeft2Run(s, n) \in ScheduleRow /\ SetLeft2Run(s, n).loop = s.loop
          /\ SetLeft2Run(s, n).left = n
      BY <1>5, <3>1
    <3>3. /\ Len(vSchedule') = Len(vSchedule) /\ vSchedule'[lCnt] = SetLeft2Run(s, n)
          /\ \A j \in 1 .. Len(vSchedule) : j # lCnt => vSchedule'[j] = vSchedule[j]
      BY <1>4, <3>1, <3>2
    <3>. QED
      BY <1>1, <1>2, <1>3, <2>0, <3>2, <3>3 DEF s, n
  <2>2. CASE ~(s.loop > 0 /\ s.left > 0)
    <3>1. UNCHANGED vSchedule
      BY <1>7, <2>2 DEF ScanRow
    <3>. QED
      BY <1>1, <1>2, <1>3, <2>0, <2>2, <3>1
  <2>. QED
    BY <2>1, <2>2
<1>. QED
  BY <1>6, <1>7

LEMMA TableStep ==
  ASSUME IInv, TableInv, [Next]_vars
  PROVE  TableInv'
<1>. TypeOK /\ QueueInv /\ StackInv
  BY DEF IInv
<1>. vSchedule \in Seq(ScheduleRow) /\ Len(vSchedule) \in Nat /\ lCnt \in Nat \ {0}
  BY DEF TypeOK
<1>0. ASSUME UNCHANGED <<vSchedule, bFirstRun, schedPc, lCnt, schedTimer>>,
             runPc' \in {"load", "start", "notStarted"} => runPc' = runPc
      PROVE  TableInv'
  BY <1>0 DEF TableInv, Passed
<1>1. CASE SisScheduling
  <2>. UNCHANGED runPc
    BY <1>1 DEF SisScheduling
  <2>1. CASE SchedulerTimer
    <3>1. schedTimer /\ UNCHANGED <<schedTimer, vSchedule>> /\ ~bFirstRun' /\ lCnt' = 1
          /\ schedPc' = (IF bFirstRun THEN "autoexec" ELSE "scan") /\ Sched \notin Active
      BY <2>1 DEF SchedulerTimer
    <3>2. schedPc = "idle"
      BY <3>1, WorkThreadsAssumption DEF StackInv, Where, Active, Handlers
    <3>3. \A i \in 1 .. Len(vSchedule) : Passed(i)' <=> Passed(i)
      BY <3>1, <3>2 DEF Passed
    <3>. QED
      BY <3>1, <3>3 DEF TableInv
  <2>2. CASE AutoexecRow \/ ScanRow
    <3>1. \A i \in 1 .. Len(vSchedule) : i # lCnt => (Passed(i)' <=> Passed(i))
      BY <2>2, PassChanges DEF Passed
    <3>2. ~bFirstRun
      BY <2>2 DEF QueueInv, AutoexecRow, ScanRow
    <3>3. \A i \in 1 .. Len(vSchedule) : i = lCnt /\ AutoexecRow => ~Passed(i) /\ Passed(i)'
      BY <2>2, <3>2, PassChanges DEF Passed, AutoexecRow
    <3>4. \A i \in 1 .. Len(vSchedule) : i = lCnt /\ ScanRow => Passed(i) /\ Passed(i)'
      BY <2>2, <3>2, PassChanges DEF Passed, ScanRow
    <3>5. ASSUME NEW i \in 1 .. Len(vSchedule)
          PROVE  vSchedule'[i].loop = IF Rows[i].loop = -1 /\ Passed(i)' THEN 0 ELSE Rows[i].loop
      <4>1. CASE i # lCnt
        BY <2>2, <3>1, <4>1, PassChanges DEF TableInv
      <4>2. CASE i = lCnt /\ AutoexecRow
        BY <3>3, <4>2, PassChanges DEF TableInv
      <4>3. CASE i = lCnt /\ ScanRow
        BY <3>4, <4>3, PassChanges DEF TableInv
      <4>. QED
        BY <2>2, <4>1, <4>2, <4>3
    <3>6. UNCHANGED <<schedTimer, bFirstRun>> /\ Len(vSchedule') = Len(vSchedule)
          /\ lCnt \in 1 .. Len(vSchedule)
      BY <2>2, PassChanges
    <3>7. runPc # "load"
      BY <3>6 DEF TableInv
    <3>. QED
      BY <3>5, <3>6, <3>7 DEF TableInv
  <2>3. CASE AutoexecQueued \/ AutoexecTaken \/ ScanDone
    <3>1. UNCHANGED <<schedTimer, vSchedule, bFirstRun>>
      BY <2>3 DEF AutoexecQueued, AutoexecTaken, ScanDone
    <3>2. \A i \in 1 .. Len(vSchedule) : Passed(i)' <=> Passed(i)
      BY <2>3 DEF AutoexecQueued, AutoexecTaken, ScanDone, Passed
    <3>. QED
      BY <3>1, <3>2 DEF TableInv
  <2>. QED
    BY <1>1, <2>1, <2>2, <2>3 DEF SisScheduling, SchedulerStep
<1>2. ASSUME NEW c \in Calculators, SisCalculating(c)
      PROVE  TableInv'
  BY <1>0, <1>2 DEF SisCalculating, schedVars
<1>3. CASE Load
  <2>1. UNCHANGED <<schedTimer, bFirstRun, schedPc, lCnt>> /\ runPc = "load" /\ AddSchedules
        /\ runPc' \in {"start", "notStarted"}
    BY <1>3 DEF Load
  <2>2. Len(vSchedule') = Len(Rows) /\ \A i \in 1 .. Len(Rows) : vSchedule'[i].loop = Rows[i].loop
    BY <2>1, RowsAssumption DEF AddSchedules
  <2>3. \A i : ~Passed(i)'
    BY <2>1 DEF Passed, TableInv
  <2>. QED
    BY <2>1, <2>2, <2>3 DEF TableInv
<1>4. CASE StartScheduler
  BY <1>4 DEF StartScheduler, SchedulerStart, TableInv, Passed
<1>5. CASE StopScheduler
  <2>1. vSchedule' = << >> /\ ~schedTimer' /\ runPc' = "done"
    BY <1>5 DEF StopScheduler, SchedulerStop
  <2>. QED
    BY <2>1 DEF TableInv
<1>6. CASE Close \/ StopCalculator \/ WaitMutex \/ Slept \/ ReleaseCalculator \/ CallFails \/ UNCHANGED vars
  BY <1>0, <1>6 DEF Close, StopCalculator, WaitMutex, Slept, ReleaseCalculator, CallFails, schedVars, vars
<1>. QED
  BY <1>1, <1>2, <1>3, <1>4, <1>5, <1>6 DEF Next, EdpsRun

-----------------------------------------------------------------------------
(* The first timer event                                                   *)

\* Who works is on the stack, and the scheduler is there from its entry on.
LEMMA OnStack ==
  ASSUME TypeOK, StackInv
  PROVE  /\ Len(stack) \in Nat /\ \A i \in 1 .. Len(stack) : stack[i] \in Handlers
         /\ schedPc # "idle" <=> \E i \in 1 .. Len(stack) : stack[i] = Sched
         /\ \A c \in Calculators :
              /\ c # Sched
              /\ calcPc[c] # "idle" <=> \E i \in 1 .. Len(stack) : stack[i] = c
BY WorkThreadsAssumption DEF TypeOK, StackInv, Where, Handlers, Calculators, Sched

\* Where the scheduler goes on alone, it is the only handler.
LEMMA SchedulerAlone ==
  ASSUME TypeOK, StackInv, Executes(Sched), stack[1] = Sched
  PROVE  \A c \in Calculators : calcPc[c] = "idle"
<1>1. Len(stack) \in Nat \ {0} /\ stack[Len(stack)] = Sched
  BY WorkThreadsAssumption, ExecutesTop DEF Handlers, TypeOK
<1>2. Len(stack) = 1
  <2>1. /\ 1 \in 1 .. Len(stack) /\ Len(stack) \in 1 .. Len(stack)
        /\ stack[1] = stack[Len(stack)]
    BY <1>1
  <2>. QED
    BY <2>1 DEF StackInv
<1>. QED
  BY <1>1, <1>2, OnStack

\* What the calculators do to the queue, to what they have taken and to the
\* stack below the top.
LEMMA CalculatingChanges ==
  ASSUME IInv, FirstInv, NEW c \in Calculators, SisCalculating(c)
  PROVE  /\ UNCHANGED <<schedVars, runPc>> /\ alive
         /\ \A d \in Calculators \ {c} : calcPc'[d] = calcPc[d] /\ request'[d] = request[d]
         /\ \/ /\ queue # << >> /\ queue' = Tail(queue) /\ request'[c] = Head(queue)
               /\ calcPc[c] = "idle" /\ UNCHANGED completed
               /\ \/ LookupFails(c, Head(queue)) /\ alive' = FALSE /\ UNCHANGED <<calcPc, stack>>
                  \/ calcPc'[c] = "wait" /\ Enter(c) /\ UNCHANGED alive
            \/ /\ calcPc[c] = "wait" /\ calcPc'[c] = "line" /\ alive' = (request[c] \in vFormulas(c))
               /\ UNCHANGED <<queue, request, completed, stack>>
            \/ /\ calcPc[c] # "idle" /\ UNCHANGED <<queue, request, alive>>
               /\ IF calcPc'[c] = "idle" THEN completed' = completed \cup {request[c]} /\ Leave
                  ELSE UNCHANGED <<completed, stack>>
               /\ Executes(c)
<1>. /\ TypeOK /\ StackInv /\ MutexInv /\ StopInv
     /\ calcPc \in [Calculators -> {"idle", "wait", "line"} \cup InCall]
     /\ request \in [Calculators -> Scheduled \cup {0}]
  BY DEF IInv, TypeOK, InCall
<1>1. UNCHANGED <<schedVars, runPc>>
  BY DEF SisCalculating
<1>2. CASE Pumping /\ CalculatorTimer(c)
  <2>1. /\ queue # << >> /\ queue' = Tail(queue)
        /\ request' = [request EXCEPT ![c] = Head(queue)] /\ alive
        /\ \/ LookupFails(c, Head(queue)) /\ alive' = FALSE /\ UNCHANGED <<calcPc, stack>>
           \/ calcPc' = [calcPc EXCEPT ![c] = "wait"] /\ Enter(c) /\ UNCHANGED alive
    BY <1>2 DEF CalculatorTimer, Pumping
  <2>2. calcPc[c] = "idle"
    BY <1>2, OnStack DEF CalculatorTimer, Active
  <2>3. UNCHANGED completed
    BY <2>2 DEF SisCalculating, Calculating
  <2>. QED
    BY <1>1, <2>1, <2>2, <2>3
<1>3. CASE MutexWait(c)
  <2>1. owner[c] = "none"
    <3>1. calcPc[c] = "wait"
      BY <1>3 DEF MutexWait
    <3>2. owner[c] # "edps" /\ owner[c] # "sis"
      BY <3>1 DEF MutexInv, StopInv, BeforeStop, Calculating
    <3>. QED
      BY <3>2 DEF TypeOK
  <2>2. /\ calcPc[c] = "wait" /\ calcPc' = [calcPc EXCEPT ![c] = "line"]
        /\ alive /\ alive' = (request[c] \in vFormulas(c)) /\ UNCHANGED <<queue, request, stack>>
    BY <1>3, <2>1 DEF MutexWait, Executes
  <2>3. UNCHANGED completed
    BY <2>2 DEF SisCalculating, Calculating
  <2>. QED
    BY <1>1, <2>2, <2>3
<1>4. CASE CalculationMoves(c)
  <2>1. /\ Executes(c) /\ alive /\ calcPc[c] \in InCall \cup {"line"} /\ UNCHANGED <<queue, request, alive>>
        /\ \A d \in Calculators \ {c} : calcPc'[d] = calcPc[d]
        /\ \/ calcPc'[c] = "idle" /\ Leave
           \/ calcPc'[c] # "idle" /\ UNCHANGED stack
    BY <1>4 DEF CalculationMoves, Executes, InCall
  <2>2. completed' = IF calcPc'[c] = "idle" THEN completed \cup {request[c]} ELSE completed
    BY <2>1 DEF SisCalculating, Calculating, InCall
  <2>. QED
    BY <1>1, <2>1, <2>2 DEF InCall
<1>. QED
  BY <1>2, <1>3, <1>4, StepsOfCalculation DEF SisCalculating, CalculatorStep

LEMMA CalculatingStack ==
  ASSUME IInv, FirstInv, NEW c \in Calculators, SisCalculating(c)
  PROVE  stack' = stack \/ Enter(c) \/ (Executes(c) /\ Leave)
<1>1. CASE CalculatorTimer(c)
  BY <1>1 DEF CalculatorTimer
<1>2. CASE MutexWait(c)
  BY <1>2 DEF MutexWait
<1>3. CASE CalculationMoves(c)
  BY <1>3 DEF CalculationMoves
<1>. QED
  BY <1>1, <1>2, <1>3, StepsOfCalculation DEF SisCalculating, CalculatorStep, IInv

\* The bottom of the stack stays as long as the scheduler has not returned.
LEMMA BottomStays ==
  ASSUME TypeOK, StackInv, stack[1] = Sched, stack # << >>, NEW c \in Calculators,
         Enter(c) \/ (Executes(c) /\ Leave)
  PROVE  stack'[1] = Sched
<1>. c \in Handlers /\ c # Sched
  BY OnStack DEF Handlers
<1>1. stack \in Seq(Handlers) /\ Len(stack) \in Nat \ {0}
  BY DEF TypeOK
<1>2. CASE Enter(c)
  BY <1>1, <1>2, EnterStack
<1>3. CASE Executes(c) /\ Leave
  <2>1. stack[Len(stack)] = c
    BY <1>1, <1>3, ExecutesTop
  <2>2. Len(stack) # 1
    BY <2>1
  <2>. QED
    BY <1>1, <1>3, <2>2, LeaveStack
<1>. QED
  BY <1>2, <1>3

LEMMA FirstStep ==
  ASSUME IInv, TableInv, FirstInv, [Next]_vars
  PROVE  FirstInv'
<1>. TypeOK /\ StackInv /\ QueueInv
  BY DEF IInv
<1>0. ASSUME UNCHANGED <<calcPc, request, bFirstRun, schedPc, stack>>
      PROVE  FirstInv'
  BY <1>0 DEF FirstInv
<1>1. CASE SisScheduling
  <2>0. UNCHANGED <<calcPc, request>>
    BY <1>1 DEF SisScheduling, calcVars
  <2>1. CASE SchedulerTimer
    <3>1. Enter(Sched) /\ ~bFirstRun' /\ schedPc' = (IF bFirstRun THEN "autoexec" ELSE "scan")
          /\ Sched \notin Active
      BY <2>1 DEF SchedulerTimer
    <3>2. schedPc = "idle"
      BY <3>1, OnStack DEF Active
    <3>3. bFirstRun => stack = << >>
      <4>1. bFirstRun => \A h \in Handlers : ~ \E i \in 1 .. Len(stack) : stack[i] = h
        BY <3>2, OnStack DEF FirstInv, Handlers
      <4>2. bFirstRun => ~ \E i \in 1 .. Len(stack) : TRUE
        BY <4>1, OnStack
      <4>3. bFirstRun => Len(stack) = 0
        BY <4>2, OnStack
      <4>. QED
        BY <4>3 DEF TypeOK
    <3>4. bFirstRun => stack'[1] = Sched
      BY <3>1, <3>3 DEF Enter
    <3>. QED
      BY <2>0, <3>1, <3>4 DEF FirstInv
  <2>2. CASE AutoexecRow \/ AutoexecQueued \/ AutoexecTaken \/ ScanRow
    <3>1. /\ UNCHANGED <<stack, bFirstRun>>
          /\ schedPc' \in {"autoexec", "drain"} => schedPc \in {"autoexec", "drain"}
      BY <2>2 DEF AutoexecRow, AutoexecQueued, AutoexecTaken, ScanRow, hostVars
    <3>. QED
      BY <2>0, <3>1 DEF FirstInv
  <2>3. CASE ScanDone
    BY <2>0, <2>3 DEF ScanDone, FirstInv
  <2>. QED
    BY <1>1, <2>1, <2>2, <2>3 DEF SisScheduling, SchedulerStep
<1>2. ASSUME NEW c \in Calculators, SisCalculating(c)
      PROVE  FirstInv'
  <2>1. UNCHANGED <<bFirstRun, schedPc>>
    BY <1>2 DEF SisCalculating, schedVars
  <2>2. queue # << >> => Head(queue) \in Scheduled
    BY DEF TypeOK
  <2>3. ~bFirstRun
    BY <1>2, CalculatingChanges DEF FirstInv, QueueInv
  <2>4. \A d \in Calculators : calcPc'[d] # "idle" => request'[d] \in Scheduled
    BY <1>2, <2>2, CalculatingChanges DEF FirstInv
  <2>5. schedPc \in {"autoexec", "drain"} => stack'[1] = Sched
    <3>1. stack' = stack \/ Enter(c) \/ (Executes(c) /\ Leave)
      BY <1>2, CalculatingStack
    <3>2. schedPc \in {"autoexec", "drain"} => stack[1] = Sched /\ stack # << >>
      <4>1. schedPc # "idle" => Len(stack) # 0
        BY OnStack
      <4>. QED
        BY <4>1 DEF FirstInv, TypeOK
    <3>. QED
      BY <3>1, <3>2, BottomStays
  <2>. QED
    BY <2>1, <2>3, <2>4, <2>5 DEF FirstInv
<1>3. CASE EdpsRun \/ UNCHANGED vars
  <2>1. UNCHANGED <<stack, schedPc, calcPc, request, bFirstRun>>
    BY <1>3 DEF EdpsRun, Load, StartScheduler, Close, StopCalculator, WaitMutex, Slept,
      ReleaseCalculator, StopScheduler, CallFails, CalculatorStart, CalculatorStop,
      SchedulerStart, SchedulerStop, vars, hostVars, schedVars, calcVars
  <2>. QED
    BY <1>0, <2>1
<1>. QED
  BY <1>1, <1>2, <1>3 DEF Next

\* A formula that is taken from the queue or returns is still accounted for.
LEMMA AccountedFor ==
  ASSUME IInv, FirstInv, NEW c \in Calculators, SisCalculating(c), alive', NEW f,
         f \in Queued \cup completed \/ \E d \in Calculators : HasTaken(d, f)
  PROVE  f \in Queued' \cup completed' \/ \E d \in Calculators : HasTaken(d, f)'
<1>. queue \in Seq(Scheduled)
  BY DEF IInv, TypeOK
<1>1. completed \subseteq completed'
  BY CalculatingChanges
<1>2. CASE f \in completed
  BY <1>1, <1>2
<1>3. CASE f \in Queued
  <2>1. CASE queue' = Tail(queue) /\ queue # << >> /\ request'[c] = Head(queue) /\ calcPc'[c] = "wait"
    <3>1. f = Head(queue) \/ f \in Queued'
      BY <1>3, <2>1 DEF Queued
    <3>2. f = Head(queue) => HasTaken(c, f)'
      BY <2>1 DEF HasTaken
    <3>. QED
      BY <3>1, <3>2
  <2>2. CASE UNCHANGED queue
    BY <1>3, <2>2 DEF Queued
  <2>. QED
    BY <2>1, <2>2, CalculatingChanges
<1>4. ASSUME NEW d \in Calculators, HasTaken(d, f)
      PROVE  f \in completed' \/ HasTaken(d, f)'
  <2>1. CASE d # c
    BY <1>4, <2>1, CalculatingChanges DEF HasTaken
  <2>2. CASE d = c
    BY <1>4, <2>2, CalculatingChanges DEF HasTaken
  <2>. QED
    BY <2>1, <2>2
<1>. QED
  BY <1>2, <1>3, <1>4

\* A formula that is queued, taken or done.
Accounted(f) == f \in Queued \cup completed \/ \E c \in Calculators : HasTaken(c, f)

\* The scheduler goes on with the periodic formulas when every autoexec formula
\* has been taken and its calculation has returned.
LEMMA TakenAreDone ==
  ASSUME IInv, TableInv, FirstInv, AutoexecInv, AutoexecTaken, schedTimer
  PROVE  Autoexec \subseteq completed
<1>. TypeOK /\ StackInv /\ QueueInv
  BY DEF IInv
<1>1. Executes(Sched) /\ schedPc = "drain" /\ queue = << >> /\ alive
  BY DEF AutoexecTaken, Executes
<1>2. \A c \in Calculators : calcPc[c] = "idle"
  BY <1>1, SchedulerAlone DEF FirstInv
<1>3. ~bFirstRun /\ Queued = {}
  BY <1>1 DEF QueueInv, Queued
<1>4. ASSUME NEW i \in 1 .. Len(Rows), Rows[i].loop = -1
      PROVE  Rows[i].id \in completed
  <2>1. Passed(i)
    BY <1>1, <1>3 DEF Passed
  <2>. QED
    BY <1>1, <1>2, <1>3, <1>4, <2>1 DEF AutoexecInv, HasTaken
<1>. QED
  BY <1>4 DEF Autoexec

LEMMA AutoexecFirstStep ==
  ASSUME IInv, TableInv, FirstInv, AutoexecInv, AutoexecFirst, [Next]_vars
  PROVE  AutoexecFirst'
<1>. TypeOK /\ StackInv /\ QueueInv
  BY DEF IInv
<1>0. ASSUME schedTimer' => schedTimer, bFirstRun' = bFirstRun, completed \subseteq completed',
             schedPc' \in {"idle", "scan"} => schedPc \in {"idle", "scan"}
      PROVE  AutoexecFirst'
  BY <1>0 DEF AutoexecFirst
<1>1. CASE SisScheduling
  <2>. UNCHANGED completed
    BY <1>1 DEF SisScheduling
  <2>1. CASE SchedulerTimer
    <3>1. UNCHANGED schedTimer /\ schedPc' = (IF bFirstRun THEN "autoexec" ELSE "scan")
          /\ Sched \notin Active
      BY <2>1 DEF SchedulerTimer
    <3>2. schedPc = "idle"
      BY <3>1, OnStack DEF Active
    <3>. QED
      BY <3>1, <3>2 DEF AutoexecFirst
  <2>2. CASE AutoexecRow \/ AutoexecQueued \/ ScanRow \/ ScanDone
    BY <1>0, <2>2 DEF AutoexecRow, AutoexecQueued, ScanRow, ScanDone
  <2>3. CASE AutoexecTaken
    <3>1. UNCHANGED schedTimer
      BY <2>3 DEF AutoexecTaken
    <3>. QED
      BY <2>3, <3>1, TakenAreDone DEF AutoexecFirst
  <2>. QED
    BY <1>1, <2>1, <2>2, <2>3 DEF SisScheduling, SchedulerStep
<1>2. ASSUME NEW c \in Calculators, SisCalculating(c)
      PROVE  AutoexecFirst'
  <2>1. UNCHANGED <<schedTimer, bFirstRun, schedPc>> /\ completed \subseteq completed'
    BY <1>2 DEF SisCalculating, schedVars
  <2>. QED
    BY <1>0, <2>1
<1>3. CASE StartScheduler
  <2>1. bFirstRun /\ UNCHANGED bFirstRun
    BY <1>3 DEF StartScheduler, SchedulerStart, TableInv
  <2>. QED
    BY <2>1 DEF AutoexecFirst
<1>4. CASE EdpsRun \/ UNCHANGED vars
  <2>1. CASE ~StartScheduler
    <3>1. /\ schedTimer' => schedTimer
          /\ UNCHANGED <<bFirstRun, schedPc, completed>>
      BY <1>4, <2>1 DEF EdpsRun, Load, Close, StopCalculator, WaitMutex, Slept,
        ReleaseCalculator, StopScheduler, CallFails, SchedulerStop, vars, schedVars
    <3>. QED
      BY <1>0, <3>1
  <2>. QED
    BY <1>3, <2>1
<1>. QED
  BY <1>1, <1>2, <1>4 DEF Next

LEMMA AutoexecStep ==
  ASSUME IInv, TableInv, FirstInv, AutoexecInv, [Next]_vars
  PROVE  AutoexecInv'
<1>. /\ TypeOK /\ StackInv /\ QueueInv
     /\ queue \in Seq(Scheduled) /\ Len(Rows) \in Nat
  BY RowsAssumption DEF IInv, TypeOK
<1>. SUFFICES ASSUME alive', schedTimer', schedPc' \in {"autoexec", "drain"}, NEW i \in 1 .. Len(Rows),
                     Rows[i].loop = -1, Passed(i)'
              PROVE  Accounted(Rows[i].id)'
  BY DEF AutoexecInv, Accounted, HasTaken
<1>0. ASSUME alive, schedTimer, schedPc \in {"autoexec", "drain"}, Passed(i)
      PROVE  Accounted(Rows[i].id)
  BY <1>0 DEF AutoexecInv, Accounted
<1>1. CASE SisScheduling
  <2>. UNCHANGED <<completed, calcPc, request, alive>>
    BY <1>1 DEF SisScheduling, calcVars, SchedulerStep, SchedulerTimer, AutoexecRow, AutoexecQueued,
      AutoexecTaken, ScanRow, ScanDone, hostVars
  <2>0. ASSUME Accounted(Rows[i].id), Queued \subseteq Queued'
        PROVE  Accounted(Rows[i].id)'
    BY <2>0 DEF Accounted, HasTaken
  <2>1. CASE SchedulerTimer
    <3>1. lCnt' = 1 /\ schedPc' = "autoexec"
      BY <2>1 DEF SchedulerTimer
    <3>. QED
      BY <3>1 DEF Passed
  <2>2. CASE AutoexecRow
    <3>1. /\ schedPc = "autoexec" /\ lCnt \in 1 .. Len(vSchedule) /\ lCnt' = lCnt + 1
          /\ UNCHANGED <<schedPc, bFirstRun, schedTimer>>
      BY <2>2, PassChanges DEF AutoexecRow
    <3>2. Queued \subseteq Queued'
      <4>1. queue' = queue \/ queue' = Append(queue, vSchedule[lCnt].id)
        BY <2>2 DEF AutoexecRow, qm_push
      <4>2. vSchedule[lCnt].id \in Scheduled
        BY <3>1, RowAtCounter
      <4>. QED
        BY <4>1, <4>2 DEF Queued
    <3>3. CASE i # lCnt
      <4>1. Passed(i)
        BY <3>1, <3>3 DEF Passed, TypeOK
      <4>. QED
        BY <1>0, <2>0, <3>1, <3>2, <4>1
    <3>4. CASE i = lCnt
      <4>1. ~Passed(i) /\ vSchedule[lCnt].loop = -1 /\ vSchedule[lCnt].id = Rows[i].id
        BY <3>1, <3>4 DEF TableInv, QueueInv, Passed
      <4>2. queue' = Append(queue, Rows[i].id)
        BY <2>2, <4>1 DEF AutoexecRow, qm_push
      <4>3. Rows[i].id \in Queued'
        <5>1. Rows[i].id \in Scheduled
          BY RowId
        <5>. QED
          BY <4>2, <5>1 DEF Queued
      <4>. QED
        BY <4>3 DEF Accounted
    <3>. QED
      BY <3>3, <3>4
  <2>3. CASE AutoexecQueued
    <3>1. /\ schedPc = "autoexec" /\ lCnt > Len(vSchedule)
          /\ UNCHANGED <<queue, schedTimer, bFirstRun, lCnt>>
      BY <2>3 DEF AutoexecQueued, hostVars
    <3>2. Len(vSchedule) = Len(Rows)
      BY <3>1 DEF TableInv
    <3>3. Passed(i)
      BY <3>1, <3>2 DEF Passed, TypeOK
    <3>. QED
      BY <1>0, <2>0, <3>1, <3>3 DEF Queued
  <2>4. CASE AutoexecTaken \/ ScanRow \/ ScanDone
    BY <2>4 DEF AutoexecTaken, ScanRow, ScanDone
  <2>. QED
    BY <1>1, <2>1, <2>2, <2>3, <2>4 DEF SisScheduling, SchedulerStep
<1>2. ASSUME NEW c \in Calculators, SisCalculating(c)
      PROVE  Accounted(Rows[i].id)'
  <2>1. UNCHANGED <<schedTimer, bFirstRun, schedPc, lCnt>> /\ alive
    BY <1>2, CalculatingChanges DEF schedVars
  <2>2. Accounted(Rows[i].id)
    BY <1>0, <2>1 DEF Passed
  <2>. QED
    BY <1>2, <2>2, AccountedFor DEF Accounted, HasTaken
<1>3. CASE StartScheduler
  BY <1>3 DEF StartScheduler, SchedulerStart, TableInv, Passed
<1>4. CASE StopScheduler
  BY <1>4 DEF StopScheduler, SchedulerStop
<1>5. CASE \/ Load \/ Close \/ StopCalculator \/ WaitMutex \/ Slept \/ ReleaseCalculator \/ CallFails
           \/ UNCHANGED vars
  <2>1. UNCHANGED <<queue, alive, schedTimer, bFirstRun, schedPc, lCnt, completed, calcPc, request>>
    BY <1>5 DEF Load, Close, StopCalculator, WaitMutex, Slept, ReleaseCalculator, CallFails,
      CalculatorStart, CalculatorStop, vars, hostVars, schedVars, calcVars
  <2>2. Accounted(Rows[i].id)
    BY <1>0, <2>1 DEF Passed
  <2>. QED
    BY <2>1, <2>2 DEF Accounted, Queued, HasTaken
<1>. QED
  BY <1>1, <1>2, <1>3, <1>4, <1>5 DEF Next, EdpsRun

-----------------------------------------------------------------------------
(* Quotients and remainders                                                *)

\* A number has one quotient and one remainder.
LEMMA OneDivision ==
  ASSUME NEW l \in Nat \ {0}, NEW q \in Int, NEW r \in 0 .. l - 1,
         NEW p \in Int, NEW s \in 0 .. l - 1, (l * q) + r = (l * p) + s
  PROVE  q = p /\ r = s
<1>1. CASE q = p
  BY <1>1
<1>2. CASE q >= p + 1
  <2>1. l * q >= l * (p + 1)
    BY <1>2
  <2>2. l * (p + 1) = l * p + l
    OBVIOUS
  <2>. QED
    BY <2>1, <2>2
<1>3. CASE p >= q + 1
  <2>1. l * p >= l * (q + 1)
    BY <1>3
  <2>2. l * (q + 1) = l * q + l
    OBVIOUS
  <2>. QED
    BY <2>1, <2>2
<1>. QED
  BY <1>1, <1>2, <1>3

LEMMA Division ==
  ASSUME NEW l \in Nat \ {0}, NEW n \in Nat
  PROVE  n \div l \in Nat /\ n % l \in 0 .. l - 1 /\ n = (l * (n \div l)) + (n % l)
OBVIOUS

\* The remainder, from any quotient.
LEMMA Remainder ==
  ASSUME NEW l \in Nat \ {0}, NEW n \in Nat, NEW q \in Int, NEW r \in 0 .. l - 1, n = (l * q) + r
  PROVE  n % l = r
<1>. DEFINE p == n \div l  s == n % l
<1>1. p \in Nat /\ s \in 0 .. l - 1 /\ n = (l * p) + s
  BY Division
<1>. HIDE DEF p, s
<1>2. p \in Int /\ (l * q) + r = (l * p) + s
  BY <1>1
<1>3. s = r
  BY <1>1, <1>2, OneDivision
<1>. QED
  BY <1>3 DEF s

\* Counting up by one.
LEMMA NextRemainder ==
  ASSUME NEW l \in Nat \ {0}, NEW n \in Nat
  PROVE  (n + 1) % l = IF n % l = l - 1 THEN 0 ELSE (n % l) + 1
<1>. DEFINE p == n \div l  s == n % l
<1>1. p \in Nat /\ s \in 0 .. l - 1 /\ n = (l * p) + s
  BY Division
<1>. HIDE DEF p, s
<1>2. CASE s = l - 1
  <2>1. n + 1 = (l * (p + 1)) + 0
    BY <1>1, <1>2
  <2>2. p + 1 \in Int /\ 0 \in 0 .. l - 1 /\ n + 1 \in Nat
    BY <1>1
  <2>3. (n + 1) % l = 0
    BY <2>1, <2>2, Remainder
  <2>. QED
    BY <1>2, <2>3 DEF s
<1>3. CASE s # l - 1
  <2>1. n + 1 = (l * p) + (s + 1)
    BY <1>1, <1>3
  <2>2. p \in Int /\ s + 1 \in 0 .. l - 1 /\ n + 1 \in Nat
    BY <1>1, <1>3
  <2>3. (n + 1) % l = s + 1
    BY <2>1, <2>2, Remainder
  <2>. QED
    BY <1>3, <2>3 DEF s
<1>. QED
  BY <1>2, <1>3

\* The remainder of a multiple of the divisor.
LEMMA RemainderOfRemainder ==
  ASSUME NEW l \in Nat \ {0}, NEW k \in Nat \ {0}, NEW n \in Nat
  PROVE  /\ l * k \in Nat \ {0}
         /\ (n % (l * k)) % l = n % l
<1>. DEFINE m == l * k  q == n \div m  r == n % m
<1>1. m \in Nat \ {0}
  OBVIOUS
<1>2. q \in Nat /\ r \in 0 .. m - 1 /\ n = (m * q) + r
  <2>. HIDE DEF m
  <2>. QED
    BY <1>1, Division
<1>. DEFINE p == r \div l  s == r % l
<1>3. r \in Nat /\ q \in Nat /\ n = (l * k) * q + r
  <2>. HIDE DEF q, r
  <2>. QED BY <1>1, <1>2
<1>. HIDE DEF q, r
<1>4. p \in Nat /\ s \in 0 .. l - 1 /\ r = (l * p) + s
  BY <1>3, Division
<1>. HIDE DEF p, s
<1>5. k * q \in Nat /\ (l * k) * q = l * (k * q)
  BY <1>3
<1>6. l * (k * q + p) = l * (k * q) + l * p
  <2>. DEFINE a == k * q
  <2>. a \in Nat
    BY <1>5
  <2>. HIDE DEF a
  <2>1. l * (a + p) = l * a + l * p
    BY <1>4
  <2>. QED BY <2>1 DEF a
<1>7. n = (l * (k * q + p)) + s /\ k * q + p \in Int
  BY <1>3, <1>4, <1>5, <1>6
<1>8. n % l = s
  BY <1>4, <1>7, Remainder
<1>. QED
  BY <1>1, <1>8 DEF s, r

-----------------------------------------------------------------------------
(* The common period of the rows                                           *)

\* A set of numbers has a least one.
LEMMA LeastNumber ==
  ASSUME NEW T, T \subseteq Nat, T # {}
  PROVE  \E m \in T : \A k \in T : m <= k
<1>1. PICK m \in T : \A k \in T : ~(<<k, m>> \in OpToRel(<, Nat))
  BY WFMin, NatLessThanWellFounded, Zenon
<1>2. \A k \in T : ~(k < m)
  BY <1>1 DEF OpToRel
<1>. QED
  <2>. m \in Nat /\ \A k \in T : k \in Nat
    OBVIOUS
  <2>. QED
    BY <1>2

\* The cycle of the first i rows, from that of the rows before the last of them.
NextCycle(i, n) == IF i = 0 THEN 1 ELSE IF Rows[i].loop > 0 THEN Rows[i].loop * n ELSE n

LEMMA NextCyclePositive ==
  ASSUME NEW i \in 0 .. Len(Rows), NEW n \in Nat \ {0}
  PROVE  NextCycle(i, n) \in Nat \ {0}
<1>1. CASE i # 0 /\ Rows[i].loop > 0
  <2>. Rows[i].loop \in Nat \ {0}
    BY <1>1, RowTypes
  <2>1. \A a, b \in Nat \ {0} : a * b \in Nat \ {0}
    OBVIOUS
  <2>2. Rows[i].loop * n \in Nat \ {0}
    BY <2>1
  <2>. QED
    BY <1>1, <2>2 DEF NextCycle
<1>. QED
  BY <1>1 DEF NextCycle

\* CycleOf is well defined: the first length at which it is not does not exist.
LEMMA CycleExists ==
  \E g : g = [i \in 0 .. Len(Rows) |-> NextCycle(i, g[i - 1])]
<1>. DEFINE Good(g, k) == \A i \in 0 .. k : g[i] = NextCycle(i, g[i - 1])
            T == {k \in 0 .. Len(Rows) : ~\E g \in [0 .. k -> Nat \ {0}] : Good(g, k)}
<1>. Len(Rows) \in Nat
  BY RowsAssumption
<1>1. CASE T # {}
  <2>1. PICK m \in T : \A k \in T : m <= k
    <3>. T \subseteq Nat
      OBVIOUS
    <3>. HIDE DEF T
    <3>. QED
      BY <1>1, LeastNumber
  <2>2. CASE m = 0
    <3>. DEFINE g == [i \in 0 .. m |-> 1]
    <3>1. g \in [0 .. m -> Nat \ {0}]
      OBVIOUS
    <3>2. Good(g, m)
      BY <2>2 DEF NextCycle
    <3>. QED
      BY <3>1, <3>2
  <2>3. CASE m # 0
    <3>1. PICK g \in [0 .. m - 1 -> Nat \ {0}] : Good(g, m - 1)
      <4>. m - 1 \in 0 .. Len(Rows) /\ m - 1 \notin T
        <5>. m \in 0 .. Len(Rows)
          OBVIOUS
        <5>. HIDE DEF T
        <5>. QED
          BY <2>1, <2>3
      <4>. QED
        OBVIOUS
    <3>. DEFINE h == [i \in 0 .. m |-> IF i = m THEN NextCycle(m, g[m - 1]) ELSE g[i]]
    <3>2. NextCycle(m, g[m - 1]) \in Nat \ {0}
      BY <2>3, NextCyclePositive
    <3>3. h \in [0 .. m -> Nat \ {0}]
      BY <3>2
    <3>4. ASSUME NEW i \in 0 .. m
          PROVE  h[i] = NextCycle(i, h[i - 1])
      <4>1. CASE i = m
        <5>. h[m - 1] = g[m - 1]
          BY <2>3
        <5>. QED
          BY <4>1
      <4>2. CASE i # m /\ i # 0
        <5>. /\ h[i - 1] = g[i - 1] /\ h[i] = g[i]
             /\ i \in 0 .. m - 1
          BY <4>2
        <5>. HIDE DEF h
        <5>. QED
          BY <3>1
      <4>3. CASE i = 0
        <5>. h[i] = g[i] /\ i \in 0 .. m - 1
          BY <2>3, <4>3
        <5>1. g[i] = NextCycle(i, g[i - 1])
          BY <3>1
        <5>. QED
          BY <4>3, <5>1 DEF NextCycle
      <4>. QED
        BY <4>1, <4>2, <4>3
    <3>5. Good(h, m)
      <4>. HIDE DEF h
      <4>. QED
        BY <3>4
    <3>. HIDE DEF h, Good
    <3>. QED
      BY <3>3, <3>5
  <2>. QED
    BY <2>2, <2>3
<1>2. CASE T = {}
  <2>1. PICK g \in [0 .. Len(Rows) -> Nat \ {0}] : Good(g, Len(Rows))
    BY <1>2
  <2>2. g = [i \in 0 .. Len(Rows) |-> NextCycle(i, g[i - 1])]
    BY <2>1
  <2>. QED
    BY <2>2
<1>. QED
  BY <1>1, <1>2

LEMMA CycleDef ==
  CycleOf = [i \in 0 .. Len(Rows) |-> NextCycle(i, CycleOf[i - 1])]
BY CycleExists DEF CycleOf, NextCycle

\* The cycle is a multiple of every period.
LEMMA CycleMultiple ==
  ASSUME NEW i \in 0 .. Len(Rows)
  PROVE  /\ CycleOf[i] \in Nat \ {0}
         /\ \A j \in 1 .. i : Rows[j].loop > 0 =>
              \E k \in Nat \ {0} : CycleOf[i] = Rows[j].loop * k
<1>. DEFINE Good(m) == /\ CycleOf[m] \in Nat \ {0}
                       /\ \A j \in 1 .. m : Rows[j].loop > 0 =>
                            \E k \in Nat \ {0} : CycleOf[m] = Rows[j].loop * k
            T == {m \in 0 .. Len(Rows) : ~Good(m)}
<1>. Len(Rows) \in Nat
  BY RowsAssumption
<1>0. \A m \in 0 .. Len(Rows) : CycleOf[m] = NextCycle(m, CycleOf[m - 1])
  BY CycleDef
<1>1. CASE T # {}
  <2>1. PICK m \in T : \A k \in T : m <= k
    <3>. T \subseteq Nat
      OBVIOUS
    <3>. HIDE DEF T
    <3>. QED
      BY <1>1, LeastNumber
  <2>. m \in 0 .. Len(Rows) /\ ~Good(m)
    OBVIOUS
  <2>2. CASE m = 0
    <3>. CycleOf[m] = 1
      BY <1>0, <2>2 DEF NextCycle
    <3>. QED
      BY <2>2
  <2>3. CASE m # 0
    <3>1. Good(m - 1)
      <4>. m - 1 \in 0 .. Len(Rows) /\ m - 1 \notin T
        <5>. HIDE DEF T, Good
        <5>. QED
          BY <2>1, <2>3
      <4>. QED
        BY DEF T
    <3>2. CycleOf[m] \in Nat \ {0}
      BY <1>0, <2>3, <3>1, NextCyclePositive
    <3>. DEFINE c == CycleOf[m - 1]
    <3>. c \in Nat \ {0}
      BY <3>1
    <3>3. CycleOf[m] = NextCycle(m, c)
      BY <1>0
    <3>4. ASSUME NEW j \in 1 .. m, Rows[j].loop > 0
          PROVE  \E k \in Nat \ {0} : CycleOf[m] = Rows[j].loop * k
      <4>. DEFINE l == Rows[j].loop
      <4>. l \in Nat \ {0}
        BY RowTypes, <3>4
      <4>1. CASE j = m
        BY <2>3, <3>3, <3>4, <4>1 DEF NextCycle
      <4>2. CASE j # m
        <5>1. PICK k \in Nat \ {0} : c = l * k
          BY <3>1, <3>4, <4>2
        <5>2. CASE Rows[m].loop > 0
          <6>. DEFINE a == Rows[m].loop
          <6>1. a \in Nat \ {0} /\ CycleOf[m] = a * c
            BY <2>3, <3>3, <5>2, RowTypes DEF NextCycle
          <6>. HIDE DEF a, l, c
          <6>2. a * (l * k) = l * (a * k) /\ a * k \in Nat \ {0}
            BY <6>1
          <6>3. CycleOf[m] = l * (a * k)
            BY <5>1, <6>1, <6>2
          <6>4. \E z \in Nat \ {0} : CycleOf[m] = l * z
            BY <6>2, <6>3
          <6>. QED
            BY <6>4 DEF l
        <5>3. CASE ~(Rows[m].loop > 0)
          <6>1. CycleOf[m] = c
            BY <2>3, <3>3, <5>3 DEF NextCycle
          <6>. QED
            BY <5>1, <6>1
        <5>. QED
          BY <5>2, <5>3
      <4>. QED
        BY <4>1, <4>2
    <3>. QED
      BY <3>2, <3>4
  <2>. QED
    BY <2>2, <2>3
<1>. QED
  BY <1>1

-----------------------------------------------------------------------------
(* The ticks                                                               *)

\* The number of ticks row i has counted, if all together have counted n.
Ticks(i, n) == IF schedPc = "scan" /\ i < lCnt THEN n + 1 ELSE n

\* What k ticks leave of the period of row i.
Left(i, k) == Rows[i].loop - (k % Rows[i].loop)

LEMMA CountedDef ==
  ASSUME NEW n
  PROVE  CountedTo(n) <=> \A i \in 1 .. Len(vSchedule) :
                            Rows[i].loop > 0 => vSchedule[i].left = Left(i, Ticks(i, n))
BY DEF CountedTo, Ticks, Left

\* A row that is counted down has one tick more behind it.
LEMMA CountDown ==
  ASSUME NEW i \in 1 .. Len(Rows), Rows[i].loop > 0, NEW n \in Nat
  PROVE  /\ Left(i, n) > 0
         /\ Left(i, n + 1) = IF Left(i, n) = 1 THEN Rows[i].loop ELSE Left(i, n) - 1
<1>. DEFINE l == Rows[i].loop  r == n % l
<1>1. l \in Nat \ {0}
  BY RowTypes
<1>. HIDE DEF l
<1>2. r \in 0 .. l - 1 /\ (n + 1) % l = IF r = l - 1 THEN 0 ELSE r + 1
  BY <1>1, Division, NextRemainder
<1>3. Left(i, n) = l - r /\ Left(i, n + 1) = l - ((n + 1) % l)
  BY DEF Left, l
<1>. DEFINE t == (n + 1) % l  a == Left(i, n)  b == Left(i, n + 1)
<1>. HIDE DEF r, t, a, b
<1>4. r \in 0 .. l - 1 /\ t = (IF r = l - 1 THEN 0 ELSE r + 1) /\ a = l - r /\ b = l - t
  BY <1>2, <1>3 DEF t, a, b
<1>5. a > 0 /\ b = IF a = 1 THEN l ELSE a - 1
  BY <1>1, <1>4
<1>. QED
  BY <1>5 DEF l, a, b

LEMMA TickStep ==
  ASSUME IInv, TableInv, TickInv, [Next]_vars
  PROVE  TickInv'
<1>. TypeOK /\ QueueInv /\ StackInv
  BY DEF IInv
<1>. vSchedule \in Seq(ScheduleRow) /\ Len(vSchedule) \in Nat /\ lCnt \in Nat \ {0}
  BY DEF TypeOK
<1>. PICK n \in Nat : CountedTo(n)
  BY DEF TickInv
<1>0. \A i \in 1 .. Len(vSchedule) : Rows[i].loop > 0 => vSchedule[i].left = Left(i, Ticks(i, n))
  BY CountedDef
<1>a. ASSUME NEW m \in Nat,
             \A i \in 1 .. Len(vSchedule') :
               Rows[i].loop > 0 => vSchedule'[i].left = Left(i, Ticks(i, m)')
      PROVE  TickInv'
  <2>1. CountedTo(m)'
    BY <1>a DEF CountedTo, Ticks, Left
  <2>. QED
    BY <2>1 DEF TickInv
<1>b. ASSUME UNCHANGED vSchedule, \A i \in 1 .. Len(vSchedule) : Ticks(i, n)' = Ticks(i, n)
      PROVE  TickInv'
  BY <1>0, <1>a, <1>b
<1>c. ASSUME UNCHANGED <<vSchedule, schedPc, lCnt>>
      PROVE  TickInv'
  BY <1>b, <1>c DEF Ticks
<1>1. CASE SisScheduling
  <2>1. CASE SchedulerTimer
    <3>1. UNCHANGED vSchedule /\ lCnt' = 1 /\ Sched \notin Active
      BY <2>1 DEF SchedulerTimer
    <3>2. schedPc = "idle"
      BY <3>1, WorkThreadsAssumption DEF StackInv, Where, Active, Handlers
    <3>. QED
      BY <1>b, <3>1, <3>2 DEF Ticks
  <2>2. CASE AutoexecRow
    <3>1. schedPc = "autoexec" /\ schedPc' = "autoexec"
      BY <2>2 DEF AutoexecRow
    <3>2. ASSUME NEW i \in 1 .. Len(vSchedule'), Rows[i].loop > 0
          PROVE  vSchedule'[i].left = Left(i, Ticks(i, n)')
      <4>1. i \in 1 .. Len(vSchedule)
        BY <2>2, PassChanges
      <4>2. CASE i = lCnt
        <5>1. vSchedule[lCnt].loop # -1
          BY <3>2, <4>1, <4>2 DEF TableInv
        <5>2. UNCHANGED vSchedule
          BY <2>2, <5>1 DEF AutoexecRow
        <5>. QED
          BY <1>0, <3>1, <3>2, <4>1, <5>2 DEF Ticks
      <4>3. CASE i # lCnt
        <5>1. vSchedule'[i] = vSchedule[i]
          BY <2>2, <4>1, <4>3, PassChanges
        <5>. QED
          BY <1>0, <3>1, <3>2, <4>1, <5>1 DEF Ticks
      <4>. QED
        BY <4>2, <4>3
    <3>. QED
      BY <1>a, <3>2
  <2>3. CASE AutoexecQueued \/ AutoexecTaken
    <3>1. \A i \in 1 .. Len(vSchedule) : Ticks(i, n)' = Ticks(i, n)
      BY <2>3 DEF AutoexecQueued, AutoexecTaken, Ticks
    <3>. QED
      BY <1>b, <2>3, <3>1 DEF AutoexecQueued, AutoexecTaken
  <2>4. CASE ScanRow
    <3>1. /\ schedPc = "scan" /\ schedPc' = "scan" /\ lCnt' = lCnt + 1
          /\ lCnt \in 1 .. Len(vSchedule) /\ Len(vSchedule) <= Len(Rows)
          /\ Len(vSchedule') = Len(vSchedule)
      BY <2>4, PassChanges DEF ScanRow
    <3>2. ASSUME NEW i \in 1 .. Len(vSchedule), Rows[i].loop > 0
          PROVE  vSchedule'[i].left = Left(i, Ticks(i, n)')
      <4>1. CASE i = lCnt
        <5>1. Ticks(i, n) = n /\ Ticks(i, n)' = n + 1
          BY <3>1, <4>1 DEF Ticks
        <5>2. vSchedule[i].left = Left(i, n) /\ vSchedule[i].loop = Rows[i].loop
          BY <1>0, <3>2, <5>1 DEF TableInv
        <5>3. i \in 1 .. Len(Rows)
          BY <3>1
        <5>. HIDE DEF Left
        <5>4. vSchedule'[i].left = Left(i, n + 1)
          BY <2>4, <3>2, <4>1, <5>2, <5>3, PassChanges, CountDown
        <5>. QED
          BY <5>1, <5>4
      <4>2. CASE i # lCnt
        <5>1. vSchedule'[i] = vSchedule[i]
          BY <2>4, <4>2, PassChanges
        <5>2. Ticks(i, n)' = Ticks(i, n)
          BY <3>1, <4>2 DEF Ticks
        <5>. QED
          BY <1>0, <3>2, <5>1, <5>2
      <4>. QED
        BY <4>1, <4>2
    <3>. QED
      BY <1>a, <3>1, <3>2
  <2>5. CASE ScanDone
    <3>1. UNCHANGED vSchedule /\ n + 1 \in Nat
      BY <2>5 DEF ScanDone
    <3>2. \A i \in 1 .. Len(vSchedule) : Ticks(i, n + 1)' = Ticks(i, n)
      BY <2>5 DEF ScanDone, Ticks
    <3>. QED
      BY <1>0, <1>a, <3>1, <3>2
  <2>. QED
    BY <1>1, <2>1, <2>2, <2>3, <2>4, <2>5 DEF SisScheduling, SchedulerStep
<1>2. ASSUME NEW c \in Calculators, SisCalculating(c)
      PROVE  TickInv'
  BY <1>2, <1>c DEF SisCalculating, schedVars
<1>3. CASE Load
  <2>1. UNCHANGED <<bFirstRun, schedPc>> /\ bFirstRun /\ AddSchedules
    BY <1>3 DEF Load, TableInv
  <2>2. schedPc' # "scan"
    BY <2>1 DEF QueueInv
  <2>3. \A i \in 1 .. Len(vSchedule') : i \in 1 .. Len(Rows) /\ vSchedule'[i].left = Rows[i].loop
    BY <2>1, RowsAssumption DEF AddSchedules
  <2>4. ASSUME NEW i \in 1 .. Len(Rows), Rows[i].loop > 0
        PROVE  Left(i, 0) = Rows[i].loop
    <3>. DEFINE l == Rows[i].loop
    <3>1. l \in Nat \ {0}
      BY <2>4, RowTypes
    <3>. HIDE DEF l
    <3>2. 0 % l = 0
      BY <3>1
    <3>3. l - (0 % l) = l
      BY <3>1, <3>2
    <3>. QED
      BY <3>3 DEF Left, l
  <2>5. \A i \in 1 .. Len(vSchedule') : Ticks(i, 0)' = 0
    BY <2>2 DEF Ticks
  <2>. QED
    BY <1>a, <2>3, <2>4, <2>5
<1>4. CASE StopScheduler
  <2>1. Len(vSchedule') = 0
    BY <1>4 DEF StopScheduler, SchedulerStop
  <2>. QED
    BY <1>a, <2>1
<1>5. CASE \/ StartScheduler \/ Close \/ StopCalculator \/ WaitMutex \/ Slept \/ ReleaseCalculator
           \/ CallFails \/ UNCHANGED vars
  BY <1>5, <1>c DEF StartScheduler, SchedulerStart, Close, StopCalculator, WaitMutex, Slept,
    ReleaseCalculator, CallFails, schedVars, vars
<1>. QED
  BY <1>1, <1>2, <1>3, <1>4, <1>5 DEF Next, EdpsRun

\* The ticks of one cycle are enough to explain every state.
LEMMA WithinCycle ==
  ASSUME IInv, TickInv
  PROVE  OneTickCount
<1>. TypeOK /\ QueueInv /\ Len(Rows) \in Nat
  BY RowsAssumption DEF IInv
<1>. PICK n \in Nat : CountedTo(n)
  BY DEF TickInv
<1>1. /\ Cycle \in Nat \ {0}
      /\ \A i \in 1 .. Len(Rows) :
           Rows[i].loop > 0 => \E k \in Nat \ {0} : Cycle = Rows[i].loop * k
  BY CycleMultiple DEF Cycle
<1>. DEFINE m == n % Cycle
<1>2. m \in 0 .. Cycle - 1
  BY <1>1, Division
<1>3. ASSUME NEW i \in 1 .. Len(Rows), Rows[i].loop > 0
      PROVE  Left(i, m) = Left(i, n) /\ Left(i, m + 1) = Left(i, n + 1)
  <2>. DEFINE l == Rows[i].loop
  <2>1. l \in Nat \ {0}
    BY <1>3, RowTypes
  <2>2. PICK k \in Nat \ {0} : Cycle = l * k
    BY <1>1, <1>3
  <2>. HIDE DEF l
  <2>3. m % l = n % l
    BY <2>1, <2>2, RemainderOfRemainder
  <2>4. m \in Nat
    BY <1>1, <1>2
  <2>. HIDE DEF m
  <2>5. (m + 1) % l = (n + 1) % l
    BY <2>1, <2>3, <2>4, NextRemainder
  <2>. QED
    BY <2>3, <2>5 DEF Left, l
<1>. HIDE DEF m
<1>4. ASSUME NEW i \in 1 .. Len(vSchedule), Rows[i].loop > 0
      PROVE  vSchedule[i].left = Left(i, Ticks(i, m))
  <2>1. i \in 1 .. Len(Rows)
    BY DEF QueueInv
  <2>2. vSchedule[i].left = Left(i, Ticks(i, n))
    BY <1>4, CountedDef
  <2>3. Left(i, Ticks(i, m)) = Left(i, Ticks(i, n))
    BY <1>3, <1>4, <2>1 DEF Ticks
  <2>. QED
    BY <2>2, <2>3
<1>5. CountedTo(m)
  BY <1>4, CountedDef
<1>. QED
  BY <1>2, <1>5 DEF OneTickCount

-----------------------------------------------------------------------------
(* The theorems                                                            *)

LEMMA InitSchedule == Init => ScheduleInv
<1>. SUFFICES ASSUME Init PROVE ScheduleInv
  OBVIOUS
<1>1. /\ vSchedule = << >> /\ Len(vSchedule) = 0 /\ ~schedTimer /\ bFirstRun /\ schedPc = "idle"
      /\ alive /\ runPc = "load" /\ calcPc = [c \in Calculators |-> "idle"]
  BY DEF Init, HostInit, SchedInit, CalcInit
<1>2. TableInv /\ FirstInv /\ AutoexecInv /\ AutoexecFirst
  BY <1>1 DEF TableInv, FirstInv, AutoexecInv, AutoexecFirst
<1>3. CountedTo(0)
  BY <1>1 DEF CountedTo
<1>. QED
  BY <1>2, <1>3 DEF ScheduleInv, TickInv

\* The invariant that carries the theorems below, on top of that of SisProofs.
THEOREM ScheduleInvariance == Spec => [](IInv /\ ScheduleInv)
<1>1. IInv /\ ScheduleInv /\ [Next]_vars => ScheduleInv'
  BY TableStep, FirstStep, AutoexecStep, AutoexecFirstStep, TickStep DEF ScheduleInv
<1>. QED
  BY <1>1, InitSchedule, Invariance, PTL DEF Spec

\* No periodic formula is counted down or queued before every autoexec formula has
\* been calculated: the first timer event waits for the queue, and a formula that
\* has left it is calculated before the thread comes back to the scheduler
\* (Scheduler.cls:101-118).
THEOREM AutoexecBeforePeriodic == Spec => []AutoexecFirst
<1>1. ScheduleInv => AutoexecFirst
  BY DEF ScheduleInv
<1>. QED
  BY <1>1, ScheduleInvariance, PTL

\* One number of ticks, less than the common period, explains the Left2Run of all
\* periodic formulas in every state, so no formula misses a tick or counts one
\* twice (Scheduler.cls:119-140).
THEOREM SameTicks == Spec => []OneTickCount
<1>1. IInv /\ ScheduleInv => OneTickCount
  BY WithinCycle DEF ScheduleInv
<1>. QED
  BY <1>1, ScheduleInvariance, PTL
=============================================================================
