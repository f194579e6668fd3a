------------------------------ MODULE SisSystem ------------------------------
(***************************************************************************)
(* The acquisition pipeline: the scheduler and the calculators in Sis.exe, *)
(* and the program EDPSRun (edpsrun/Main.frm), a process of its own, that  *)
(* starts them (Activate) and stops them (Deactivate) by COM calls.        *)
(***************************************************************************)
EXTENDS SisScheduler, SisCalculator

VARIABLES
  runPc,         \* where EDPSRun is, see RunStates
  completed      \* history: the formulas of which a calculation has returned

vars == <<hostVars, schedVars, calcVars, runPc, completed>>

\* EDPSRun: "load" -> "start" -> "run" -> "stopCalc" -> "waitMutex" -> "sleep"
\* -> "release" -> "stopSched" -> "done".  "notStarted": Activate met an error.
RunStates == {"load", "start", "run", "notStarted", "stopCalc", "waitMutex",
              "sleep", "release", "stopSched", "done", "failed"}

\* The calculators Deactivate visits: LBound To LBound, the first one.
Stopped == 1

\* Mutant of Pumping: the loop of the first timer event has no DoEvents.
PumpingNoDoEvents ==
  /\ alive
  /\ \/ Top = Nobody
     \/ Top \in Calculators /\ calcPc[Top] \in {"plc", "leis", "failing"}

\* The thread of Sis.exe dispatches messages: timer events and incoming calls.
Pumping ==
  /\ alive
  /\ \/ Top = Nobody
     \/ Top = Sched /\ schedPc = "drain"
     \/ Top \in Calculators /\ calcPc[Top] \in {"plc", "leis", "failing"}

Init ==
  /\ HostInit
  /\ SchedInit
  /\ CalcInit
  /\ runPc = "load"
  /\ completed = {}

-----------------------------------------------------------------------------
(* Sis.exe                                                                 *)

SisScheduling ==
  /\ \/ Pumping /\ SchedulerTimer
     \/ SchedulerStep
  /\ UNCHANGED <<calcVars, runPc, completed>>

SisCalculating(c) ==
  /\ \/ Pumping /\ CalculatorTimer(c)
     \/ CalculatorStep(c)
  /\ completed' = IF Calculating(c) /\ calcPc'[c] = "idle"
                    THEN completed \cup {request[c]}
                    ELSE completed
  /\ UNCHANGED <<schedVars, runPc>>

-----------------------------------------------------------------------------
(* EDPSRun                                                                 *)

\* Activate reads the tables from LEIS, fills the scheduler and the first
\* calculator and starts the calculator; an error ends it with a message box.
Load ==
  /\ runPc = "load"
  /\ Pumping
  /\ AddSchedules
  /\ UNCHANGED <<schedPc, lCnt, bFirstRun, schedTimer, completed>>
  /\ IF CrossReferenceOK(Stopped)
       THEN CalculatorStart /\ runPc' = "start"
       ELSE UNCHANGED <<hostVars, calcVars>> /\ runPc' = "notStarted"

StartScheduler ==
  /\ runPc = "start"
  /\ Pumping
  /\ SchedulerStart
  /\ runPc' = "run"
  /\ UNCHANGED <<calcVars, completed>>

\* The user closes the window: Deactivate.
Close ==
  /\ runPc \in {"run", "notStarted"}
  /\ runPc' = "stopCalc"
  /\ UNCHANGED <<hostVars, schedVars, calcVars, completed>>

StopCalculator ==
  /\ runPc = "stopCalc"
  /\ Pumping
  /\ CalculatorStop
  /\ runPc' = "waitMutex"
  /\ UNCHANGED <<schedVars, completed>>

\* Mutant of WaitMutex: the result of WaitForSingleObject is not looked at.
WaitMutexUnchecked ==
  /\ runPc = "waitMutex"
  /\ owner' = [owner EXCEPT ![Stopped] = "edps"]
  /\ runPc' = "sleep"
  /\ UNCHANGED <<hostVars, schedVars, calcPc, request, iCurrent, calcTimer, mfdptr,
                 completed>>

\* WaitForSingleObject(lMutex, MutexTimeOut): the mutex, or a time-out while
\* the calculation that owns it lasts longer.
WaitMutex ==
  /\ runPc = "waitMutex"
  /\ IF owner[Stopped] = "none"
       THEN /\ owner' = [owner EXCEPT ![Stopped] = "edps"]
            /\ runPc' = "sleep"
       ELSE /\ runPc' = "release"
            /\ UNCHANGED owner
  /\ UNCHANGED <<hostVars, schedVars, calcPc, request, iCurrent, calcTimer, mfdptr,
                 completed>>

\* Sleep(4000) is over.
Slept ==
  /\ runPc = "sleep"
  /\ owner' = [owner EXCEPT ![Stopped] = "none"]
  /\ runPc' = "release"
  /\ UNCHANGED <<hostVars, schedVars, calcPc, request, iCurrent, calcTimer, mfdptr,
                 completed>>

\* Set vCalculator = Nothing: the reference is dropped, whatever the
\* calculator does; an event that is being handled keeps its object.
ReleaseCalculator ==
  /\ runPc = "release"
  /\ Pumping
  /\ runPc' = "stopSched"
  /\ UNCHANGED <<hostVars, schedVars, calcVars, completed>>

StopScheduler ==
  /\ runPc = "stopSched"
  /\ Pumping
  /\ SchedulerStop
  /\ runPc' = "done"
  /\ UNCHANGED <<calcVars, completed>>

\* Mutant of CallFails: the call is repeated (Resume).
CallRepeated ==
  /\ ~alive
  /\ runPc \in {"stopCalc", "release", "stopSched"}
  /\ UNCHANGED vars

\* Sis.exe is gone: the next call into it fails, and Deactivate handles no error.
CallFails ==
  /\ ~alive
  /\ runPc \in {"stopCalc", "release", "stopSched"}
  /\ runPc' = "failed"
  /\ UNCHANGED <<hostVars, schedVars, calcVars, completed>>

EdpsRun ==
  \/ Load \/ StartScheduler
  \/ Close \/ StopCalculator \/ WaitMutex \/ Slept \/ ReleaseCalculator \/ StopScheduler
  \/ CallFails

Next ==
  \/ SisScheduling
  \/ \E c \in Calculators : SisCalculating(c)
  \/ EdpsRun

Spec == Init /\ [][Next]_vars

(***************************************************************************)
(* Fairness.  The thread goes on with the handler it executes (weak), and  *)
(* the reply of an out-of-process call is taken in the end, although the   *)
(* handlers that enter while it is awaited suspend it now and then         *)
(* (strong).  A timer message is low priority but stays due until it is    *)
(* dispatched, so a timer that is enabled whenever the thread dispatches   *)
(* messages fires in the end (strong); so do the calls of EDPSRun, but the *)
(* user need not close the window.                                         *)
(***************************************************************************)
Fairness ==
  /\ WF_vars(SchedulerStep /\ UNCHANGED <<calcVars, runPc, completed>>)
  /\ SF_vars(Pumping /\ SchedulerTimer /\ UNCHANGED <<calcVars, runPc, completed>>)
  /\ \A c \in Calculators :
       /\ SF_vars(CalculatorStep(c) /\ SisCalculating(c))
       /\ SF_vars(Pumping /\ CalculatorTimer(c) /\ SisCalculating(c))
  /\ SF_vars(Load \/ StartScheduler \/ StopCalculator \/ WaitMutex \/ Slept
             \/ ReleaseCalculator \/ StopScheduler \/ CallFails)

FairSpec == Spec /\ Fairness

-----------------------------------------------------------------------------
(* Properties                                                              *)

ScheduleRow == [id : Scheduled, loop : Int, left : Int]

TypeOK ==
  /\ queue \in Seq(Scheduled)
  /\ stack \in Seq(Handlers)
  /\ alive \in BOOLEAN
  /\ schedPc \in {"idle", "autoexec", "drain", "scan"}
  /\ lCnt \in Nat \ {0}
  /\ bFirstRun \in BOOLEAN
  /\ schedTimer \in BOOLEAN
  /\ vSchedule \in Seq(ScheduleRow)
  /\ calcPc \in [Calculators -> {"idle", "wait", "line", "plc", "leis", "failing"}]
  /\ request \in [Calculators -> Scheduled \cup {0}]
  /\ iCurrent \in [Calculators -> Nat]
  /\ calcTimer \in BOOLEAN
  /\ mfdptr \in BOOLEAN
  /\ owner \in [Calculators -> {"none", "sis", "edps"}]
  /\ runPc \in RunStates
  /\ completed \subseteq Scheduled

\* The states of EDPSRun before it has stopped the calculator.
BeforeStop == {"load", "start", "run", "notStarted", "stopCalc"}

\* While EDPSRun sleeps with the mutex (Main.frm:260-262, to let a pending
\* calculation end), the calculator it stops is not calculating.
SleepExcludesCalculation == runPc = "sleep" => ~Calculating(Stopped)

\* The time-out branch of the timer event (Calculator.cls:513-516), which
\* loses the request it has taken, is never reached: EDPSRun, the only other
\* owner of the mutex, takes it after it has disabled the timer.
NoRequestTimesOut == \A c \in Calculators : calcPc[c] = "wait" => owner[c] # "edps"

\* ToCalculate never holds a formula twice, so a formula that cannot keep up
\* with its TimeLoop skips a cycle and does not fill the queue.
QueueNoDuplicates ==
  \A i, j \in 1 .. Len(queue) : queue[i] = queue[j] => i = j

\* No periodic formula is counted down or queued before every autoexec formula
\* has been calculated (Scheduler.cls:113-118 waits for them).
AutoexecFirst ==
  schedTimer /\ ~bFirstRun /\ schedPc \in {"idle", "scan"} => Autoexec \subseteq completed

\* After how many ticks the periodic formulas of the first i rows are due
\* together again.
CycleOf[i \in 0 .. Len(Rows)] ==
  IF i = 0 THEN 1 ELSE IF Rows[i].loop > 0 THEN Rows[i].loop * CycleOf[i - 1] ELSE CycleOf[i - 1]

Cycle == CycleOf[Len(Rows)]

\* Each Left2Run is what n ticks have left of its TimeLoop.  A tick that is
\* being handled has reached the rows before lCnt.
CountedTo(n) ==
  \A i \in 1 .. Len(vSchedule) :
    LET ticks == IF schedPc = "scan" /\ i < lCnt THEN n + 1 ELSE n
    IN  Rows[i].loop > 0 => vSchedule[i].left = Rows[i].loop - (ticks % Rows[i].loop)

\* All periodic formulas count the same ticks: there is one number of ticks that
\* explains every Left2Run, whatever happened between the ticks.
OneTickCount == \E n \in 0 .. Cycle - 1 : CountedTo(n)

\* After Deactivate has stopped the scheduler nothing is queued, not even by a
\* first timer event that was suspended in DoEvents when it was stopped.
QuietWhenDone == runPc = "done" => queue = << >>

\* After StopProcessing of the calculator no calculation begins.
NothingBeginsAfterStop ==
  [][\A c \in Calculators :
       runPc \notin BeforeStop /\ ~Calculating(c) => ~Calculating(c)']_vars

\* A formula in ToCalculate is calculated, unless the system is being stopped.
QueuedIsCalculated ==
  \A f \in Scheduled :
    f \in Queued ~> \/ \E c \in Calculators : Calculating(c) /\ request[c] = f
                    \/ runPc \notin BeforeStop

\* The DoEvents loop of the first timer event ends, even if the calculators are
\* stopped while it waits for them: SisScheduler's StopProcessing empties the
\* queue.
FirstEventEnds == schedPc = "drain" ~> schedPc = "idle"

\* Deactivate ends, whatever handlers are entered when it begins, and also when
\* Sis.exe dies before it or in the middle of it (Main.frm:246-280).
DeactivateEnds == runPc = "stopCalc" ~> runPc \in {"done", "failed"}

\* Once the system runs and is not closed, every periodic formula is calculated
\* again and again.
PeriodicRunsForever ==
  \A f \in Periodic :
    []<>(\/ \E c \in Calculators : Calculating(c) /\ request[c] = f
         \/ runPc \in RunStates \ {"load", "start", "run"})
=============================================================================
