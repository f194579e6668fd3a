----------------------------- MODULE SisScheduler -----------------------------
(***************************************************************************)
(* cScheduler (SIS/Scheduler.cls) with its table of cSchedPTR records.     *)
(* Its one-second timer event first queues the autoexec formulas (TimeLoop *)
(* -1) and waits in a DoEvents loop until they have been taken; from then  *)
(* on each event counts every periodic formula down and queues the due     *)
(* ones.                                                                   *)
(***************************************************************************)
EXTENDS SisHost

CONSTANTS
  Rows           \* tblFormula as AddSchedule receives it: a sequence of
                 \* records [id, loop], loop in scheduler steps, -1 = autoexec

\* Formula_ID is the key of tblFormula.
ASSUME RowsAssumption ==
  /\ Rows \in Seq([id : Nat \ {0}, loop : Int])
  /\ \A i, j \in 1 .. Len(Rows) : Rows[i].id = Rows[j].id => i = j

VARIABLES
  schedPc,       \* where the timer event is: "idle" (not entered),
                 \* "autoexec" (first loop), "drain" (DoEvents), "scan"
  lCnt,          \* the loop counter of the timer event
  bFirstRun,
  schedTimer,    \* tmrScheduler.Enabled
  vSchedule      \* the table: a sequence of [id, loop, left]

schedVars == <<schedPc, lCnt, bFirstRun, schedTimer, vSchedule>>

Scheduled == {Rows[i].id : i \in 1 .. Len(Rows)}

\* The formulas the table runs once, and those it runs again and again.
Autoexec == {Rows[i].id : i \in {j \in 1 .. Len(Rows) : Rows[j].loop = -1}}
Periodic == {Rows[i].id : i \in {j \in 1 .. Len(Rows) : Rows[j].loop > 0}}

SchedInit ==
  /\ schedPc = "idle"
  /\ lCnt = 1
  /\ bFirstRun = TRUE
  /\ schedTimer = FALSE
  /\ vSchedule = << >>

-----------------------------------------------------------------------------
\* AddSchedule for every row of tblFormula: Left2Run starts at TimeLoop.
AddSchedules ==
  vSchedule' = [i \in 1 .. Len(Rows) |->
                  [id |-> Rows[i].id, loop |-> Rows[i].loop, left |-> Rows[i].loop]]

\* The timer event is raised.
SchedulerTimer ==
  /\ schedTimer
  /\ Sched \notin Active
  /\ Enter(Sched)
  /\ schedPc' = IF bFirstRun THEN "autoexec" ELSE "scan"
  /\ lCnt' = 1
  /\ bFirstRun' = FALSE
  /\ UNCHANGED <<queue, alive, schedTimer, vSchedule>>

\* Mutant of SetLeft2Run: it counts down whatever it is told.
SetLeft2RunOnce(s, n) == [id |-> s.id, loop |-> s.loop, left |-> s.left - 1]

\* The setters of cSchedPTR: that of TimeLoop sets Left2Run too.
SetTimeLoop(s, n) == [id |-> s.id, loop |-> n, left |-> n]
SetLeft2Run(s, n) == [id |-> s.id, loop |-> s.loop, left |-> n]

\* One pass of the autoexec loop.
AutoexecRow ==
  /\ Executes(Sched)
  /\ schedPc = "autoexec"
  /\ lCnt <= Len(vSchedule)
  /\ lCnt' = lCnt + 1
  /\ IF vSchedule[lCnt].loop = -1
       THEN /\ vSchedule' = [vSchedule EXCEPT ![lCnt] = SetTimeLoop(@, 0)]
            /\ qm_push(vSchedule[lCnt].id)
       ELSE UNCHANGED <<vSchedule, queue>>
  /\ UNCHANGED <<stack, alive, schedPc, bFirstRun, schedTimer>>

AutoexecQueued ==
  /\ Executes(Sched)
  /\ schedPc = "autoexec"
  /\ lCnt > Len(vSchedule)
  /\ schedPc' = "drain"
  /\ UNCHANGED <<hostVars, lCnt, bFirstRun, schedTimer, vSchedule>>

\* Mutants of AutoexecTaken: it does not wait; it counts from zero.
AutoexecTakenAtOnce ==
  /\ Executes(Sched)
  /\ schedPc = "drain"
  /\ schedPc' = "scan"
  /\ lCnt' = 1
  /\ UNCHANGED <<hostVars, bFirstRun, schedTimer, vSchedule>>

AutoexecTakenFromZero ==
  /\ Executes(Sched)
  /\ schedPc = "drain"
  /\ queue = << >>
  /\ schedPc' = "scan"
  /\ lCnt' = 0
  /\ UNCHANGED <<hostVars, bFirstRun, schedTimer, vSchedule>>

\* "While qm_length(ToCalculate) > 0 : DoEvents" ends.
AutoexecTaken ==
  /\ Executes(Sched)
  /\ schedPc = "drain"
  /\ queue = << >>
  /\ schedPc' = "scan"
  /\ lCnt' = 1
  /\ UNCHANGED <<hostVars, bFirstRun, schedTimer, vSchedule>>

\* Mutant of ScanRow: a due formula ends the loop, the rows after it miss the tick.
ScanRowExits ==
  /\ Executes(Sched)
  /\ schedPc = "scan"
  /\ lCnt <= Len(vSchedule)
  /\ LET s == vSchedule[lCnt]
         due == s.loop > 0 /\ s.left = 1
     IN  /\ lCnt' = IF due THEN Len(vSchedule) + 1 ELSE lCnt + 1
         /\ IF due THEN qm_pushex(s.id) ELSE UNCHANGED queue
         /\ vSchedule' = [vSchedule EXCEPT ![lCnt] =
              IF due THEN SetLeft2Run(s, s.loop)
              ELSE IF s.loop > 0 THEN SetLeft2Run(s, s.left - 1) ELSE s]
  /\ UNCHANGED <<stack, alive, schedPc, bFirstRun, schedTimer>>

\* One pass of the periodic loop.
ScanRow ==
  /\ Executes(Sched)
  /\ schedPc = "scan"
  /\ lCnt <= Len(vSchedule)
  /\ lCnt' = lCnt + 1
  /\ LET s == vSchedule[lCnt]
     IN  IF s.loop > 0 /\ s.left > 0
           THEN IF s.left = 1
                  THEN /\ vSchedule' = [vSchedule EXCEPT ![lCnt] = SetLeft2Run(s, s.loop)]
                       /\ qm_pushex(s.id)
                  ELSE /\ vSchedule' = [vSchedule EXCEPT ![lCnt] = SetLeft2Run(s, s.left - 1)]
                       /\ UNCHANGED queue
           ELSE UNCHANGED <<vSchedule, queue>>
  /\ UNCHANGED <<stack, alive, schedPc, bFirstRun, schedTimer>>

ScanDone ==
  /\ Executes(Sched)
  /\ schedPc = "scan"
  /\ lCnt > Len(vSchedule)
  /\ schedPc' = "idle"
  /\ Leave
  /\ UNCHANGED <<queue, alive, lCnt, bFirstRun, schedTimer, vSchedule>>

SchedulerStep ==
  AutoexecRow \/ AutoexecQueued \/ AutoexecTaken \/ ScanRow \/ ScanDone

\* StartProcessing and StopProcessing, called by EDPSRun.  (Mutant of the latter:
\* it leaves the queue as it is.)
SchedulerStart ==
  /\ schedTimer' = TRUE
  /\ UNCHANGED <<hostVars, schedPc, lCnt, bFirstRun, vSchedule>>

SchedulerStopKeepsQueue ==
  /\ schedTimer' = FALSE
  /\ vSchedule' = << >>
  /\ UNCHANGED <<queue, stack, alive, schedPc, lCnt, bFirstRun>>

SchedulerStop ==
  /\ schedTimer' = FALSE
  /\ qm_drain
  /\ vSchedule' = << >>
  /\ UNCHANGED <<stack, alive, schedPc, lCnt, bFirstRun>>
=============================================================================
