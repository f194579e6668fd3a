------------------------------- MODULE SisHost -------------------------------
(***************************************************************************)
(* The process Sis.exe: an ActiveX EXE with one single-threaded apartment  *)
(* (Sis.vbp: MaxNumberOfThreads=1), in which the scheduler and every       *)
(* calculator live, and the request queue ToCalculate that qm.dll keeps    *)
(* for the process.                                                        *)
(*                                                                         *)
(* All handlers of the process share one thread, so they nest instead of   *)
(* running in parallel: `stack' holds the event handlers that have been    *)
(* entered and have not returned, the innermost last.  Only the innermost  *)
(* one executes.  Another handler, or a call coming in from EDPSRun, can   *)
(* enter only while the thread dispatches messages: when no handler is     *)
(* active, in a DoEvents, or while the innermost handler waits for the     *)
(* reply of an out-of-process call.                                        *)
(***************************************************************************)
EXTENDS Integers, Sequences

CONSTANTS
  WorkThreads    \* number of cCalculator objects (EDPS.ini, key WorkThreads)

ASSUME WorkThreadsAssumption == WorkThreads \in Nat \ {0}

VARIABLES
  queue,         \* the queue ToCalculate of qm.dll: formula ids, oldest first
  stack,         \* the handlers entered and not yet left, innermost last
  alive          \* FALSE once an unhandled run-time error ended the process

hostVars == <<queue, stack, alive>>

Calculators == 1 .. WorkThreads

\* The handlers are the timer events of the scheduler and of each calculator.
Sched    == 0
Handlers == {Sched} \cup Calculators
Nobody   == -1

Queued  == {queue[i] : i \in 1 .. Len(queue)}
Active  == {stack[i] : i \in 1 .. Len(stack)}
Top     == IF stack = << >> THEN Nobody ELSE stack[Len(stack)]

\* h is the handler that executes now.
Executes(h) == alive /\ Top = h

Enter(h) == stack' = Append(stack, h)
Leave    == stack' = SubSeq(stack, 1, Len(stack) - 1)

-----------------------------------------------------------------------------
(* qm.dll, whose object code is in SIS/QM.dll and whose source is not in   *)
(* the repository: qm_push appends, qm_pushex appends unless an equal      *)
(* string is already in the queue, qm_pop takes the oldest.                *)

qm_push(f)   == queue' = Append(queue, f)
qm_pushex(f) == queue' = IF f \in Queued THEN queue ELSE Append(queue, f)
qm_drain     == queue' = << >>

HostInit ==
  /\ queue = << >>
  /\ stack = << >>
  /\ alive = TRUE
=============================================================================
