--------------------------- MODULE FormulaDispatch ---------------------------
(***************************************************************************)
(* What the acquisition pipeline promises: formulas are requested, wait in *)
(* line, each at most once, and are calculated in the order of the line.   *)
(* A request that has been accepted is not lost, except that closing the   *)
(* line discards those nobody has begun.  From `Stop' on nothing new       *)
(* begins; from `Discard' on nothing new is requested.  A crash loses all. *)
(***************************************************************************)
EXTENDS Integers, Sequences

CONSTANTS
  Formula,       \* the formulas that can be requested
  Worker,        \* those who calculate
  None           \* no formula: not in Formula

VARIABLES
  line,          \* the requests nobody has begun, oldest first
  work,          \* the formula each worker calculates, or None
  phase          \* "open", "stopping" (no new calculation), "closed", "dead"

dispatchVars == <<line, work, phase>>

InLine(f) == \E i \in 1 .. Len(line) : line[i] = f

DispatchInit ==
  /\ line = << >>
  /\ work = [w \in Worker |-> None]
  /\ phase = "open"

Request(f) ==
  /\ phase \in {"open", "stopping"}
  /\ ~InLine(f)
  /\ line' = Append(line, f)
  /\ UNCHANGED <<work, phase>>

Begin(w) ==
  /\ phase = "open"
  /\ line # << >>
  /\ work[w] = None
  /\ work' = [work EXCEPT ![w] = Head(line)]
  /\ line' = Tail(line)
  /\ UNCHANGED phase

End(w) ==
  /\ phase # "dead"
  /\ work[w] # None
  /\ work' = [work EXCEPT ![w] = None]
  /\ UNCHANGED <<line, phase>>

Stop ==
  /\ phase = "open"
  /\ phase' = "stopping"
  /\ UNCHANGED <<line, work>>

Discard ==
  /\ phase = "stopping"
  /\ phase' = "closed"
  /\ line' = << >>
  /\ UNCHANGED work

Crash ==
  /\ phase' = "dead"
  /\ line' = << >>
  /\ work' = [w \in Worker |-> None]

DispatchNext ==
  \/ \E f \in Formula : Request(f)
  \/ \E w \in Worker : Begin(w) \/ End(w)
  \/ Stop \/ Discard \/ Crash

DispatchSpec == DispatchInit /\ [][DispatchNext]_dispatchVars
=============================================================================
