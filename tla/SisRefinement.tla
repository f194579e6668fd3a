---------------------------- MODULE SisRefinement ----------------------------
(***************************************************************************)
(* The pipeline implements FormulaDispatch.  The queue is the line, and a  *)
(* worker has a formula from the moment its timer event takes it from the  *)
(* queue until the event returns.                                          *)
(***************************************************************************)
EXTENDS SisSystem

NoFormula == 0

\* The formula calculator c works on.
Working(c) == IF alive /\ calcPc[c] # "idle" THEN request[c] ELSE NoFormula

Work == [c \in Calculators |-> Working(c)]

\* The requests that wait.
Waiting == IF alive THEN queue ELSE << >>

Phase ==
  IF ~alive THEN "dead"
  ELSE IF runPc \in BeforeStop THEN "open"
  ELSE IF runPc = "done" THEN "closed"
  ELSE "stopping"

Dispatch == INSTANCE FormulaDispatch WITH
  Formula <- Scheduled,
  Worker <- Calculators,
  None <- NoFormula,
  line <- Waiting,
  work <- Work,
  phase <- Phase

\* The pipeline never loses, reorders, doubles or invents a request, and never
\* begins one after it was told to stop.
ImplementsDispatch == Dispatch!DispatchSpec
=============================================================================
