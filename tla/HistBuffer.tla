------------------------------ MODULE HistBuffer ------------------------------
(***************************************************************************)
(* What the local buffer promises: a sample it has accepted is held until  *)
(* the master server is known to have it.                                  *)
(***************************************************************************)
CONSTANT
  Sample         \* the samples that can be offered

VARIABLES
  held,          \* the samples accepted and not yet confirmed
  confirmed      \* the samples the master server has

bufferVars == <<held, confirmed>>

BufferInit == held = {} /\ confirmed = {}

Accept(s) ==
  /\ s \notin held \cup confirmed
  /\ held' = held \cup {s}
  /\ UNCHANGED confirmed

Confirm(s) ==
  /\ s \in held
  /\ held' = held \ {s}
  /\ confirmed' = confirmed \cup {s}

BufferNext == \E s \in Sample : Accept(s) \/ Confirm(s)

BufferSpec == BufferInit /\ [][BufferNext]_bufferVars
=============================================================================
