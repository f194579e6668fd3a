----------------------------- MODULE MCSisSystem -----------------------------
(***************************************************************************)
(* Instances of the pipeline: two autoexec formulas and three that are due *)
(* at every tick, at every second and at every fourth one, which between   *)
(* them use every kind of line (a tick that one of the last two misses     *)
(* puts them out of step); and a table in which one scheduled formula has  *)
(* no operations, with two calculators.                                    *)
(***************************************************************************)
EXTENDS SisRefinement

L(code, saved) == [code |-> code, to |-> 0, saved |-> saved]
Jump(to) == [code |-> "IF", to |-> to, saved |-> FALSE]
Row(id, loop) == [id |-> id, loop |-> loop]

MCRows == <<Row(1, -1), Row(3, 2), Row(4, -1), Row(2, 1), Row(5, 4)>>

MCLines ==
  <<  << L("SET", TRUE), L("WRITE", TRUE) >>,
      << L("READ", TRUE), Jump(4), L("SHARE", FALSE) >>,
      << L("MREAD", TRUE), L("SMREAD", FALSE) >>,
      << L("SREAD", FALSE) >>,
      << L("SHARE", FALSE) >>  >>

\* A formula without operations between two that have some.
GapRows == <<Row(1, 1), Row(2, 3), Row(3, 2)>>

GapLines ==
  [f \in {1, 3} |-> IF f = 1 THEN << L("SET", TRUE) >> ELSE << L("READ", FALSE) >>]
=============================================================================
