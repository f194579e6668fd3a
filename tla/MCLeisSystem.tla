----------------------------- MODULE MCLeisSystem -----------------------------
\* One sample of each of two parameters, and downloads that differ in all three parts:
\* the second one does not name parameter 2.
EXTENDS LeisSystem

CONSTANTS s1, s2

MCSamples == {s1, s2}
MCParams == {1, 2}
MCParOf == [s \in MCSamples |-> IF s = s1 THEN 1 ELSE 2]
MCDownloads ==
  {[params |-> {1, 2}, formulas |-> {1}, operations |-> {1, 2}],
   [params |-> {1},    formulas |-> {1, 2}, operations |-> {1}]}
MCServers == {"MASTER", "SLAVE"}
MCMaster == {"MASTER"}

AllowedFaults == {"sql", "delete", "open", "crash"}
SwapFaults == {"sql", "swap"}
=============================================================================
