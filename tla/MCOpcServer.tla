------------------------------ MODULE MCOpcServer ------------------------------
EXTENDS OpcServer

\* The group of the single reads, that of the single writes and one list: a name
\* that was left half built beside two that were not.
MCNames == {"EDPS.ReadGp", "EDPS.WriteGp", "1,2,"}
=============================================================================
