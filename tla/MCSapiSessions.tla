---------------------------- MODULE MCSapiSessions ----------------------------
\* Three processors with two connection names, and room for two sessions only,
\* or for three.
EXTENDS SapiSessions, TLC

CONSTANTS cpA, cpB, cpC, conX, conY, a1, a2, a3, a4

MCCPNames == {cpA, cpB, cpC}
MCConNames == {conX, conY}
ThreeAddresses == {a1, a2, a3}
FourAddresses == {a1, a2, a3, a4}
AnyStatus == {0, 1}

Symmetry == Permutations(MCCPNames) \cup Permutations(MCConNames) \cup Permutations(Addresses)
=============================================================================
