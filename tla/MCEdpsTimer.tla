------------------------------ MODULE MCEdpsTimer ------------------------------
\* Intervals of which one is raised to 10 ms.
EXTENDS EdpsTimer

MCIntervals == {5, 50}
MCTimerIds == {1, 2}
=============================================================================
