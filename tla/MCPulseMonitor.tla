--------------------------- MODULE MCPulseMonitor ---------------------------
EXTENDS PulseMonitor

\* Three events: an object can be created, changed and removed.
MCNode == 1 .. 3
=============================================================================
