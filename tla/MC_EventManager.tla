--------------------------- MODULE MC_EventManager ---------------------------
EXTENDS EventManager

CONSTANTS t1, t2, t3
MCTimers == {t1, t2, t3}
=============================================================================
