----------------------------- MODULE MCAtsTimer -----------------------------
EXTENDS AtsTimer
CONSTANTS beep, poll
MCPeriod == [t \in Timers |-> IF t = beep THEN 2 ELSE 1]
=============================================================================
