---- MODULE MCResource ----
EXTENDS ResourceLaws
CONSTANTS d1, d2, MCBusy
MCDrvFlags == [d \in Drv |-> IF d \in MCBusy THEN {"BUSY"} ELSE {}]
MCBounds == {<<0, MaxAddr>>, <<1, MaxAddr - 1>>}
====
