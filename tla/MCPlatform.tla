---- MODULE MCPlatform ----
EXTENDS Platform
CONSTANTS a1, a2, b1, A, B
MCDrvFlags == [d \in Drv |-> {}]
MCBounds == {<<0, MaxAddr>>}
MCDevRes == (A :> <<a1, a2>>) @@ (B :> <<b1>>)
====
