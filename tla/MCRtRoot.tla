---- MODULE MCRtRoot ----
EXTENDS RtRoot
CONSTANTS t1, t2, t3
MCAllowed == (t1 :> CPU) @@ (t2 :> CPU) @@ (t3 :> {0})
Symmetric == Permutations({t1, t2})
====
