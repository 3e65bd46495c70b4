---- MODULE MCCpudl ----
EXTENDS CpudlCalls
\* Deadlines on both sides of the wrap of an 8-value counter.
AcrossWrap == {6, 7, 1}
====
