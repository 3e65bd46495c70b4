---- MODULE MCWorkqueue ----
EXTENDS Workqueue
CONSTANTS freezable, intensive
MCWqList == <<freezable, intensive>>
\* One pool_workqueue is aligned to 256 bytes, the other to 16.
MCAddressBits == [wq \in {freezable, intensive} |-> IF wq = freezable THEN 0 ELSE 13]
====
