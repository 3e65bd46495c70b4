---- MODULE MCMemblock ----
EXTENDS MemblockLaws

\* Any address the current limit allows.
MCAnywhere == {<<0, 0>>}

\* Preferably from 2 up to the last address.
MCPreferHigh == {<<2, MaxPhys>>}
====
