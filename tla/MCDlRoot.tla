---- MODULE MCDlRoot ----
EXTENDS DlRoot, TLC
Symmetric == Permutations(Task)
====
