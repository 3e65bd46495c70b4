---- MODULE MCSorting ----
EXTENDS Sorting
CONSTANTS MaxTwoKeys, MaxThreeKeys, LongLengths
MCInputs ==
    UNION {[1..l -> 0..1] : l \in 0..MaxTwoKeys}
    \cup UNION {[1..l -> 0..2] : l \in 0..MaxThreeKeys}
    \cup {[i \in 1..l |-> (i * m) % 7] : l \in LongLengths, m \in 0..6}
====
