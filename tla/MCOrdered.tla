---- MODULE MCOrdered ----
EXTENDS Ordered, TLC
CONSTANT Size
MCNode == 1 .. Size
\* Two pairs of equal keys; values that are in no order.
MCKeyOf == [n \in MCNode |-> CASE n <= 2 -> 1 [] n \in 3 .. 4 -> n - 1 [] OTHER -> n \div 2 + 2 ]
MCValOf == [n \in MCNode |-> (n * 5) % 7]
====
