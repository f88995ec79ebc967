------------------------------ MODULE MCTraverse ------------------------------
(* A walk for TLC: a seed, two symbols and a file.  Both orders of discovery, *)
(* a route that is better than the first one, a cycle, dead ends and ties are *)
(* among the graphs; the budgets have a call that can afford next to nothing, *)
(* one that can afford all, and one that may go deeper.                       *)
EXTENDS Traverse

CONSTANTS n1, n2, n3, n4

Hop(to, value) == [to |-> to, value |-> value]
Graphs == [n \in Node |->
    CASE n = n1 -> {<<Hop(n2, 1), Hop(n3, 2)>>, <<Hop(n3, 2), Hop(n2, 2)>>}
      [] n = n2 -> {<<>>, <<Hop(n4, 2)>>, <<Hop(n4, 1), Hop(n3, 2)>>}
      [] n = n3 -> {<<Hop(n2, 2)>>, <<Hop(n4, 2), Hop(n2, 1)>>}
      [] n = n4 -> {<<>>, <<Hop(n3, 2)>>}]
Caps == {[pops |-> 2, depth |-> 2, tokens |-> 5, calls |-> 1],
         [pops |-> 5, depth |-> 2, tokens |-> 20, calls |-> 3],
         [pops |-> 5, depth |-> 3, tokens |-> 20, calls |-> 3]}
=============================================================================
