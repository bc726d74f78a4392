------------------------------ MODULE MCExpansion ------------------------------
(***************************************************************************)
(* Instances of Expansion for TLC: citation graphs with a cycle, a         *)
(* shortcut, a fork and linked ids, on four keys.                          *)
(***************************************************************************)
EXTENDS Expansion

CONSTANTS k1, k2, k3, k4, g

Cites(refs, links, size) == [refs |-> refs, linked_ids |-> links, size |-> size]

Graph(m1, m2, m3, m4) ==
  [k \in Key |-> CASE k = k1 -> m1 [] k = k2 -> m2 [] k = k3 -> m3 [] k = k4 -> m4]

\* A long way and a short way to k3; a cycle; a diamond with linked ids.
MCVaults ==
  {Graph(Cites(first, <<>>, 1), Cites(<<k3>>, <<>>, 1),
         Cites(<<k4>>, <<>>, 1), Cites(<<k1>>, <<>>, s)) :
     first \in {<<k2, k3>>, <<k3, k2>>}, s \in {1, 3}}
  \cup
  {Graph(Cites(<<k2, k2>>, <<g>>, 1), Cites(<<k1>>, <<g>>, 2),
         Cites(<<k4, k1>>, <<>>, s), None) : s \in {1, 5}}

MCSeeds == {<<k1>>, <<k1, k2, k1>>, <<k4, k3>>}
===============================================================================
