---------------------------- MODULE MCWorkingSets ----------------------------
(***************************************************************************)
(* Instances of WorkingSets for TLC.                                       *)
(***************************************************************************)
EXTENDS WorkingSets, TLC

CONSTANTS a1, c1, c2, p1, p2

\* Callers are interchangeable, and so are the lists of keys that are pinned.
Symmetry == Permutations(Proc) \cup Permutations(Content)

OneAgent == [p \in Proc |-> a1]

NoPairs == {}

Forever == {NoExpiry}
UntilTomorrow == {NoExpiry, Start + 1}
===============================================================================
