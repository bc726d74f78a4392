----------------------------- MODULE MCBatchReads -----------------------------
(***************************************************************************)
(* Instances of BatchReads for TLC.                                        *)
(***************************************************************************)
EXTENDS BatchReads

CONSTANTS a1, c1, c2, c3, p1, p2, t1, t2, t3

Symmetry == Permutations(Proc)

OneAgent == [p \in Proc |-> a1]
Forever == {NoExpiry}
NoPairs == {}

TwoTasks == [c \in Content |-> IF c = c3 THEN t2 ELSE t1]

K(c, v) == BuildVectorKey(a1, c, v)

Lists == {<<K(c1, 1), K(c2, 1), K(c3, 1)>>}
Packs == [boot |-> <<t3, t2, t1>>]
Bootstrap == {[pack |-> "boot", tasks |-> <<>>], [pack |-> "stray", tasks |-> <<>>],
              [pack |-> "stray", tasks |-> <<t3, t2, t1>>]}

Sizes == [c \in Content |-> IF c = c1 THEN 3 ELSE 1]
Previews == [c \in Content |-> 1]
===============================================================================
