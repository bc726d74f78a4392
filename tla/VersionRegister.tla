---------------------------- MODULE VersionRegister ----------------------------
(***************************************************************************)
(* What the memory store promises a reader about corrections: every        *)
(* canonical group of every index is a register that holds the newest      *)
(* version of the memory, and the register only ever moves to the next     *)
(* version.  It never falls back, never skips and never empties.           *)
(***************************************************************************)
EXTENDS Naturals

CONSTANTS Slot,      \* the canonical groups, one slot per index
          LastVersion

VARIABLE newest      \* 0: nothing stored yet

Init == newest = [s \in Slot |-> 0]

\* Slot s moves to the next version, and nothing else moves.
Advance(s) == /\ newest'[s] = newest[s] + 1
              /\ newest'[s] <= LastVersion
              /\ newest' = [newest EXCEPT ![s] = newest'[s]]

Next == \E s \in Slot : Advance(s)

Spec == Init /\ [][Next]_newest
===============================================================================
