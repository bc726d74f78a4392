-------------------------------- MODULE MCVault --------------------------------
(***************************************************************************)
(* Instances of Vault for TLC.  Contents, agents and callers are model     *)
(* values; the operators below are the constants a cfg cannot write.       *)
(***************************************************************************)
EXTENDS Vault, TLC

CONSTANTS a1, c1, c2, c3, p1, p2

\* Contents are interchangeable where no constant singles one out.
ContentSymmetry == Permutations(Content)

\* So are callers, when each writes under its own agent_id or all under one.
CallerSymmetry == Permutations(Proc)

OneAgentEach == [p \in Proc |-> p]            \* with Agent <- Proc
SharedAgent == [p \in Proc |-> a1]            \* threads of one MCP server

OneGroup == {c1}                              \* callers name the group
Derived == {None}                             \* the client derives the group

NoPairs == {}
Similar == {<<c1, c2>>, <<c2, c1>>}
AllSimilar == Content \X Content             \* only a supersession writes beside another

Forever == {NoExpiry}
\* From the day before the history begins to its last.
Daily == Start-1..MaxTime
===============================================================================
