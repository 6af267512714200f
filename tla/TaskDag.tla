------------------------------ MODULE TaskDag ------------------------------
(***************************************************************************)
(* What ctx orchestrate promises, whatever waves, retries, merges and      *)
(* restarts it takes: work lands in the order of its dependencies, landed  *)
(* work stays, and what a run calls finished has landed.                   *)
(***************************************************************************)
CONSTANTS Node, Needs           \* Needs[n]: the nodes n depends on

VARIABLES landed,               \* nodes whose work is in the workspace
          told                  \* nodes the present run calls finished

DInit == landed = {} /\ told = {}

\* The patches of one wave land together.
Land(S) ==
    /\ \A n \in S : Needs[n] \subseteq landed
    /\ landed' = landed \cup S
    /\ told' \in SUBSET landed'

DNext == \E S \in SUBSET Node : Land(S)

DSpec == DInit /\ [][DNext]_<<landed, told>>
=============================================================================
