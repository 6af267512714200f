--------------------------- MODULE MCOrchestrator ---------------------------
(***************************************************************************)
(* Instances of Orchestrator for TLC.                                      *)
(***************************************************************************)
EXTENDS Orchestrator, TLC

\* Two writers of files of their own, and a reader behind the first that the
\* coordinator may add when the second fails.
ThreeDeps == <<{}, {}, {1}>>
ThreeTargets == <<{"a"}, {"b"}, {}>>
One == [n \in All |-> 1]
=============================================================================
