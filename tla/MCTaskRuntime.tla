--------------------------- MODULE MCTaskRuntime ---------------------------
(***************************************************************************)
(* Instances of TaskRuntime for TLC.  Operation keys are short strings of  *)
(* digits, <<1>> is "1", and no attempt number confuses them here.         *)
(***************************************************************************)
EXTENDS TaskRuntime, TLC

\* A mutation and a model call.
TwoKeys == {<<1>>, <<2>>}
TwoKinds == (<<1>> :> "mutate") @@ (<<2>> :> "model")

\* One model call, tried again and again.
OneModelKey == {<<1>>}
OneModelKind == (<<1>> :> "model")

Symmetry == Permutations(Procs) \cup Permutations(Requests)
=============================================================================
