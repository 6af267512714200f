-------------------------- MODULE MCInvestigation --------------------------
(***************************************************************************)
(* A small task: two files, edits of one or both of them.                  *)
(***************************************************************************)
EXTENDS Investigation, TLC

CONSTANTS a, b

\* A wrong edit of b; a right one of a, which puts b back.
SomeEdits == {b :> 1, (a :> 1) @@ (b :> 0)}

\* Somebody changes a, and puts it back; somebody leaves a note.
SomebodyElse == {<<a, 2>>, <<a, 0>>, <<Note, 1>>}
=============================================================================
