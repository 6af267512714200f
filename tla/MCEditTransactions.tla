------------------------- MODULE MCEditTransactions -------------------------
(***************************************************************************)
(* Two files and two plans.  Both plans are for both files, so that either *)
(* may find the other in the middle; the first replaces two spans of one   *)
(* of them.                                                                *)
(***************************************************************************)
EXTENDS EditTransactions

CONSTANTS a1, a2

TwoFiles == <<"f", "g">>
TwoOrigins == [f \in {"f", "g"} |-> IF f = "f" THEN <<"x", "y", "z">> ELSE <<"u", "v">>]

Change(f, start, end, repl) == [file |-> f, start |-> start, end |-> end, repl |-> repl]

TwoPlans == [a \in Applies |->
    IF a = a1 THEN <<Change("f", 3, 3, <<"z1">>), Change("g", 1, 1, <<"u1">>),
                     Change("f", 1, 1, <<"x1", "x1b">>)>>
    ELSE <<Change("f", 2, 2, <<"y2">>), Change("g", 2, 2, <<>>)>>]

\* The plans and the notes of this instance are what the theorems on them ask.
ASSUME ApartAssumption == MarksApart /\ NotesApart
=============================================================================
