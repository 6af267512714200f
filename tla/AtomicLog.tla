------------------------------ MODULE AtomicLog ------------------------------
(***************************************************************************)
(* What a ctx journal promises its readers.  The task ledger               *)
(* (src/ctx/taskledger.py) and the relay queue (src/ctx/relay.py) are both *)
(* used by the rest of the program as if appending a row were one step:    *)
(* the row is in the log for good, behind every row that was there before. *)
(* A writer that dies may or may not have appended its row; nothing else   *)
(* it did can be seen.                                                     *)
(***************************************************************************)
EXTENDS Sequences, SequencesExt

CONSTANT Rows                   \* the rows a writer may ever append

VARIABLE log                    \* what load() returns, in order

AInit == log = <<>>

\* One new row, at the end.
AAppend == \E r \in Rows \ ToSet(log) : log' = Append(log, r)

ASpec == AInit /\ [][AAppend]_log
=============================================================================
