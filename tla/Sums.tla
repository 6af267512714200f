-------------------------------- MODULE Sums --------------------------------
(***************************************************************************)
(* The sum() of Python over a journal's rows.  The sums of the community   *)
(* modules choose the order of their summands, which nothing can be proved *)
(* about by induction; this one goes through a sequence from the front.    *)
(***************************************************************************)
EXTENDS Integers, Sequences

\* d[1] + ... + d[n]
SumTo(d, n) ==
    LET s[i \in 0..n] == IF i = 0 THEN 0 ELSE s[i - 1] + d[i]
    IN  s[n]

SumOf(d) == SumTo(d, Len(d))
=============================================================================
