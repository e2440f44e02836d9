-------------------------------- MODULE Sums --------------------------------
(***************************************************************************)
(* Sums of integers, written as recursive functions so that the sums of    *)
(* the contract modules can be evaluated by TLC and reasoned about by      *)
(* induction in SumsProofs.                                                *)
(***************************************************************************)
EXTENDS Integers, Sequences

\* s[1] + ... + s[Len(s)]
SumSeq(s) ==
    LET upTo[k \in 0..Len(s)] == IF k = 0 THEN 0 ELSE upTo[k-1] + s[k]
    IN  upTo[Len(s)]

\* The sum of f over its arguments in the sequence keys.
SumOver(f, keys) == SumSeq([k \in 1..Len(keys) |-> f[keys[k]]])

LesserOf(a, b) == IF a <= b THEN a ELSE b
GreaterOf(a, b) == IF a >= b THEN a ELSE b
=============================================================================
