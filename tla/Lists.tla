------------------------------- MODULE Lists -------------------------------
(***************************************************************************)
(* Loops over lists and ranks as folds: what a loop with an `if` collects,   *)
(* and what a loop or a reduction adds up.                                  *)
(***************************************************************************)
EXTENDS SequencesExt

(* The elements of s that are in S, in their order.                          *)
Chosen(s, S) ==
    FoldLeft(LAMBDA chosen, x : IF x \in S THEN Append(chosen, x) ELSE chosen, <<>>, s)

(* The sum of f[x] over S.                                                   *)
Total(f, S) == MapThenSumSet(LAMBDA x : f[x], S)
=============================================================================
