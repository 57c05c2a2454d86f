----------------------------- MODULE SeqFolds -----------------------------
(***************************************************************************)
(* Two folds of a sequence and the repetition of a step, as recursive      *)
(* functions that a proof can be about: FoldLeft and SelectSeq take an     *)
(* operator, which the provers cannot instantiate.  Their lemmas are in    *)
(* SeqFoldsProofs.                                                         *)
(***************************************************************************)
EXTENDS Integers, Sequences

\* The sum of a sequence of numbers.
Total(s) ==
  LET sum[i \in 0..Len(s)] == IF i = 0 THEN 0 ELSE sum[i - 1] + s[i]
  IN  sum[Len(s)]

\* The elements of s that are in S, in their order.
KeepIf(q, e, S) == IF e \in S THEN Append(q, e) ELSE q

Only(s, S) ==
  LET kept[i \in 0..Len(s)] == IF i = 0 THEN <<>> ELSE KeepIf(kept[i - 1], s[i], S)
  IN  kept[Len(s)]

\* What n rounds make of v.
Repeat(round, v, n) ==
  LET after[i \in 0..n] == IF i = 0 THEN v ELSE round[after[i - 1]]
  IN  after[n]
=============================================================================
