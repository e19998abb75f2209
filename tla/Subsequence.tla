------------------------------- MODULE Subsequence -------------------------------
(***************************************************************************)
(* What a loop keeps that drops elements of a std::vector: those in a set, *)
(* in the order they have.                                                 *)
(***************************************************************************)
EXTENDS Integers, Sequences

\* Of the first n elements those in S.
Kept(s, S) ==
  LET kept[n \in 0 .. Len(s)] ==
        IF n = 0 THEN <<>>
        ELSE IF s[n] \in S THEN Append(kept[n - 1], s[n]) ELSE kept[n - 1]
  IN kept

Filtered(s, S) == Kept(s, S)[Len(s)]
================================================================================
