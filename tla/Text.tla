---------------------------------- MODULE Text ----------------------------------
(***************************************************************************)
(* Texts as sequences of characters, and what the loops over a std::string *)
(* have in common.  A character is a string, mostly of length one.         *)
(***************************************************************************)
EXTENDS Integers, SequencesExt

\* s[i], and something that is no character behind the end.
At(s, i) == IF i \in DOMAIN s THEN s[i] ELSE "end"

\* The word stands at position i.
Word(s, i, word) == \A k \in DOMAIN word : At(s, i + k - 1) = word[k]

\* The first position from i on that does not hold one of the characters.
Behind(s, i, chars) == Min({j \in i .. Len(s) + 1 : At(s, j) \notin chars})

\* std::string::find: the first position from i on where the word stands; 0 for npos.
find(s, word, i) ==
  LET found == {j \in i .. Len(s) - Len(word) + 1 : Word(s, j, word)}
  IN IF found = {} THEN 0 ELSE Min(found)

\* All texts of at most n characters.
TextsOver(chars, n) == UNION {[1 .. k -> chars] : k \in 0 .. n}
================================================================================
