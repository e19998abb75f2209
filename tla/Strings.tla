---------------------------------- MODULE Strings ----------------------------------
(***************************************************************************)
(* tangbase::util (src/util/string.hpp): splitting, replacing and trimming *)
(* texts.                                                                  *)
(***************************************************************************)
EXTENDS Text

Blanks == {" ", "\t", "\n", "\r"}

--------------------------------------------------------------------------------
(* Mutants: the definitions below as a plausible slip would write them.  No *)
(* definition uses them; PROJECT.json says which property rejects which.    *)

\* The search goes on behind the first character of what has been replaced.
replace_all_overlapping(s, old, new) ==
  LET rest[i \in 1 .. Len(s) + 1] ==
        LET pos == find(s, old, i) IN
        IF i > Len(s) \/ pos = 0 THEN SubSeq(s, i, Len(s))
        ELSE SubSeq(s, i, pos - 1) \o new \o rest[pos + 1]
  IN IF old = <<>> THEN s ELSE rest[1]
--------------------------------------------------------------------------------
trim_start(s) == SubSeq(s, Behind(s, 1, Blanks), Len(s))

\* The end moves left over blanks, no further than to start.
EndFrom(s, start) == Max({start - 1} \cup {j \in start .. Len(s) : s[j] \notin Blanks})

trim_end(s) == SubSeq(s, 1, EndFrom(s, 1))

trim(s) == LET start == Behind(s, 1, Blanks) IN SubSeq(s, start, EndFrom(s, start))

is_blank(s) == \A i \in DOMAIN s : s[i] \in Blanks

\* split and split_any: each delimiter, and the end of the text, closes a part;
\* split_any leaves out those of no characters.
Parts(s, delims, empties) ==
  FoldLeft(LAMBDA acc, i :
             IF i <= Len(s) /\ s[i] \notin delims THEN acc
             ELSE [start |-> i + 1,
                   parts |-> IF empties \/ acc.start < i
                             THEN Append(acc.parts, SubSeq(s, acc.start, i - 1))
                             ELSE acc.parts],
           [start |-> 1, parts |-> <<>>], [i \in 1 .. Len(s) + 1 |-> i]).parts

split(s, delim) == Parts(s, {delim}, TRUE)
split_any(s, delims) == Parts(s, delims, FALSE)

replace_once(s, old, new) ==
  LET pos == find(s, old, 1) IN
  IF old = <<>> \/ pos = 0 THEN s
  ELSE SubSeq(s, 1, pos - 1) \o new \o SubSeq(s, pos + Len(old), Len(s))

replace_all(s, old, new) ==
  LET rest[i \in 1 .. Len(s) + 1] ==
        LET pos == find(s, old, i) IN
        IF i > Len(s) \/ pos = 0 THEN SubSeq(s, i, Len(s))
        ELSE SubSeq(s, i, pos - 1) \o new \o rest[pos + Len(old)]
  IN IF old = <<>> THEN s ELSE rest[1]

\* The characters of these two texts are their codes: 'A' to 'Z', 'a' to 'z'.
to_lower(s) == [i \in DOMAIN s |-> IF 65 <= s[i] /\ s[i] <= 90 THEN s[i] + 32 ELSE s[i]]
to_upper(s) == [i \in DOMAIN s |-> IF 97 <= s[i] /\ s[i] <= 122 THEN s[i] - 32 ELSE s[i]]

starts_with(s, prefix) == Len(s) >= Len(prefix) /\ SubSeq(s, 1, Len(prefix)) = prefix

ends_with(s, suffix) ==
  Len(s) >= Len(suffix) /\ SubSeq(s, Len(s) - Len(suffix) + 1, Len(s)) = suffix
--------------------------------------------------------------------------------
(* Properties *)

Joined(parts, delim) ==
  FlattenSeq([k \in DOMAIN parts |-> IF k = 1 THEN parts[k] ELSE <<delim>> \o parts[k]])

\* The parts of a split have no delimiter in them and, joined, give the text; those
\* of split_any are the parts of a split that are not empty.
SplitRight(s) ==
  /\ \A d \in {"a", "b"} :
       /\ Joined(split(s, d), d) = s
       /\ \A k \in DOMAIN split(s, d) : d \notin Range(split(s, d)[k])
  /\ split_any(s, {"a", "b"}) =
       SelectSeq(split([i \in DOMAIN s |-> IF s[i] = "b" THEN "a" ELSE s[i]], "a"),
                 LAMBDA part : part # <<>>)

\* The text with new in the place of the words of length n at the positions.
Spliced(s, positions, n, new) ==
  FlattenSeq([k \in DOMAIN s |->
    IF k \in positions THEN new
    ELSE IF \E p \in positions : k \in p .. p + n - 1 THEN <<>>
    ELSE <<s[k]>>])

\* Replaced are the occurrences that overlap none of the replaced to their left, or
\* the first one only; what has been put in their place is not looked at again.
ReplaceRight(s, old, new) ==
  LET occurs == {i \in DOMAIN s : Word(s, i, old)}
      first == {i \in occurs : \A j \in occurs : i <= j}
      chosen == CHOOSE P \in SUBSET occurs :
                  \A i \in occurs : i \in P <=> \A j \in P : j >= i \/ j + Len(old) <= i
  IN IF old = <<>> THEN replace_all(s, old, new) = s /\ replace_once(s, old, new) = s
     ELSE /\ replace_all(s, old, new) = Spliced(s, chosen, Len(old), new)
          /\ replace_once(s, old, new) = Spliced(s, first, Len(old), new)

\* trim takes the blanks off both ends and nothing else.
TrimRight(s) ==
  /\ trim(s) = trim_end(trim_start(s)) /\ trim(s) = trim_start(trim_end(s))
  /\ is_blank(s) <=> trim(s) = <<>>
  /\ \E i, j \in 0 .. Len(s) :
       /\ s = SubSeq(s, 1, i) \o trim(s) \o SubSeq(s, j + 1, Len(s))
       /\ is_blank(SubSeq(s, 1, i)) /\ is_blank(SubSeq(s, j + 1, Len(s)))
  /\ trim(s) # <<>> => Head(trim(s)) \notin Blanks /\ Last(trim(s)) \notin Blanks

\* Two texts that differ in case only, as one conversion says, do so as the other one
\* says, and each conversion undoes what the other one has done to a text: their two
\* ranges fit, to the letters at their ends and the characters beside these.
CaseRight(s, t) ==
  /\ to_lower(s) = to_lower(t) <=> to_upper(s) = to_upper(t)
  /\ to_lower(to_upper(s)) = to_lower(s) /\ to_upper(to_lower(s)) = to_upper(s)

\* What a text is made of is what it starts and ends with.
EndsRight(s, t) ==
  /\ starts_with(s, t) <=> \E i \in 0 .. Len(s) : s = t \o SubSeq(s, i + 1, Len(s))
  /\ ends_with(s, t) <=> \E i \in 0 .. Len(s) : s = SubSeq(s, 1, i) \o t
================================================================================
