---------------------------------- MODULE Format ----------------------------------
(***************************************************************************)
(* tangbase::format (src/util/format.hpp).  A format string is a sequence of    *)
(* characters; an argument is the text that write_arg makes of it, which   *)
(* goes to the output as one character and is not looked at again.         *)
(***************************************************************************)
EXTENDS Text

\* What format returns, or the exception it throws.
Formatted(out) == [out |-> out, thrown |-> FALSE]
FormatError == [out |-> <<>>, thrown |-> TRUE]
Ahead(c, result) == IF result.thrown THEN result ELSE Formatted(<<c>> \o result.out)

--------------------------------------------------------------------------------
(* Mutants: the definitions below as a plausible slip would write them.  No *)
(* definition uses them; PROJECT.json says which property rejects which.    *)

\* A count that is off by one: the placeholder behind the last argument is empty.
FormatOneMore(fmt, args) ==
  LET rest[i \in 1 .. Len(fmt) + 2, n \in 0 .. Len(fmt)] ==
        IF i > Len(fmt) THEN Formatted(<<>>)
        ELSE IF fmt[i] \in {"{", "}"} /\ At(fmt, i + 1) = fmt[i] THEN Ahead(fmt[i], rest[i + 2, n])
        ELSE IF fmt[i] = "{" THEN
          IF find(fmt, <<"}">>, i) # i + 1 \/ n > Len(args) THEN FormatError
          ELSE IF n = Len(args) THEN rest[i + 2, n + 1]
          ELSE Ahead(args[n + 1], rest[i + 2, n + 1])
        ELSE IF fmt[i] = "}" THEN FormatError
        ELSE Ahead(fmt[i], rest[i + 1, n])
  IN rest[1, 0]
--------------------------------------------------------------------------------
\* format_impl: the loop, from position i on with n placeholders behind it.  A brace
\* is first looked at together with its right neighbour; a placeholder is empty, and
\* takes the next argument.
Format(fmt, args) ==
  LET rest[i \in 1 .. Len(fmt) + 2, n \in 0 .. Len(fmt)] ==
        IF i > Len(fmt) THEN Formatted(<<>>)
        ELSE IF fmt[i] \in {"{", "}"} /\ At(fmt, i + 1) = fmt[i] THEN Ahead(fmt[i], rest[i + 2, n])
        ELSE IF fmt[i] = "{" THEN
          IF find(fmt, <<"}">>, i) # i + 1 \/ n >= Len(args) THEN FormatError
          ELSE Ahead(args[n + 1], rest[i + 2, n + 1])
        ELSE IF fmt[i] = "}" THEN FormatError
        ELSE Ahead(fmt[i], rest[i + 1, n])
  IN rest[1, 0]
--------------------------------------------------------------------------------
(* Properties *)

\* What a format string is made of.
Tokens == {<<"{", "{">>, <<"}", "}">>, <<"{", "}">>, <<"a">>}

\* Its output: the braces, the arguments in their order, and the rest as it is.
Meaning(tokens, args) ==
  [k \in DOMAIN tokens |->
    IF tokens[k] = <<"{", "}">>
    THEN args[Cardinality({j \in 1 .. k : tokens[j] = <<"{", "}">>})]
    ELSE tokens[k][1]]

\* A format string that consists of tokens, doubled braces and placeholders in any
\* neighbourhood, gives its output when it has no more placeholders than arguments;
\* one of no tokens, or with too few arguments, throws.
FormatRead(n, args) ==
  LET wellFormed == {<<tokens, FlattenSeq(tokens)>> : tokens \in TextsOver(Tokens, n)}
      slots(tokens) == Cardinality({j \in DOMAIN tokens : tokens[j] = <<"{", "}">>})
  IN /\ \A w \in wellFormed :
          Format(w[2], args) = IF slots(w[1]) <= Len(args) THEN Formatted(Meaning(w[1], args))
                               ELSE FormatError
     /\ \A s \in TextsOver({"{", "}", "a"}, n) \ {w[2] : w \in wellFormed} :
          Format(s, args) = FormatError
================================================================================
