------------------------------ MODULE Wildcard ------------------------------
(***************************************************************************)
(* MatchWildcard (matchers.go) on strings.                                 *)
(***************************************************************************)

EXTENDS Naturals, Sequences

CONSTANT Star  \* the string "*", a single character

HasPrefix(s, p) == Len(p) <= Len(s) /\ SubSeq(s, 1, Len(p)) = p
HasSuffix(s, p) == Len(p) <= Len(s) /\ SubSeq(s, Len(s) - Len(p) + 1, Len(s)) = p
HasInside(s, p) == \E i \in 1 .. Len(s) + 1 : HasPrefix(SubSeq(s, i, Len(s)), p)

Front(pattern) == HasPrefix(pattern, Star)
Back(pattern)  == HasSuffix(pattern, Star)

\* MatchWildcard; AccessPolicy has it as a constant of that name.
StarMatches(pattern, value) ==
    LET n == Len(pattern)
    IN  \/ pattern = Star
        \/ Front(pattern) /\ Back(pattern) /\ HasInside(value, SubSeq(pattern, 2, n - 1))
        \/ Front(pattern) /\ ~Back(pattern) /\ HasSuffix(value, SubSeq(pattern, 2, n))
        \/ ~Front(pattern) /\ Back(pattern) /\ HasPrefix(value, SubSeq(pattern, 1, n - 1))
        \/ ~Front(pattern) /\ ~Back(pattern) /\ pattern = value

-----------------------------------------------------------------------------
(* What it means: a star that begins or ends a pattern stands for any text  *)

Empty(s) == SubSeq(s, 1, 0)

\* The texts in s, the empty one among them.
Texts(s) == {SubSeq(s, i, j) : i \in 1 .. Len(s) + 1, j \in 0 .. Len(s)}

\* A star that is all of the pattern begins it.
Ends(pattern) == Back(pattern) /\ pattern # Star

\* The pattern without its stars.
Core(pattern) ==
    SubSeq(pattern, IF Front(pattern) THEN 2 ELSE 1, Len(pattern) - (IF Ends(pattern) THEN 1 ELSE 0))

StarMeans(pattern, value) ==
    \E x \in (IF Front(pattern) THEN Texts(value) ELSE {Empty(value)}),
       y \in (IF Ends(pattern) THEN Texts(value) ELSE {Empty(value)}) :
      value = x \o Core(pattern) \o y

=============================================================================
