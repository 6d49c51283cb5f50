----------------------------- MODULE Subsequences -----------------------------
(***************************************************************************)
(* The elements of a sequence that belong to a set.  SelectSeq takes a     *)
(* test instead of the set, which nothing can be proved about here.        *)
(***************************************************************************)
EXTENDS Integers, Sequences

\* The elements of s that are in S, in the order of s.
Picked(s, S) ==
  LET picked[n \in 0..Len(s)] ==
        IF n = 0 THEN <<>>
        ELSE IF s[n] \in S THEN Append(picked[n - 1], s[n]) ELSE picked[n - 1]
  IN  picked[Len(s)]
=============================================================================
