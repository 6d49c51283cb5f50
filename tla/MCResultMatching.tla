-------------------------- MODULE MCResultMatching --------------------------
(***************************************************************************)
(* Instances of ResultMatching: records of two fields.                     *)
(***************************************************************************)
EXTENDS ResultMatching

A == 65
B == 66
a == 97

\* The same text; a blank, a zero and a one; a shifted character; a missing space;
\* "Aa" and "BB", which have one hash; and something else.
MCContents ==
  {<<Text(<<A, a>>), Blank>>, <<Text(<<A, a>>), Number(<<Zero>>)>>,
   <<Text(<<A, a>>), Number(<<Zero + 1>>)>>, <<Text(<<A>>), Text(<<a, Zero>>)>>,
   <<Text(<<A, Space, a>>), Blank>>, <<Text(<<B, B>>), Blank>>, <<Text(<<B>>), Blank>>}
=============================================================================
