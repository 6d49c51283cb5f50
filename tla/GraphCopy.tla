------------------------------ MODULE GraphCopy ------------------------------
(***************************************************************************)
(* What an SFDMU update job promises about the data, seen from outside:    *)
(* a graph of source records is copied into the target bit by bit.  A      *)
(* record that has a copy keeps it, a reference once carried over is never *)
(* lost again, and a reference is carried over only between copies.        *)
(***************************************************************************)
CONSTANTS
  Sources,     \* the source records
  Fields,      \* their lookup fields
  Ref          \* Ref[s][f]: the record lookup f of s points to

VARIABLES
  copied,      \* source records with a row in the target
  linked       \* <<record, field>> pairs whose reference was carried over

BetweenCopies(links, copies) ==
  \A e \in links : e[1] \in copies /\ Ref[e[1]][e[2]] \in copies

CopyInit ==
  /\ copied \subseteq Sources
  /\ linked \subseteq Sources \X Fields
  /\ BetweenCopies(linked, copied)

\* Rows appear, references are completed, never the reverse.
Grow ==
  /\ copied \subseteq copied' /\ copied' \subseteq Sources
  /\ linked \subseteq linked' /\ linked' \subseteq Sources \X Fields
  /\ BetweenCopies(linked', copied')

CopySpec == CopyInit /\ [][Grow]_<<copied, linked>>
=============================================================================
