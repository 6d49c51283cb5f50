------------------------- MODULE MigrationRefinement -------------------------
(***************************************************************************)
(* A job of Upsert, Update and Readonly objects with unique external ids   *)
(* and without deletions implements GraphCopy, over all its starts: the    *)
(* copy of a source record is the target row with its external id.         *)
(***************************************************************************)
EXTENDS MigrationUpdate

CopyOf(s) == {t \in live : org[t].key = KeyOf[s]}
Copied == {s \in Sources : CopyOf(s) # {}}
Linked ==
  {e \in Sources \X Fields :
     /\ Ref[e[1]][e[2]] \in Sources
     /\ \E t \in CopyOf(e[1]) : org[t].look[e[2]] \in CopyOf(Ref[e[1]][e[2]])}

Copy == INSTANCE GraphCopy WITH copied <- Copied, linked <- Linked

\* Such a job: nothing is inserted blindly and nothing is deleted.
OnlyCopies ==
  /\ \A o \in Objects : Op[o] \in {"Upsert", "Update", "Readonly"}
  /\ DeleteOldData = {}
  /\ \A s, d \in Sources : KeyOf[s] = KeyOf[d] => s = d

\* Such a job finds nothing to do again: at first no two rows have one external id, and
\* what the target filter keeps for the forward pass it keeps for the others.
OnlyOnce ==
  /\ OnlyCopies
  /\ \A initial \in InitialOrg : \A t, u \in initial.live :
       initial.org[t].key = initial.org[u].key => t = u
  /\ Keeps["forwards"] \subseteq Keeps["backwards"]

\* The data part of the job implements the abstract graph copy: interrupted calls,
\* rejected rows and restarts never lose a row or a reference already carried over.
CopiesGraph == Copy!CopySpec
=============================================================================
