----------------------------- MODULE MCTaskPlan -----------------------------
(***************************************************************************)
(* Families of scripts for TaskPlan.  Master-detail relations follow a     *)
(* fixed total order of the objects (Salesforce has no circle of them),    *)
(* while the script lists the objects in any order; other lookups may be   *)
(* circular.                                                               *)
(***************************************************************************)
EXTENDS TaskPlan

CONSTANTS o1, o2, o3, o4

Level == [o \in Objects |-> CASE o = o1 -> 1 [] o = o2 -> 2 [] o = o3 -> 3 [] o = o4 -> 4]
Listings == SetToSeqs(Objects)
Below == {e \in Objects \X Objects : Level[e[1]] > Level[e[2]]}
Others == {e \in Objects \X Objects : e[1] # e[2]}
Script(objects, kind, lookups, masters, main, limited, keep) ==
  [objects |-> objects, kind |-> kind, lookups |-> lookups \cup masters, masters |-> masters,
   main |-> main, limited |-> limited, keepOrder |-> keep]
AllWrite == [o \in Objects |-> "Write"]

\* Every acyclic master-detail graph, every listing, and a circle of lookups back.
MasterScripts ==
  {Script(l, k, {<<o1, o4>>}, ms, {}, {}, FALSE) :
     l \in Listings, ms \in SUBSET Below,
     k \in {[o \in Objects |-> "Replace"],
            [o \in Objects |-> CASE o = o3 -> "DeleteHierarchy" [] OTHER -> "Replace"]}}

\* Every graph of lookups between three objects (o4 is the RecordType object), of
\* which one may be readonly.
LookupScripts ==
  {Script(l, [o \in Objects |-> CASE o = o4 -> "RecordType" [] o = o3 -> k3 [] OTHER -> "Write"],
          ls, {}, {}, {}, FALSE) :
     l \in Listings, ls \in SUBSET {e \in Others : o4 \notin {e[1], e[2]}},
     k3 \in {"Write", "Readonly", "Delete"}}

\* Objects processed in full or not, with o4 in the place of AccountContactRelation.
QueryScripts ==
  {Script(l, AllWrite, {<<o3, o2>>, <<o2, o1>>}, {}, ma, li, keep) :
     l \in Listings, ma \in SUBSET Objects, li \in {{}, {o1, o2}}, keep \in BOOLEAN}
BeforeOthers == {<<o4, o1>>, <<o4, o2>>}

MCScripts == MasterScripts \cup LookupScripts \cup QueryScripts

\* Special pairs that contradict no master-detail relation: o1 is never a detail, o4
\* never a master.
UpdatePair == {<<o1, o2>>}
DeletePair == {<<o4, o1>>}
=============================================================================
