----------------------------- MODULE MCRetrieval -----------------------------
(***************************************************************************)
(* Instances of Retrieval: three objects with two rows each, of which at   *)
(* most one second row is out of the scope of its query.  Both counts of A *)
(* may fail, one at a time.                                                *)
(***************************************************************************)
EXTENDS Retrieval, TLC

CONSTANTS A, B, C   \* the sObjects

MCRows == {A, B, C} \X {1, 2}
MCObjectOf == [r \in MCRows |-> r[1]]
MCInTarget == MCRows \ {<<C, 2>>}
MCTargetScope == MCInTarget \ {<<A, 2>>}

Query(o, where, limit) == [object |-> o, where |-> [i \in DOMAIN where |-> Condition(where[i], {})], limit |-> limit]
Plain == [o \in {A, B, C} |-> Query(o, <<"Filter">>, 0)]
Base == [tasks |-> <<A, B, C>>, queryTasks |-> <<A, B, C>>, lookups |-> {},
         inClause |-> {}, noInClause |-> {},
         master |-> {A}, special |-> {}, csv |-> {}, composite |-> {}, lookupKey |-> {}, autonumber |-> {}, byId |-> {},
         allTarget |-> {}, deleteOldData |-> {},
         operation |-> [o \in {A, B, C} |-> "Write"], fileTarget |-> FALSE,
         query |-> Plain, kept |-> MCRows, filters |-> {}, badFilters |-> {},
         threshold |-> [o \in {A, B, C} |-> 0], room |-> 1]

\* Details below the object read in full, also when they are queried in the wrong order
Details == [Base EXCEPT !.lookups = {<<B, A>>, <<C, B>>}]
DetailsBackwards == [Details EXCEPT !.queryTasks = <<A, C, B>>, !.room = 2]
Self == [Base EXCEPT !.lookups = {<<B, A>>, <<B, B>>}, !.composite = {A}]
FromCsv == [Base EXCEPT !.lookups = {<<B, A>>, <<B, B>>, <<C, B>>}, !.csv = {B}, !.filters = {B, C},
            !.kept = MCRows \ {<<B, 2>>, <<C, 1>>}]
BadFilter == [FromCsv EXCEPT !.lookups = {<<B, A>>}, !.badFilters = {B}, !.fileTarget = TRUE]
Excluded == [Base EXCEPT !.lookups = {<<B, A>>, <<C, A>>}, !.noInClause = {<<C, A>>},
             !.operation = (B :> "Delete" @@ C :> "DeleteHierarchy" @@ A :> "Insert"), !.deleteOldData = {A}]

\* Parents above it: C is read in full, A and B only as far as they are needed
Parents == [Base EXCEPT !.master = {C}, !.queryTasks = <<C, A, B>>, !.lookups = {<<B, A>>, <<C, B>>}]
Circle == [Parents EXCEPT !.lookups = {<<A, B>>, <<B, A>>, <<C, B>>}, !.autonumber = {C}, !.inClause = {<<B, A>>}]
Source == [Parents EXCEPT !.operation[A] = "DeleteSource", !.operation[B] = "DeleteHierarchy",
           !.allTarget = {B, C}, !.composite = {B}]
ById == [Parents EXCEPT !.byId = {A, B, C}, !.operation[B] = "DeleteHierarchy"]
Users == [Parents EXCEPT !.special = {A}, !.lookupKey = {B}, !.filters = {C}, !.kept = MCRows \ {<<C, 1>>}]

\* Limits, conditions on IsDeleted, and the full or the filtered target query by the count
Limited == [Details EXCEPT !.query = [Plain EXCEPT ![A] = Query(A, <<>>, 1), ![B] = Query(B, <<"Filter">>, 1)],
            !.threshold = [o \in {A, B, C} |-> 2]]
Deleted == [Parents EXCEPT !.query = [Plain EXCEPT ![A] = Query(A, <<"IsDeleted", "Filter">>, 0),
                                                   ![B] = Query(B, <<"Filter", "IsDeleted">>, 0),
                                                   ![C] = Query(C, <<>>, 1)],
            !.allTarget = {C}, !.threshold = [o \in {A, B, C} |-> 2]]
MCScenarios == {Details, DetailsBackwards, Self, FromCsv, BadFilter, Excluded, Parents, Circle, Source,
                ById, Users, Limited, Deleted}

FewOutOfScope == Cardinality(Rows \ scope) <= 1 /\ \A r \in Rows \ scope : r[2] = 2
FewFailures == Cardinality(failed') <= 1 /\ \A f \in failed' : f[1] = A
MCInit == Init /\ FewOutOfScope
MCSpec == MCInit /\ [][Next /\ FewFailures]_vars
=============================================================================
