----------------------------- MODULE MCJobSetup -----------------------------
(***************************************************************************)
(* Two orgs and families of scripts for JobSetup.  Accounts are owned and  *)
(* can be deleted; Junction has no name, a lookup to Account and one to    *)
(* Hidden, which the target lacks; Case has a lookup to Junction,          *)
(* polymorphic ones, one that is not but may refer to users (Of), and a    *)
(* field the target lacks; Log cannot be written.                          *)
(***************************************************************************)
EXTENDS JobSetup

Plain == [to |-> <<>>, writable |-> TRUE]
ReadOnly == [to |-> <<>>, writable |-> FALSE]
Ref(to) == [to |-> to, writable |-> TRUE]
Desc(crud, name, fields) == [crud |-> crud, nameField |-> name, fields |-> fields]
CRUD == {"create", "update", "delete"}

Account == [Id |-> ReadOnly, Name |-> Plain, OwnerId |-> Ref(<<"Group", "User">>)]
Junction == [Id |-> ReadOnly, Text__c |-> Plain, Account__c |-> Ref(<<"Account">>), Hidden__c |-> Ref(<<"Hidden">>)]
Case == [Id |-> ReadOnly, Name |-> Plain, Junction__c |-> Ref(<<"Junction">>), Of |-> Ref(<<"Log", "User">>),
         What |-> Ref(<<"Account", "Log">>), Who |-> Ref(<<"User", "Group">>)]
CaseInSource == Case @@ [Extra__c |-> Plain]
Log == [Id |-> ReadOnly, Name |-> ReadOnly]

MCOrg ==
  [source |-> [Account |-> Desc(CRUD, "Name", Account), Junction |-> Desc(CRUD, "Id", Junction),
               Hidden |-> Desc(CRUD, "Name", Log), Case |-> Desc(CRUD, "Name", CaseInSource),
               Log |-> Desc(CRUD, "Name", Log), User |-> Desc(CRUD, "Name", Log),
               Group |-> Desc({}, "Name", Log)],
   target |-> [Account |-> Desc(CRUD, "Name", Account), Junction |-> Desc({"create"}, "Id", Junction),
               Case |-> Desc({"create", "update"}, "Name", Case), Log |-> Desc(CRUD, "Name", Log),
               User |-> Desc(CRUD, "Name", Log), Group |-> Desc({}, "Name", Log)]]
MCPolymorphic == {<<"Case", "What">>, <<"Case", "Who">>}

Entry(name, operation, fields) ==
  [name |-> name, operation |-> operation, fields |-> fields \cup {"Id"}, hasQuery |-> TRUE,
   excluded |-> FALSE, all |-> FALSE, deleteOldData |-> FALSE, externalId |-> None, declared |-> <<>>,
   excludedFields |-> {}, notUpdated |-> {}]
All(e) == [e EXCEPT !.all = TRUE]
Replacing(e) == [e EXCEPT !.deleteOldData = TRUE]
Declaring(e, d) == [e EXCEPT !.declared = d, !.fields = @ \cup DOMAIN d]
KeyedBy(e, id) == [e EXCEPT !.externalId = id]
Without(e, fs, updates) == [e EXCEPT !.excludedFields = fs, !.notUpdated = updates]
Opt(e) == {e, [e EXCEPT !.excluded = TRUE]}

Script(objs, sets, excluded, source, target) ==
  [objects |-> objs, sets |-> sets, excludedObjects |-> excluded, sourceIsFile |-> source, targetIsFile |-> target]

\* Every operation, with and without old data deleted, on objects that allow it or not,
\* into an org or a file, from an org or a file.
OperationScripts ==
  {Script(<<IF old THEN Replacing(Entry(n, op, {"Name"})) ELSE Entry(n, op, {"Name"})>>, <<>>, {}, m[1], m[2]) :
     n \in {"Account", "Case", "Log"}, op \in Operations \cup {None}, old \in BOOLEAN,
     m \in {<<FALSE, FALSE>>, <<TRUE, FALSE>>, <<FALSE, TRUE>>}}
  \cup {Script(<<All(Entry("Junction", op, {})), Entry("User", "Upsert", {})>>, <<>>, {}, FALSE, FALSE) :
          op \in Operations}

\* Chains of lookups of which some objects are excluded, missing or left with their Id.
ChainScripts ==
  {Script(<<>>, <<<<KeyedBy(Entry("Case", op, fs), id), junction>>>>, ex, FALSE, FALSE) :
     op \in {"Insert", "Upsert"}, fs \in {{"Junction__c", "Extra__c"}, {"Name", "Junction__c", "Who"}},
     id \in {None, "Junction__c", "Extra__c"},
     junction \in Opt(Entry("Junction", "Insert", {"Hidden__c"}))
            \cup Opt(Entry("Junction", "Insert", {"Hidden__c", "Account__c"})),
     ex \in {{}, {"Account"}}}

\* Fields excluded from queries or updates: the key, and lookups, of a parent as well.
ExcludingScripts ==
  {Script(<<>>, <<<<Without(Entry("Case", "Upsert", {"Name", "Junction__c"}), fs, {"Junction__c"}),
                    Without([KeyedBy(Entry("Junction", "Insert", {"Account__c"}), id) EXCEPT !.all = all], {key}, {"Account__c"})>>>>, {}, FALSE, FALSE) :
     fs \in {{}, {"Name"}}, all \in BOOLEAN, id \in {None, "Account__c"}, key \in {"Account__c", "Hidden__c"}}

\* Excluded Ids and keys, of a parent that is itself keyed by a lookup; a lookup that is
\* not polymorphic but may refer to users, who are excluded or join the set again.
CornerScripts ==
  {Script(<<>>, <<<<Entry("Case", "Upsert", {"Name", "Junction__c"}),
                    Without(KeyedBy(Entry("Junction", "Upsert", {"Text__c"}), "Account__c"), {"Account__c"}, {}),
                    Without(Entry("Account", "Upsert", {"OwnerId"}), fs, {})>>>>, {}, FALSE, FALSE) :
     fs \in {{"Name"}, {"Name", "Id"}}}
  \cup {Script(<<Entry("Case", "Upsert", {"Name", "Of", "Who"}), user>>, <<>>, {}, FALSE, file) :
          user \in Opt(Without(Entry("User", "Readonly", {}), {"Name", "Id"}, {})), file \in BOOLEAN}

\* A set before, between and after others.
Sets == {<<Entry("Case", "Upsert", {"What"})>>, <<All(Entry("Case", "Insert", {})), Entry("Account", "Readonly", {})>>,
         <<Declaring(Entry("Case", "Upsert", {}), [What |-> "Log"])>>,
         <<Declaring(Entry("Case", "Upsert", {}), [Who |-> "Group"]), [Entry("User", None, {}) EXCEPT !.excluded = TRUE]>>,
         <<Declaring(Entry("Case", "Upsert", {}), [Junction__c |-> "Account"]),
           [Entry("Log", "Insert", {}) EXCEPT !.hasQuery = FALSE]>>}
SharingScripts == {Script(s1, <<s2, s1>>, {}, FALSE, FALSE) : s1 \in Sets, s2 \in Sets}

MCScripts == OperationScripts \cup ChainScripts \cup ExcludingScripts \cup CornerScripts \cup SharingScripts
=============================================================================
