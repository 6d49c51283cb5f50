------------------------------ MODULE MCRecords ------------------------------
(* Instances of Records: two accounts with their contacts, as REST and as   *)
(* files give them; person accounts; masked, mapped and renamed fields; org *)
(* and file targets; both orders of the tasks.                              *)
EXTENDS Records

MCAll == Plain("all")
Objs == {"Account", "Contact"}
Key == Plain("Key")
AccountId == Plain("AccountId")
AccountKey == Via("Account", "Key")

MCRelationOf == ("AccountId" :> "Account") @@ ("Firm__c" :> "Firm__r")
MCParentOf == (<<"Contact", "Account">> :> "Account")
MCTargetFields ==
  ("Account" :> [fields |-> {"Key", "Name"}, relations |-> {}])
  @@ ("Firm__c" :> [fields |-> {"Code__c", "Title__c"}, relations |-> {}])
  @@ ("Contact" :> [fields |-> {"Key", "LastName", "AccountId", "Firm__c"}, relations |-> {"Account", "Firm__r"}])

Texts == {"", "true", "false", "1", "0", "a1", "a2", "a3", "c1", "c2", "c3", "k1", "k2", "k3", "n1", "n2", "n3",
          "Ann Lee", "Ann", "Lee", "Bob", "Acme", "Mask", "x1", "x2", "x3", " k1 ", "long", "lo"}
Anything == Texts \cup {Null, Yes, No}
MCCounted == <<"x1", "x2", "x3">>
MCCut == "long" :> "lo"
MCTrimmed == (" k1 " :> "k1") @@ [t \in Texts |-> t]
MCUnknown == <<"code", "k1">> :> 1
MCResult == <<"code", "k1">> :> "k2"
MCTargetIds == <<"t1", "t2", "t3", "t4", "t5", "t6", "t7", "t8", "t9", "t10", "t11", "t12", "t13", "t14">>
MCJoined == (<<"", "">> :> "") @@ (<<"Ann", "Lee">> :> "Ann Lee") @@ (<<"", "Lee">> :> "Lee") @@ (<<"Bob", "">> :> "Bob")
MCParts == ("" :> <<"", "">>) @@ ("Ann Lee" :> <<"Ann", "Lee">>) @@ ("Acme" :> <<"Acme", "">>) @@ ("Bob" :> <<"Bob", "">>)

Account(id, key, name, first, last, flag) ==
  Id :> id @@ Own :> id @@ Key :> key @@ Name :> name
  @@ FirstName :> first @@ LastName :> last @@ PersonFlag :> flag
Contact(id, key, last, account, accountKey, flag) ==
  Id :> id @@ Own :> id @@ Key :> key @@ LastName :> last @@ PersonFlag :> flag
  @@ AccountId :> account @@ AccountKey :> accountKey

On(a, c) == [o \in Objs |-> IF o = "Account" THEN a ELSE c]

Base ==
  [target |-> "org", persons |-> FALSE, people |-> {}, order |-> <<"Account", "Contact">>,
   operation |-> On("Upsert", "Upsert"), key |-> On(Key, Key),
   query |-> On(<<Id, Key, Name>>, <<Id, Key, LastName, AccountId>>),
   source |-> On(<<Account("a1", "k1", "Acme", Null, Null, No), Account("a2", "k2", "Bob", Null, Null, No)>>,
                 <<Contact("c1", "n1", "Lee", "a1", "k1", No), Contact("c2", "n2", "Bob", "a2", "k2", No)>>),
   mocks |-> On(<<>>, <<>>), valueRows |-> <<>>, truncate |-> FALSE, textual |-> On({}, {}),
   filter |-> FALSE, mayRefuse |-> FALSE, flat |-> FALSE, fullTarget |-> {}, existing |-> <<>>,
   excludeIds |-> FALSE, mapped |-> {}, mappingRows |-> <<>>, mappingEntries |-> On(<<>>, <<>>),
   anything |-> Anything]

Mock(f, fn) ==
  [name |-> f, fn |-> fn, value |-> "Mask", excluded |-> {}, included |-> Anything,
   excludedRow |-> FALSE, includedRow |-> FALSE, but |-> {}]

Orders == {<<"Account", "Contact">>, <<"Contact", "Account">>}

\* Filters that drop and reorder; rows that the org refuses; a row that is there already
Filtered ==
  {[Base EXCEPT !.filter = TRUE, !.order = order, !.source["Contact"] = <<Head(@)>>,
                !.existing = rs, !.fullTarget = full] :
     order \in Orders, full \in {{}, Objs},
     rs \in {<<>>, << [object |-> "Account", data |-> Id :> "t1" @@ Key :> "k2" @@ Name :> "Bob"] >>}}

\* Person accounts, with the flag as an org and as files give it
People(yes, no) ==
  On(<<Account("a1", "k1", "Ann Lee", Null, Null, yes), Account("a2", "k2", "Acme", Null, Null, no),
       Account("a3", "k3", "Bob", "Bob", Null, yes)>>,
     <<Contact("c1", "n1", "Bob", "a3", "k3", yes), Contact("c2", "n2", "Lee", "a1", "k1", yes),
       Contact("c3", "n3", "Acme", "a2", "k2", no)>>)
Flags == {<<Yes, No>>, <<"true", "false">>, <<"1", "0">>}
Persons ==
  {[Base EXCEPT !.persons = TRUE, !.people = {1, 3}, !.order = order, !.mayRefuse = TRUE,
                !.operation = On(op, "Upsert"), !.source = People(flag[1], flag[2]),
                !.query = On(<<Id, Key, Name, FirstName, LastName, PersonFlag>>,
                             <<Id, Key, LastName, AccountId, PersonFlag>>),
                !.mocks = On(mock, <<>>)] :
     order \in Orders, flag \in Flags, op \in {"Insert", "Upsert"},
     mock \in {<<>>, <<Mock(FirstName, "name"), Mock(LastName, "name"), Mock(Name, "name")>>}}

Firm(title) ==
  <<[field |-> "", target |-> "Firm__c"], [field |-> title, target |-> "Title__c"], [field |-> "Key", target |-> "Code__c"]>>

\* A renamed object with renamed fields, and a child whose key holds the parent's
Keys == {<<Path("LastName"), <<"Account", "Key">> >>, << <<"Account", "Key">>, Path("LastName")>>}
Renamed ==
  {[Base EXCEPT !.mapped = used, !.order = order, !.mayRefuse = TRUE,
                !.key = On(Key, key), !.fullTarget = {"Contact"},
                !.query = On(<<Key, Name>>, <<Id, LastName, AccountId, AccountKey>>),
                !.mappingRows = <<[object |-> "Account", field |-> "Key", target |-> "Code__c"],
                                  [object |-> "Contact", field |-> "AccountId", target |-> "Firm__c"]>>,
                !.mappingEntries = On(<<[field |-> "", target |-> "Firm__c"], [field |-> "Name", target |-> "Title__c"]>>, <<>>),
                !.mocks = On(mock, <<>>)] :
     order \in Orders, used \in {Objs}, key \in Keys, mock \in {<<>>, <<Mock(Name, "c_seq_number")>>}}

\* Both objects are written to one target object; their keys tell all records apart.
Merged ==
  {[Base EXCEPT !.mapped = Objs, !.order = order, !.mayRefuse = TRUE,
                !.query = On(<<Id, Key, Name>>, <<Id, Key, LastName>>),
                !.mappingEntries = On(Firm("Name"), Firm("LastName"))] : order \in Orders}

\* Files: as an org or files give the records; masked and cut values; mapped parent keys
Files ==
  {[Base EXCEPT !.target = "file", !.order = order, !.filter = TRUE, !.flat = flat, !.excludeIds = noIds,
                !.query = On(<<Id, Key, Name>>, <<Id, LastName, AccountId, AccountKey>>), !.key = On(Key, Plain("LastName")),
                !.mocks = On(mock, <<>>), !.truncate = TRUE, !.textual = On({Name}, {}),
                !.source["Account"][2] = Account("a2", "k2", "long", Null, Null, No),
                !.valueRows = IF flat THEN <<[object |-> "Contact", field |-> AccountKey, raw |-> "k1",
                                              pattern |-> FALSE, mapped |-> [code |-> code, value |-> IF code THEN "code" ELSE "k2"],
                                              replaced |-> <<>>]>> ELSE <<>>] :
     order \in Orders, flat \in BOOLEAN, noIds \in BOOLEAN, code \in BOOLEAN,
     mock \in {<<>>, <<Mock(Key, "c_seq_number")>>, <<Mock(Name, "ids"), Mock(Key, "name")>>}}

MCScripts == Filtered \cup Persons \cup Renamed \cup Merged \cup Files
=============================================================================
