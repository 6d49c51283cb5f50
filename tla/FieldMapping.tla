---------------------------- MODULE FieldMapping ----------------------------
(***************************************************************************)
(* Names of source fields and what they are called in the target: the      *)
(* mapping of an object (MappingResolver, ObjectMapping, FieldMapping and  *)
(* ScriptObject._getObjectMapping), the target query written with it       *)
(* (ScriptObject.targetQuery) and the target names computed for the        *)
(* fields of a query (MigrationJob._precomputeMappedFieldNames).           *)
(*                                                                         *)
(* A path is the sequence of its segments, <<"Account", "Key">> for        *)
(* Account.Key.  A name is a sequence of paths: of one path as a rule, of  *)
(* several for the complex names built from a compound external id.        *)
(* Polymorphic names (field$Object) are left out.                          *)
(***************************************************************************)
EXTENDS Naturals, Sequences, TLC, SequencesExt

CONSTANTS
  RelationOf,   \* what naming makes of a lookup field: its relationship, both orgs
  ParentOf,     \* <<object, relationship>> -> object: the lookups between the objects
  TargetFields  \* target object -> the fields its describe lists

Path(f) == <<f>>
Plain(f) == <<Path(f)>>
Via(r, f) == << <<r, f>> >>
Lookup(map, key, default) == IF key \in DOMAIN map THEN map[key] ELSE default

\* Common.getFieldName__r and getFieldNameId
RelationName(f) == Lookup(RelationOf, f, f)
IdName(r) ==
  IF \E f \in DOMAIN RelationOf : RelationOf[f] = r
  THEN CHOOSE f \in DOMAIN RelationOf : RelationOf[f] = r ELSE r

Distinct(s) == FoldLeft(LAMBDA seen, x : IF x \in ToSet(seen) THEN seen ELSE Append(seen, x), <<>>, s)

-----------------------------------------------------------------------------
\* The mapping of an object

Unmapped(o) == [object |-> o, toTarget |-> <<>>]

AddMapping(mapping, from, to) == [mapping EXCEPT !.toTarget = (from :> to) @@ @]

\* An entry without a source field renames the object.  A lookup field takes its
\* relationship along.
AddEntry(mapping, e) ==
  IF e.field = "" THEN [mapping EXCEPT !.object = e.target]
  ELSE LET own == AddMapping(mapping, e.field, e.target)
       IN IF RelationName(e.field) = e.field THEN own
          ELSE AddMapping(own, RelationName(e.field), RelationName(e.target))

BuildMapping(o, entries) == FoldLeft(AddEntry, Unmapped(o), entries)

\* The rows of FieldMapping.csv come before the entries of the script, which win.
Entries(o, rows, script) ==
  [i \in DOMAIN SelectSeq(rows, LAMBDA r : r.object = o) |->
     LET r == SelectSeq(rows, LAMBDA q : q.object = o)[i]
     IN [field |-> r.field, target |-> r.target]]
  \o script

\* The objects that use field mapping, with their mappings: sourceTargetFieldMapping.
Mappings(used, rows, script) ==
  [o \in used |-> BuildMapping(o, Entries(o, rows, script[o]))]

TargetObject(maps, o) == IF o \in DOMAIN maps THEN maps[o].object ELSE o

-----------------------------------------------------------------------------
\* Names

MapField(maps, o, f) == IF o \in DOMAIN maps THEN Lookup(maps[o].toTarget, f, f) ELSE f
MapRelation(maps, o, r) ==
  IF o \in DOMAIN maps THEN RelationName(MapField(maps, o, IdName(r))) ELSE r

\* Mutant: every segment is taken for one of the object the name started from.
MapPath_OwnObject(maps, o, path) ==
  [i \in DOMAIN path |-> IF i = Len(path) THEN MapField(maps, o, path[i]) ELSE MapRelation(maps, o, path[i])]
\* The last segment is a field of the object the relationships before it lead to; one that
\* leads to no object of the set leaves the object the name started from.
MapPath(maps, o, path) ==
  LET step(walk, i) ==
        [object |-> Lookup(ParentOf, <<walk.object, path[i]>>, o),
         names  |-> Append(walk.names, IF i = Len(path) THEN MapField(maps, walk.object, path[i])
                                                        ELSE MapRelation(maps, walk.object, path[i]))]
  IN FoldLeft(step, [object |-> o, names |-> <<>>], [i \in DOMAIN path |-> i]).names

\* In a complex name that begins with a field of a parent and goes on with plain names, the
\* plain names are taken for fields of that parent as well.
Prefixed(name) ==
  IF Len(name) > 1 /\ Len(name[1]) > 1 /\ \A i \in 2..Len(name) : Len(name[i]) = 1
  THEN [i \in DOMAIN name |-> IF i = 1 THEN name[1] ELSE Front(name[1]) \o name[i]]
  ELSE name
\* The parts of such a name are put together behind their relationship.
IsOfOneParent(name) ==
  Len(name) > 1 /\ Len(name[1]) > 1 /\ \A i \in DOMAIN name : Len(name[i]) > 1 /\ Front(name[i]) = Front(name[1])

\* ScriptObject.mapFieldNameToTarget
MapName(maps, o, name) ==
  IF o \in DOMAIN maps THEN [i \in DOMAIN name |-> MapPath(maps, o, Prefixed(name)[i])] ELSE name

\* A relationship the target object does not have, whose lookup field it does have as a
\* field of another type, is asked for as that field.
Normalised(maps, o, path) ==
  LET target == TargetObject(maps, o)
  IN IF /\ Len(path) > 1
        /\ IdName(path[1]) # path[1]
        /\ path[1] \notin TargetFields[target].relations
        /\ IdName(path[1]) \in TargetFields[target].fields
     THEN Path(IdName(path[1])) ELSE path
NormalisedName(maps, o, name) ==
  IF o \in DOMAIN maps THEN Distinct([i \in DOMAIN name |-> Normalised(maps, o, name[i])]) ELSE name

-----------------------------------------------------------------------------
\* The target query

WithId(names) == IF Plain("Id") \in ToSet(names) THEN names ELSE Append(names, Plain("Id"))

\* A complex name is asked for by its parts.
Expanded(names) == Distinct(FlattenSeq([i \in DOMAIN names |-> [j \in DOMAIN names[i] |-> <<names[i][j]>>]]))

TargetNames(maps, o, names) ==
  Expanded(WithId(Distinct([i \in DOMAIN names |-> NormalisedName(maps, o, MapName(maps, o, names[i]))])))

\* The target name of a field is what stands at its place in the target query.
TargetName(maps, o, names, name) ==
  LET target == TargetNames(maps, o, names)
      places == {i \in DOMAIN names : names[i] = name /\ i <= Len(target)}
  IN IF places = {} THEN name ELSE target[CHOOSE i \in places : \A j \in places : j <= i]

-----------------------------------------------------------------------------
\* Records: functions from names to values

\* MigrationJobTask._mapRecordsToTarget.  Two columns that end in one name: the mapping of
\* the instances is one to one.
MapRecord(maps, o, kept, r) ==
  LET named(c) == IF c \in kept THEN c ELSE MapName(maps, o, c)
  IN [n \in {named(c) : c \in DOMAIN r} |-> r[CHOOSE c \in DOMAIN r : named(c) = n]]

=============================================================================
