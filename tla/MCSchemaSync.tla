---------------------------- MODULE MCSchemaSync ----------------------------
(* Two families of definitions: versions of one model that is synced again  *)
(* and again.                                                              *)
EXTENDS SchemaSync, Definitions

Def(types, indexes) == [schema |-> types, legacyExternalSchema |-> FALSE,
                         includeCommonFields |-> FALSE, indexes |-> indexes]
Index(cols) == [form |-> "cols", cols |-> cols, fulltext |-> FALSE, unique |-> FALSE, where |-> "", ts |-> ""]

Uuid == << <<"id", TUuidKey>> >>

MCCatalogue ==
    [first  |-> Def(<< <<"name", TString>>, <<"owner", TLinked(FALSE)>>, <<"pets", THasMany>> >>,
                    [byName |-> Index(<<Entry("name")>>),
                     byOwner |-> [Index(<<Entry("owner")>>) EXCEPT !.where = "isDeleted = 0"]]),
     \* name becomes a text, an object expands into a column, more kinds of index
     wide   |-> [Def(<< <<"name", TText>>, <<"meta", TObject("expand", << <<"a", TInt>> >>, "")>> >>,
                    [byName |-> Index(<<Entry("name")>>),
                     search |-> Index(<<Entry("fulltext"), Entry("name")>>),
                     byMeta |-> Index(<<[Entry("meta") EXCEPT !.path = "$.a"]>>)])
                 EXCEPT !.includeCommonFields = TRUE],
     \* name becomes NOT NULL, rank is required from the start; owner is gone
     strict |-> Def(<< <<"name", With(TString, [null |-> "NO"])>>, <<"kind", Default(TEnum, "x")>>, <<"rank", With(TInt, [null |-> "NO"])>> >>,
                    [byName |-> [Index(<<Entry("name")>>) EXCEPT !.unique = TRUE],
                     raw |-> [Index(<<Entry("kind")>>) EXCEPT !.form = "raw"]]),
     keyed  |-> Def(Uuid \o << <<"ref", TUuid>>, <<"score", Nullable(TReal)>> >>, [byRef |-> Index(<<[Entry("ref") EXCEPT !.dir = "DESC"]>>)]),
     rekeyed |-> Def(Uuid \o << <<"ref", TUuid>>, <<"on", Nullable(TBool)>>, <<"list", TArray>>,
                                <<"score", With(TReal, [null |-> "NO"])>> >>,
                     [byRef |-> Index(<<Entry("ref")>>)])]
MCSchemas == [n \in DOMAIN MCCatalogue |-> ToSchema(MCCatalogue[n])]
ASSUME PlainCatalogue == PlainDefinitions
ASSUME SoundCatalogue == SoundDefinitions

\* Rows differ in their names alone.
Symmetry == Permutations(Row)

MCFamilies == {{"first", "wide", "strict"}, {"keyed", "rekeyed"}}
=============================================================================
