---------------------------- MODULE Definitions ----------------------------
(***************************************************************************)
(* lib/def-to-schema.js: how a model definition written with the types t.* *)
(* becomes the list of field rows that schema sync, the row writes and the *)
(* model classes work from.                                                *)
(*                                                                         *)
(* A JavaScript value is a string here: "" is undefined, "#0" and "#1" are *)
(* the numbers, anything else is the string itself.  A type is a record of *)
(* the attributes that reach the database; a macro (object, array) is a    *)
(* function in the code and a record of what that function closes over     *)
(* here.  Attributes only documentation or type generation reads           *)
(* (_description, _maxLength, nativeType, ...) are left out.               *)
(***************************************************************************)
EXTENDS Naturals, Sequences, SequencesExt

CONSTANTS UuidLinkedIds,  \* config.uuidLinkedIds
          LinkCollation   \* config.linkColumnCollation resolved: "" when off

ASSUME ConfigAssumption == UuidLinkedIds \in BOOLEAN /\ LinkCollation \in STRING

-----------------------------------------------------------------------------
(* The types                                                               *)

NoAttributes == [type |-> "", null |-> "", default |-> "", own |-> "", key |-> "",
                 extra |-> "", auto |-> "", collation |-> "", isObject |-> FALSE]

\* createChainableType: `own` is __defaultValue, which is set from the first
\* default the type is built with and which every later copy of it carries.
Chainable(base) ==
    [base EXCEPT !.own = IF @ = "" THEN base.default ELSE @] @@ [of |-> "type"]

\* A chain method or a call with options builds a new type from the data of the
\* old one (getChainableTypeData) and the overriding attributes.
With(t, attrs) == Chainable(attrs @@ [a \in DOMAIN NoAttributes |-> t[a]])

Default(t, v) == IF t.of = "type"
                 THEN With(t, [default |-> v, own |-> v, null |-> "#0"])
                 ELSE [t EXCEPT !.meta = [default |-> v] @@ @]
Nullable(t)   == IF t.of = "type" THEN With(t, [null |-> "#1"])
                 ELSE [t EXCEPT !.meta = [null |-> "#1"] @@ @]

Plain(type) == Chainable([NoAttributes EXCEPT !.type = type])

\* resolveLinkColumnCollation
CollationFor(type) == IF type = "char(36)" THEN LinkCollation ELSE ""

TString   == Plain("varchar")
TText     == Plain("longtext")
TInt      == Plain("integer")
TReal     == Plain("double")
TBigint   == Plain("bigint")
TIdKey    == Plain("idKey")
TUuidKey  == Plain("uuidKey")
TEnum     == Plain("varchar")
TUuid     == With(Plain("char(36)"), [collation |-> CollationFor("char(36)")])
TBool     == Chainable([NoAttributes EXCEPT !.type = "int(1)", !.null = "#0", !.default = "#0"])
TMoment(type, defaultValue) ==   \* date, datetime and time, with their options handler
    IF defaultValue = "" THEN Plain(type) ELSE Default(Plain(type), defaultValue)

TLinked(array) ==
    LET type == IF array THEN "longtext" ELSE IF UuidLinkedIds THEN "char(36)" ELSE "int"
    IN  With(Plain(type), [collation |-> CollationFor(type)])

THasMany == [of |-> "client only"]

\* object: `format` is "none", "direct" (t.object({a: t.int})) or "expand"
\* (t.object({expand: {a: t.int}})); `noExpand` the explicit option or "".
TObject(format, subfields, noExpand) ==
    [of |-> "macro", subfields |-> subfields, meta |-> <<>>,
     expands |-> (IF noExpand = "" THEN format = "expand" ELSE noExpand = "false")]

\* array(itemType): the object macro with no options; what it knows of its items
\* (arrayItemType, arrayItemSchema) never reaches the database.
TArray == TObject("none", <<>>, "")

-----------------------------------------------------------------------------
(* Expansion                                                               *)

\* stripChainableMethods: __defaultValue wins over whatever `default` says now.
Stripped(t) == [a \in DOMAIN NoAttributes \ {"own"} |-> IF a = "default" THEN t.own ELSE t[a]]

FieldRow(value, field) == value @@ [field |-> field]

Joined(field, key) == field \o "_" \o key

\* expandType: the value of a field and the rows it pushes on the shared field
\* list.  The sub-fields of an object are expanded whether or not they become
\* columns, so an expanding object inside a direct one still pushes its own.
RECURSIVE ExpandType(_, _)
ExpandType(t, field) ==
    CASE t.of = "client only" -> [value |-> t, pushed |-> <<>>]
      [] t.of = "type"        -> [value |-> Stripped(t), pushed |-> <<>>]
      [] t.of = "macro" ->
            LET subs == [i \in 1..Len(t.subfields) |->
                            LET fq == Joined(field, t.subfields[i][1])
                                e  == ExpandType(t.subfields[i][2], fq)
                            IN  [row |-> FieldRow(e.value, fq), pushed |-> e.pushed]]
                base == [Stripped(Plain("longtext")) EXCEPT !.isObject = TRUE]
            IN  [value  |-> t.meta @@ base,
                 pushed |-> FlattenSeq([i \in 1..Len(subs) |-> subs[i].pushed])
                            \o (IF t.expands THEN [i \in 1..Len(subs) |-> subs[i].row]
                                             ELSE <<>>)]

\* config.commonFields of the default configuration.
CommonFields == << <<"isDeleted", TBool>>, <<"nonce", TString>>,
                   <<"createdAt", TMoment("datetime", "")>>,
                   <<"updatedAt", TMoment("datetime", "")>> >>

\* Object.assign over ordered objects: a key that is there keeps its place and
\* takes the new value.
Merged(s, t) ==
    LET names(u) == {u[i][1] : i \in 1..Len(u)}
        at(u, n) == u[CHOOSE i \in 1..Len(u) : u[i][1] = n]
    IN  [i \in 1..Len(s) |-> IF s[i][1] \in names(t) THEN at(t, s[i][1]) ELSE s[i]]
        \o SelectSeq(t, LAMBDA p : p[1] \notin names(s))

\* toSchema: the ordered field rows of a definition.
\*   definition: [schema: sequence of <<name, type>>, legacyExternalSchema,
\*                includeCommonFields, indexes]
ToSchema(definition) ==
    LET own    == IF definition.legacyExternalSchema THEN definition.schema
                  ELSE Merged(definition.schema, << <<"isDeleted", TBool>> >>)
        schema == IF definition.includeCommonFields THEN Merged(own, CommonFields) ELSE own
        rows(i) == LET e == ExpandType(schema[i][2], schema[i][1])
                   IN  e.pushed \o (IF schema[i][2].of = "client only" THEN <<>>
                                    ELSE << FieldRow(e.value, schema[i][1]) >>)
    IN  [fields  |-> FlattenSeq([i \in 1..Len(schema) |-> rows(i)]),
         indexes |-> definition.indexes, legacyExternalSchema |-> definition.legacyExternalSchema]
=============================================================================
