-------------------------- MODULE SchemaContracts --------------------------
(***************************************************************************)
(* validate_schema_contract (app/schema_contracts.py): the subset of JSON  *)
(* Schema that Curator enforces on the inputs and outputs of skills.       *)
(*                                                                         *)
(* A value is a record with its Python type and its content: "val" of a    *)
(* bool, an int or a float (in hundredths; True is 1), "text" and "len" of a   *)
(* str, with "val" if float() reads it, "items" of a list, "props" of a    *)
(* dict.  A schema is the record of the keywords it has, as its dict is; a *)
(* set stands for a list of keys or of enum values.                        *)
(***************************************************************************)
EXTENDS Integers, Sequences

CONSTANTS
    Values,     \* the values of interest, with all their parts
    Schemas     \* the schemas of interest, with all their parts

Keywords ==
    {"type", "enum", "required", "properties", "additionalProperties", "items", "minItems",
     "maxItems", "minLength", "maxLength", "minimum", "maximum", "exclusiveMinimum",
     "exclusiveMaximum"}

\* Values have Python's types, schemas the keywords and types that are supported,
\* and the parts of both are among them.
ASSUME SchemaAssumption ==
    /\ \A v \in Values :
          /\ v.type \in {"dict", "list", "str", "int", "float", "bool", "NoneType"}
          /\ v.type = "dict" => \A k \in DOMAIN v.props : v.props[k] \in Values
          /\ v.type = "list" => \A i \in DOMAIN v.items : v.items[i] \in Values
    /\ \A s \in Schemas :
          /\ DOMAIN s \subseteq Keywords
          /\ "type" \in DOMAIN s =>
                s.type \in {"object", "array", "string", "number", "integer", "boolean", "null"}
          /\ "properties" \in DOMAIN s =>
                \A k \in DOMAIN s.properties : s.properties[k] \in Schemas
          /\ "items" \in DOMAIN s => s.items \in Schemas

Has(schema, keyword) == keyword \in DOMAIN schema

Numeric(v) == v.type \in {"int", "float"}

\* _TYPE_CHECKS
TypeCheck(v, name) ==
    CASE name = "object" -> v.type = "dict"
      [] name = "array" -> v.type = "list"
      [] name = "string" -> v.type = "str"
      [] name = "number" -> Numeric(v)
      [] name = "integer" -> v.type = "int"
      [] name = "boolean" -> v.type = "bool"
      [] name = "null" -> v.type = "NoneType"

\* Python's == on the scalars of an enum: True is 1 and 1.0 is 1.
PyEqual(v, w) ==
    IF {v.type, w.type} \subseteq {"bool", "int", "float"} THEN v.val = w.val ELSE v = w

\* The bounds of a keyword, where the schema has it.
Within(schema, least, most, n) ==
    /\ Has(schema, least) => n >= schema[least]
    /\ Has(schema, most) => n <= schema[most]

ObjectAccepted(v, schema, accepted) ==
    /\ Has(schema, "required") => schema.required \subseteq DOMAIN v.props
    /\ Has(schema, "properties") =>
          \A k \in DOMAIN v.props \cap DOMAIN schema.properties :
              accepted[v.props[k]][schema.properties[k]]
    /\ Has(schema, "additionalProperties") /\ ~schema.additionalProperties =>
          DOMAIN v.props \subseteq
              IF Has(schema, "properties") THEN DOMAIN schema.properties ELSE {}

ListAccepted(v, schema, accepted) ==
    /\ Within(schema, "minItems", "maxItems", Len(v.items))
    /\ Has(schema, "items") =>
          \A i \in DOMAIN v.items : accepted[v.items[i]][schema.items]

NumberAccepted(v, schema) ==
    /\ Within(schema, "minimum", "maximum", v.val)
    /\ Has(schema, "exclusiveMinimum") => v.val > schema.exclusiveMinimum
    /\ Has(schema, "exclusiveMaximum") => v.val < schema.exclusiveMaximum

\* Mutant: a value of the enum is accepted at once.
EnumAcceptedAtOnce(v, schema, rest) ==
    IF Has(schema, "enum") THEN \E w \in schema.enum : PyEqual(v, w) ELSE rest

\* The enum and what else the schema asks.
EnumAccepted(v, schema, rest) ==
    (Has(schema, "enum") => \E w \in schema.enum : PyEqual(v, w)) /\ rest

\* No errors: the list that validate_schema_contract returns is empty.
Accepted[v \in Values] == [schema \in Schemas |->
    /\ Has(schema, "type") => TypeCheck(v, schema.type)
    /\ EnumAccepted(v, schema,
           /\ v.type = "dict" => ObjectAccepted(v, schema, Accepted)
           /\ v.type = "list" => ListAccepted(v, schema, Accepted)
           /\ v.type = "str" => Within(schema, "minLength", "maxLength", v.len)
           /\ Numeric(v) => NumberAccepted(v, schema))]

-----------------------------------------------------------------------------
(* Reference: JSON Schema reads a schema keyword by keyword, and a keyword *)
(* constrains the values of its type only.                                 *)

\* The names JSON Schema has for the type of a value.
JsonTypes(v) ==
    CASE v.type = "dict" -> {"object"}
      [] v.type = "list" -> {"array"}
      [] v.type = "str" -> {"string"}
      [] v.type = "int" -> {"integer", "number"}
      [] v.type = "float" -> {"number"}
      [] v.type = "bool" -> {"boolean"}
      [] v.type = "NoneType" -> {"null"}

Declared(schema) == IF Has(schema, "properties") THEN DOMAIN schema.properties ELSE {}

\* What one keyword of a schema says of a value, given "conforms" for their parts.
KeywordHolds(v, s, keyword, conforms) ==
    CASE keyword = "type" -> s.type \in JsonTypes(v)
      [] keyword = "enum" -> \E w \in s.enum : PyEqual(v, w)
      [] keyword = "required" -> v.type = "dict" => s.required \subseteq DOMAIN v.props
      [] keyword = "properties" ->
            v.type = "dict" => \A k \in DOMAIN v.props \cap Declared(s) :
                                  conforms[v.props[k]][s.properties[k]]
      [] keyword = "additionalProperties" ->
            v.type = "dict" /\ ~s.additionalProperties => DOMAIN v.props \subseteq Declared(s)
      [] keyword = "items" ->
            v.type = "list" => \A i \in DOMAIN v.items : conforms[v.items[i]][s.items]
      [] keyword = "minItems" -> v.type = "list" => Len(v.items) >= s.minItems
      [] keyword = "maxItems" -> v.type = "list" => Len(v.items) <= s.maxItems
      [] keyword = "minLength" -> v.type = "str" => v.len >= s.minLength
      [] keyword = "maxLength" -> v.type = "str" => v.len <= s.maxLength
      [] keyword = "minimum" -> Numeric(v) => v.val >= s.minimum
      [] keyword = "maximum" -> Numeric(v) => v.val <= s.maximum
      [] keyword = "exclusiveMinimum" -> Numeric(v) => v.val > s.exclusiveMinimum
      [] keyword = "exclusiveMaximum" -> Numeric(v) => v.val < s.exclusiveMaximum

Conforms[v \in Values] == [s \in Schemas |->
    \A keyword \in DOMAIN s : KeywordHolds(v, s, keyword, Conforms)]
=============================================================================
