-------------------------- MODULE MCSkillExecution --------------------------
(***************************************************************************)
(* Values and schemas of the SkillExecution runs.                          *)
(***************************************************************************)
EXTENDS SkillExecution

Str(text, len) == [type |-> "str", text |-> text, len |-> len]
Number(type, n) == [type |-> type, val |-> n]
Dict(props) == [type |-> "dict", props |-> props]
List(items) == [type |-> "list", items |-> items]

Buy == Str("buy", 3)
Up == Str("up", 2)
Null == [type |-> "NoneType"]
Text07 == [type |-> "str", text |-> "0.7", len |-> 3, val |-> 70]

Scalars ==
    {Buy, Up, Null, Text07, Number("bool", 100), Number("int", 100)}
    \cup {Number("float", n) : n \in {0, 70, 100, 120}}

Confident(c) == Dict([signal |-> Buy, confidence |-> c])

\* Each is treated differently by a runner or by a schema.
MCRawOutputs ==
    {Confident(Number("float", 70)), Confident(Number("bool", 100)),
     Confident(Text07), Confident(Null), Confident(Number("float", 120)),
     Dict([signal |-> Up]), Dict([signal |-> Buy, order_id |-> Up]),
     Dict([signal |-> Buy, api_key |-> Up]), List(<<Buy>>)}

\* Lists, a text and a number in the inputs.
Lists == {List(<<>>), List(<<Number("int", 100), Number("float", 70)>>),
          List(<<Number("int", 100), Buy>>)}

MCInputs ==
    {Dict(<<>>), Dict([name |-> Buy, size |-> Number("float", 100)])}
    \cup {Dict([prices |-> l]) : l \in Lists}

MCValues ==
    Scalars \cup MCRawOutputs \cup Lists \cup MCInputs
    \cup {Confident(Number("float", 100))}

SignalSchema == [type |-> "string", enum |-> {Buy}, minLength |-> 2]
RateSchema == [type |-> "number", minimum |-> 0, maximum |-> 100]
BelowOneSchema == [enum |-> {Number("int", 100), Number("float", 70)}, exclusiveMaximum |-> 100]

\* An open object, and a closed one that wants a confidence below one.
MCOutputSchemas ==
    {[type |-> "object", required |-> {"signal"},
      properties |-> [signal |-> SignalSchema, confidence |-> RateSchema]],
     [properties |-> [signal |-> [maxLength |-> 3], confidence |-> BelowOneSchema],
      additionalProperties |-> FALSE]}

PriceSchema == [type |-> "number", exclusiveMinimum |-> 0]
PricesSchema == [type |-> "array", minItems |-> 1, maxItems |-> 2, items |-> PriceSchema]

\* The empty schema accepts everything.
MCInputSchemas ==
    {<<>>, [type |-> "object", properties |-> [prices |-> PricesSchema]]}

Metrics(rate, score, profit) ==
    [win_rate |-> rate, skill_score |-> score, profit_factor |-> profit]

\* Both sides of every limit, and of 30 observations.
MCHistories ==
    [samples : {29, 30, 31}, unit : {"rate", "percent"},
     metrics : {Metrics(100, 100, 100), Metrics(47, 50, 100), Metrics(48, 34, 99),
                [skill_score |-> 49], Metrics(1, 60, 120)}]

MCSchemas ==
    MCOutputSchemas \cup MCInputSchemas
    \cup {SignalSchema, RateSchema, BelowOneSchema, [maxLength |-> 3], PriceSchema, PricesSchema}
=============================================================================
