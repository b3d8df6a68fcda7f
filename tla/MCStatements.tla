----------------------------- MODULE MCStatements -----------------------------
(***************************************************************************)
(* Instances of Statements: every statement alone, with query bodies one   *)
(* level deep, two levels if no select holds another, and with a WITH over *)
(* the bodies that are not nested; pairs of the statements without a       *)
(* nested body or a WITH; templates of up to three symbols, which is a     *)
(* placeholder with whatever can stand on its two sides, and longer ones   *)
(* with comments in comments, with one or two parameters of each kind of   *)
(* literal.                                                                *)
(***************************************************************************)
EXTENDS Statements

Call == SUBSET {"f", "load_file"}

Query(bodies, withs) ==
    [kind : {"query"}, body : bodies, with : withs, calls : Call, tables : Call]

PlainLeaves == InnerSelect \union WriteBody \union OtherBody

Withs == {{b} : b \in Leaves}

Queries ==
    Query(Leaves \union Nested(Leaves) \union Nested(Nested(PlainLeaves)), {{}})
      \union Query(Leaves, Withs)

Var == [scope : {"session", "global", "user"}, key : {"time_zone", "sql_mode"}]

SetStatement ==
    [kind : {"set"}, local : BOOLEAN,
     vars : {{v} : v \in Var} \union {{v, w} : v \in Var, w \in Var}, calls : Call]

Other == [kind : Simple, calls : Call]

Flat == Query(PlainLeaves, {{}}) \union Other

Explain ==
    {[kind |-> "explain", statement |-> s, calls |-> s.calls] :
        s \in Query(Leaves, {{}} \union Withs) \union Query(Nested(PlainLeaves), {{}}) \union Other}

MCTexts ==
    {[parsed |-> FALSE, stmts |-> <<>>], [parsed |-> TRUE, stmts |-> <<>>]}
      \union [parsed : {TRUE},
              stmts : {<<s>> : s \in Queries \union SetStatement
                                       \union Other \union Explain}
                        \union {<<s, t>> : s \in Flat, t \in Flat}]

MCPlaceholder == [p \in {"$0", "$1", "$2"} |-> CASE p = "$0" -> 0 [] p = "$1" -> 1 [] p = "$2" -> 2]

Syms == {"x", "'", "\"", "-", "nl", "/*", "*/", "$a$", "$0", "$1", "$2"}

MCTemplates == UNION {[1..n -> Syms] : n \in 1..3} \union [1..5 -> {"/*", "*/", "$1"}]

Integer == {<<"9">>, <<"-", "9">>}

MCValues ==
    {v \in [oid : {"bool", "int", "float", "numeric", "reg", "text", "array"},
            elem : {"int", "float", "text"}, n : {0, 2}, fmt : {0, 1}, null : BOOLEAN,
            text : {<<"-", "9">>, <<"9", "e", "-", "9">>, <<"sp", "-", "inf", "nl">>, <<"nan">>,
                    <<"9", "-", "-">>, <<"'", "-">>, <<"$2">>, <<"*/">>,
                    <<"'", "-", "nl", "\"">>, <<"x", "NUL">>},
            int : Integer \union {quote_lit(<<"-", "inf">>)},
            width : {"own", "int", "odd"}] :
        v.int \in Integer \/ "float" \in {v.oid, v.elem}}

Value(oid, fmt, text) ==
    [oid |-> oid, elem |-> "int", n |-> 0, fmt |-> fmt, null |-> FALSE,
     text |-> text, int |-> <<"-", "9">>, width |-> "own"]

Bound == {Value("int", 1, <<"-", "9">>), Value("float", 0, <<"9", "e", "-", "9">>),
          Value("numeric", 0, <<"sp", "-", "inf", "nl">>),
          Value("text", 0, <<"'", "-", "nl", "\"">>),
          Value("text", 0, <<"$2">>), Value("text", 0, <<"*/">>), Value("array", 0, <<"x", "NUL">>)}

MCBinds == {<<v>> : v \in Bound} \union {<<v, w>> : v \in Bound, w \in Bound}
=============================================================================
