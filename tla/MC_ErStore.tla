----------------------------- MODULE MC_ErStore -----------------------------
(***************************************************************************)
(* A small copy of examples/er_schema.json: departments, and employees that *)
(* belong to one and may have a manager among the employees.               *)
(***************************************************************************)
EXTENDS ErStore

ColumnOf(name, flags, ref) ==
    [name |-> name, primary_key |-> "pk" \in flags, unique |-> "unique" \in flags,
     not_null |-> "not_null" \in flags, ref |-> ref]
Json(c) == [ok |-> TRUE, column |-> c]
BadColumn == [ok |-> FALSE, column |-> ColumnOf("", {}, NoRef)]
TableJson(name, columns) ==
    [ok |-> TRUE, name |-> name,
     columns |-> [c \in DOMAIN columns |-> Json(columns[c])]]
BadTable == [ok |-> TRUE, name |-> "emp",
             columns |-> <<Json(ColumnOf("id", {"pk"}, NoRef)), BadColumn>>]
At(t, c) == [table |-> t, column |-> c]

Departments == TableJson("dept", <<ColumnOf("id", {"pk"}, NoRef)>>)
Employees == TableJson("emp",
    <<ColumnOf("id", {"pk"}, NoRef),
      ColumnOf("dept", {"not_null"}, At("dept", "id")),
      ColumnOf("boss", {"unique"}, NoRef)>>)

\* A fourth column, beyond MAX_COLUMNS, is not read, though it is bad.
WideEmployees == [Employees EXCEPT !.columns = Append(@, BadColumn)]
BossRelation == [from |-> At("emp", "boss"), to |-> At("emp", "id")]
LostRelation == [from |-> At("emp", "salary"), to |-> At("dept", "id")]

MC_Uploads ==
    {[tables |-> <<Departments, WideEmployees>>, relations |-> <<LostRelation, BossRelation>>],
     [tables |-> <<Employees, Departments, Departments>>, relations |-> <<>>],
     [tables |-> <<Departments, BadTable, Employees>>, relations |-> <<BossRelation>>]}

Lit(x) == [text |-> x, quoted |-> FALSE]
Into(t, cols, vals) == [insert |-> TRUE, table |-> t, columns |-> cols, values |-> vals]
Dept(x) == Into("dept", <<>>, <<Lit(x)>>)
Emp(x, d, b) == Into("emp", <<>>, <<Lit(x), Lit(d), Lit(b)>>)

Good ==
    {Dept("1"), Dept("2"), Dept("NULL"), Emp("1", "1", "NULL"), Emp("2", "1", "1"),
     Emp("2", "2", "2"), Emp("3", "2", "1"),
     Into("emp", <<"dept", "id">>, <<Lit("1"), Lit("2")>>),
     Into("emp", <<"id", "boss">>, <<Lit("3"), Lit("1")>>)}

Malformed ==
    {[Dept("1") EXCEPT !.insert = FALSE],
     Into("projects", <<>>, <<Lit("1")>>),
     Into("dept", <<"salary">>, <<Lit("1")>>),
     Into("emp", <<"id">>, <<Lit("1"), Lit("1")>>)}

PayloadOf(tuples) == [syntax |-> TRUE, tuples |-> tuples]

MC_Payloads ==
    {PayloadOf(<<a>>) : a \in Good \union Malformed}
    \union {PayloadOf(<<a, b>>) : a, b \in Good}
    \union {PayloadOf(<<Dept("1"), Emp("1", "1", "NULL"), Emp("2", "1", "1")>>),
            PayloadOf(<<>>),
            [syntax |-> FALSE, tuples |-> <<Dept("1")>>]}

\* One department row at a time and two at a time, for the capacity.
MC_TwoRows == {PayloadOf(<<Dept("1")>>), PayloadOf(<<Dept("2"), Dept("3")>>)}
=============================================================================
