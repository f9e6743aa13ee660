------------------------------ MODULE ErStore ------------------------------
(***************************************************************************)
(* The ER store of model.c: the tables loaded from an uploaded ER diagram  *)
(* and the rows accepted so far, with the commands of the worker that read *)
(* and write them (OP_UPLOAD_END, OP_VALIDATE_INSERT and, read only,       *)
(* OP_GENERATE_SQL).  Only the worker writes the store; the admin thread   *)
(* may look at it between any two steps.                                   *)
(*                                                                         *)
(* An upload is a sequence of table descriptions and of relations.  A      *)
(* table description that is not an object, or has no name or no columns   *)
(* array, has ok = FALSE, and so has a column that is not an object or has  *)
(* no name.  An insert payload is the sequence of its value tuples,         *)
(* each with the table and the column list of its statement.               *)
(***************************************************************************)
EXTENDS Naturals, Sequences, FiniteSets

CONSTANTS
    MAX_TABLES, MAX_COLUMNS, MAX_ROWS, MAX_BATCH_ROWS,  \* of model.h and model.c
    Uploads,        \* the ER files clients upload
    Payloads,       \* the insert batches clients send
    NULL            \* a value that is NULL

\* A column, with the column it refers to; what a file and a payload hold.
ColumnRef == [table : STRING, column : STRING]
Column == [name : STRING, primary_key : BOOLEAN, unique : BOOLEAN, not_null : BOOLEAN,
           ref : ColumnRef]
ColumnJson == [ok : BOOLEAN, column : Column]
ErFile == [tables : Seq([ok : BOOLEAN, name : STRING, columns : Seq(ColumnJson)]),
           relations : Seq([from : ColumnRef, to : ColumnRef])]
InsertPayload ==
    [syntax : BOOLEAN,
     tuples : Seq([insert : BOOLEAN, table : STRING, columns : Seq(STRING),
                   values : Seq([text : STRING, quoted : BOOLEAN])])]

ASSUME StoreAssumption ==
    {MAX_TABLES, MAX_COLUMNS, MAX_ROWS, MAX_BATCH_ROWS} \subseteq Nat \ {0}

ASSUME InputAssumption == Uploads \subseteq ErFile /\ Payloads \subseteq InsertPayload

NoRef == [table |-> "", column |-> ""]

VARIABLES
    tables,     \* the loaded tables, each [name, columns, rows]
    phase,      \* where the worker is in the command it executes
    upload,     \* the table descriptions and relations still to be read
    batch,      \* the parsed rows being applied, each [table, row]
    pos,        \* the row of the batch to be applied next
    command,    \* the upload or payload of the command, for the properties
    before,     \* the tables when the command began, for the properties
    outcome     \* how the last command was answered

vars == <<tables, phase, upload, batch, pos, command, before, outcome>>

NoUpload == [tables |-> <<>>, relations |-> <<>>]

Init ==
    /\ tables = <<>> /\ phase = "idle"
    /\ upload = NoUpload /\ batch = <<>> /\ pos = 1
    /\ command = NoUpload /\ before = <<>> /\ outcome = "none"

-----------------------------------------------------------------------------
(* Lookups: the first table or column of that name, 0 if there is none.    *)

FirstIndex(seq, name) ==
    IF \E i \in DOMAIN seq : seq[i].name = name
    THEN CHOOSE i \in DOMAIN seq :
           seq[i].name = name /\ \A j \in 1..i - 1 : seq[j].name # name
    ELSE 0

find_table(name) == FirstIndex(tables, name)
find_column(t, name) == FirstIndex(tables[t].columns, name)

-----------------------------------------------------------------------------
(* load_er_json.                                                           *)

\* The file cannot be read, is not JSON or has no tables array: nothing of
\* the store is touched.
LoadRefused ==
    /\ phase = "idle"
    /\ before' = tables
    /\ outcome' = "error"
    /\ command' = NoUpload
    /\ UNCHANGED <<tables, phase, upload, batch, pos>>

\* table_count = 0: the old schema and its rows are gone from here on.
LoadBegin(u) ==
    /\ phase = "idle"
    /\ before' = tables
    /\ command' = u
    /\ tables' = <<>>
    /\ upload' = u
    /\ phase' = "load"
    /\ UNCHANGED <<batch, pos, outcome>>

\* Mutant: one table too many.
room_for_table_OffByOne == Len(tables) <= MAX_TABLES

room_for_table == Len(tables) < MAX_TABLES

\* load_column_json: a primary key is NOT NULL too.
load_column_json(json) ==
    LET c == json.column IN [c EXCEPT !.not_null = c.not_null \/ c.primary_key]

\* The columns that are read: those beyond MAX_COLUMNS are not looked at.
columns_read(t) == {c \in DOMAIN t.columns : c <= MAX_COLUMNS}
readable(t) ==
    /\ t.ok /\ t.columns # <<>>
    /\ \A c \in columns_read(t) : t.columns[c].ok

LoadTable ==
    /\ phase = "load"
    /\ upload.tables # <<>> /\ room_for_table
    /\ readable(Head(upload.tables))
    /\ LET t == Head(upload.tables)
       IN  tables' = Append(tables,
             [name |-> t.name, rows |-> <<>>,
              columns |-> [c \in columns_read(t) |-> load_column_json(t.columns[c])]])
    /\ upload' = [upload EXCEPT !.tables = Tail(@)]
    /\ UNCHANGED <<phase, batch, pos, command, before, outcome>>

\* A bad description ends the load; the tables read so far stay, without the
\* relations.
LoadTableBad ==
    /\ phase = "load"
    /\ upload.tables # <<>> /\ room_for_table
    /\ ~readable(Head(upload.tables))
    /\ phase' = "idle" /\ outcome' = "error" /\ upload' = NoUpload
    /\ UNCHANGED <<tables, batch, pos, command, before>>

\* The rest of the tables beyond MAX_TABLES is ignored.
LoadTablesDone ==
    /\ phase = "load"
    /\ upload.tables = <<>> \/ ~room_for_table
    /\ phase' = "relations"
    /\ UNCHANGED <<tables, upload, batch, pos, command, before, outcome>>

\* One entry of "relations": it overrides the reference of its column, and is
\* ignored when there is no such column.
LoadRelation ==
    /\ phase = "relations"
    /\ upload.relations # <<>>
    /\ LET rel == Head(upload.relations)
           ti == find_table(rel.from.table)
           ci == IF ti = 0 THEN 0 ELSE find_column(ti, rel.from.column)
       IN  tables' = IF ci = 0 THEN tables
                     ELSE [tables EXCEPT ![ti].columns[ci].ref = rel.to]
    /\ upload' = [upload EXCEPT !.relations = Tail(@)]
    /\ UNCHANGED <<phase, batch, pos, command, before, outcome>>

LoadDone ==
    /\ phase = "relations"
    /\ upload.relations = <<>>
    /\ phase' = "idle" /\ outcome' = "ok" /\ upload' = NoUpload
    /\ UNCHANGED <<tables, batch, pos, command, before>>

-----------------------------------------------------------------------------
(* Parsing an insert payload.  A literal is its text and whether it was     *)
(* between quotes.                                                         *)

\* parse_value drops the quotes, then compares the text with NULL.
parse_value(l) == IF l.text = "NULL" THEN NULL ELSE l.text

\* The column each value goes to: the listed ones, or all of them in order.
column_map(tuple) ==
    LET t == find_table(tuple.table)
    IN  IF tuple.columns = <<>> THEN [c \in DOMAIN tables[t].columns |-> c]
        ELSE [k \in DOMAIN tuple.columns |-> find_column(t, tuple.columns[k])]

\* The row of a tuple: columns not listed are NULL, and of a column listed
\* twice the last value counts.
parse_row(tuple) ==
    LET map == column_map(tuple)
        LastFor(c) == CHOOSE k \in DOMAIN map :
                        map[k] = c /\ \A m \in DOMAIN map : map[m] = c => m <= k
    IN  [c \in DOMAIN tables[find_table(tuple.table)].columns |->
           IF \E k \in DOMAIN map : map[k] = c
           THEN parse_value(tuple.values[LastFor(c)]) ELSE NULL]

parse_insert_statement(tuple) ==
    /\ tuple.insert
    /\ find_table(tuple.table) # 0
    /\ \A k \in DOMAIN tuple.columns :
         find_column(find_table(tuple.table), tuple.columns[k]) # 0
    /\ Len(tuple.values) = Len(column_map(tuple))

parse_batch_ok(p) ==
    /\ p.tuples # <<>>
    /\ Len(p.tuples) <= MAX_BATCH_ROWS
    /\ \A i \in DOMAIN p.tuples : parse_insert_statement(p.tuples[i])

parse_batch(p) ==
    [i \in DOMAIN p.tuples |->
       [table |-> find_table(p.tuples[i].table), row |-> parse_row(p.tuples[i])]]

-----------------------------------------------------------------------------
(* Validating the rows of a batch against the store.                       *)

\* The value is in the column, in a stored row or in a row b[lo..hi].
value_exists(b, lo, hi, t, c, v) ==
    \/ \E i \in DOMAIN tables[t].rows : tables[t].rows[i][c] = v
    \/ \E i \in lo..hi : b[i].table = t /\ b[i].row[c] = v

\* The three tests of one column of one row, b[lo..i-1] counting as stored.

null_ok(b, i, c) ==
    LET col == tables[b[i].table].columns[c]
    IN  col.not_null \/ col.primary_key => b[i].row[c] # NULL

unique_ok(b, lo, i, c) ==
    LET col == tables[b[i].table].columns[c]
    IN  (col.primary_key \/ col.unique) /\ b[i].row[c] # NULL =>
          ~value_exists(b, lo, i - 1, b[i].table, c, b[i].row[c])

\* Mutant: rows further down in the batch count as well.
reference_ok_Forward(b, lo, i, c) ==
    LET ref == tables[b[i].table].columns[c].ref
        rt == find_table(ref.table)
    IN  ref.table # "" /\ b[i].row[c] # NULL =>
          /\ rt # 0
          /\ find_column(rt, ref.column) # 0
          /\ value_exists(b, lo, Len(b), rt, find_column(rt, ref.column), b[i].row[c])

\* Mutant: a foreign key that is NULL is looked up like a value.
reference_ok_NullKey(b, lo, i, c) ==
    LET ref == tables[b[i].table].columns[c].ref
        rt == find_table(ref.table)
    IN  ref.table # "" =>
          /\ rt # 0
          /\ find_column(rt, ref.column) # 0
          /\ value_exists(b, lo, i - 1, rt, find_column(rt, ref.column), b[i].row[c])

reference_ok(b, lo, i, c) ==
    LET ref == tables[b[i].table].columns[c].ref
        rt == find_table(ref.table)
    IN  ref.table # "" /\ b[i].row[c] # NULL =>
          /\ rt # 0
          /\ find_column(rt, ref.column) # 0
          /\ value_exists(b, lo, i - 1, rt, find_column(rt, ref.column), b[i].row[c])

row_ok(b, lo, i) ==
    \A c \in DOMAIN tables[b[i].table].columns :
        null_ok(b, i, c) /\ unique_ok(b, lo, i, c) /\ reference_ok(b, lo, i, c)

validate_batch_rows(b) ==
    \A i \in DOMAIN b :
        /\ Len(tables[b[i].table].rows) < MAX_ROWS
        /\ row_ok(b, 1, i)

validate_insert_batch(p) ==
    /\ tables # <<>>
    /\ p.syntax                     \* pg_query_parse accepts the text
    /\ parse_batch_ok(p)
    /\ validate_batch_rows(parse_batch(p))

-----------------------------------------------------------------------------
(* OP_VALIDATE_INSERT.                                                     *)

\* The child process validates and reports through the pipe; pipe, fork or
\* the child itself may also fail, and then the batch is rejected.
child_validate_insert(p) ==
    /\ phase = "idle"
    /\ before' = tables /\ command' = p
    /\ \/ validate_insert_batch(p) /\ phase' = "accepted" /\ outcome' = outcome
       \/ phase' = "idle" /\ outcome' = "error"
    /\ UNCHANGED <<tables, upload, batch, pos>>

\* apply_insert_batch parses and validates once more, then copies.
ApplyBegin ==
    /\ phase = "accepted"
    /\ IF command.syntax /\ parse_batch_ok(command)
            /\ validate_batch_rows(parse_batch(command))
       THEN phase' = "apply" /\ batch' = parse_batch(command) /\ pos' = 1
            /\ outcome' = outcome
       ELSE phase' = "idle" /\ outcome' = "error" /\ UNCHANGED <<batch, pos>>
    /\ UNCHANGED <<tables, upload, command, before>>

\* Mutant: the last row is forgotten.
rows_left_OffByOne == pos < Len(batch)

rows_left == pos <= Len(batch)

\* rows[row_count++], whatever row_count is.  Row MAX_ROWS + 1 lies behind the
\* array, on the next table or on what follows the tables: what the memory
\* holds from then on is undefined, and the behaviour ends.
ApplyRow ==
    /\ phase = "apply"
    /\ rows_left
    /\ tables' = [tables EXCEPT ![batch[pos].table].rows = Append(@, batch[pos].row)]
    /\ pos' = pos + 1
    /\ phase' = IF Len(tables[batch[pos].table].rows) < MAX_ROWS THEN phase ELSE "undefined"
    /\ UNCHANGED <<upload, batch, command, before, outcome>>

ApplyDone ==
    /\ phase = "apply"
    /\ ~rows_left
    /\ phase' = "idle" /\ outcome' = "ok" /\ batch' = <<>> /\ pos' = 1
    /\ UNCHANGED <<tables, upload, command, before>>

Next ==
    \/ LoadRefused \/ \E u \in Uploads : LoadBegin(u)
    \/ LoadTable \/ LoadTableBad \/ LoadTablesDone \/ LoadRelation \/ LoadDone
    \/ \E p \in Payloads : child_validate_insert(p)
    \/ ApplyBegin \/ ApplyRow \/ ApplyDone

Spec == Init /\ [][Next]_vars

-----------------------------------------------------------------------------
(* generate_sql: the constraint clauses each column is declared with.      *)

clauses(col) ==
    {k \in {"PRIMARY KEY", "NOT NULL", "UNIQUE", "REFERENCES"} :
        CASE k = "PRIMARY KEY" -> col.primary_key
          [] k = "NOT NULL"    -> col.not_null /\ ~col.primary_key
          [] k = "UNIQUE"      -> col.unique /\ ~col.primary_key
          [] k = "REFERENCES"  -> col.ref.table # ""}

generate_sql ==
    [t \in DOMAIN tables |->
       [name |-> tables[t].name,
        columns |-> [c \in DOMAIN tables[t].columns |->
                       [name |-> tables[t].columns[c].name,
                        clauses |-> clauses(tables[t].columns[c]),
                        ref |-> tables[t].columns[c].ref]]]]

-----------------------------------------------------------------------------
(* Properties.  What the clauses mean in SQL, for a store ts whose tables    *)
(* are declared by generate_sql.                                           *)

Declared(t, c, kinds) == generate_sql[t].columns[c].clauses \intersect kinds # {}

NotNullIn(ts) ==
    \A t \in DOMAIN tables : \A c \in DOMAIN tables[t].columns :
        Declared(t, c, {"PRIMARY KEY", "NOT NULL"}) =>
            \A i \in DOMAIN ts[t].rows : ts[t].rows[i][c] # NULL

UniqueIn(ts) ==
    \A t \in DOMAIN tables : \A c \in DOMAIN tables[t].columns :
        Declared(t, c, {"PRIMARY KEY", "UNIQUE"}) =>
            \A i, j \in DOMAIN ts[t].rows :
                i # j /\ ts[t].rows[i][c] # NULL => ts[t].rows[i][c] # ts[t].rows[j][c]

ReferencesIn(ts) ==
    \A t \in DOMAIN tables : \A c \in DOMAIN tables[t].columns :
        Declared(t, c, {"REFERENCES"}) =>
            LET ref == generate_sql[t].columns[c].ref
                rt == find_table(ref.table)
                rc == find_column(rt, ref.column)
            IN  \A i \in DOMAIN ts[t].rows :
                  ts[t].rows[i][c] # NULL =>
                    /\ rt # 0 /\ rc # 0
                    /\ \E j \in DOMAIN ts[rt].rows : ts[rt].rows[j][rc] = ts[t].rows[i][c]

SqlIn(ts) == NotNullIn(ts) /\ UniqueIn(ts) /\ ReferencesIn(ts)

\* Row k of a batch refers to itself, or to a row further down.
RefersAhead(b, k) ==
    \E c \in DOMAIN tables[b[k].table].columns :
        LET ref == generate_sql[b[k].table].columns[c].ref
            rt == find_table(ref.table)
            rc == find_column(rt, ref.column)
        IN  /\ Declared(b[k].table, c, {"REFERENCES"}) /\ b[k].row[c] # NULL
            /\ \E m \in k..Len(b) :
                 b[m].table = rt /\ rc # 0 /\ b[m].row[rc] = b[k].row[c]

\* The rows of a batch that are for table t, in their order.
Places(b, t) == {i \in DOMAIN b : b[i].table = t}
Rank(P, i) == Cardinality({j \in P : j <= i})
Nth(P, k) == CHOOSE i \in P : Rank(P, i) = k
RowsFor(b, t) ==
    LET P == Places(b, t) IN [k \in 1..Cardinality(P) |-> b[Nth(P, k)].row]

StoreAfter(b) ==
    [t \in DOMAIN tables |-> [tables[t] EXCEPT !.rows = @ \o RowsFor(b, t)]]

\* The store is well formed: no more tables than MAX_TABLES and no more columns
\* than MAX_COLUMNS, at least one in each table, and every row has the columns
\* of its table.  How many rows there are is WithinStorage.
TypeOK ==
    /\ Len(tables) <= MAX_TABLES
    /\ \A t \in DOMAIN tables :
         /\ Len(tables[t].columns) \in 1..MAX_COLUMNS
         /\ \A i \in DOMAIN tables[t].rows :
              DOMAIN tables[t].rows[i] = DOMAIN tables[t].columns
    /\ phase \in {"idle", "load", "relations", "accepted", "apply", "undefined"}
    /\ pos \in 1..Len(batch) + 1
    /\ outcome \in {"none", "ok", "error"}

\* At every moment, in the middle of an upload or of a batch too, the rows
\* memorised satisfy the clauses of the SQL that the server generates for the
\* schema: NOT NULL and PRIMARY KEY (model.c:888, 508-511), UNIQUE, also between
\* rows that came in one batch (model.c:895, 852), and REFERENCES: what a row
\* refers to is stored (model.c:907-928).  It is said of a store that no row
\* was written behind.
ConstraintsKept == phase # "undefined" => SqlIn(tables)

\* Only valid batches are applied, and whole: a batch answered with OP_OK has
\* added its rows to the tables, in order; a batch that was refused, or whose
\* child process failed, has changed nothing (docs/SRS.md:27,
\* server.c:868-890).
InsertAllOrNothing ==
    phase = "idle" /\ "tuples" \in DOMAIN command =>
        IF outcome = "ok"
        THEN tables = [t \in DOMAIN before |->
               [before[t] EXCEPT !.rows = @ \o RowsFor(parse_batch(command), t)]]
        ELSE tables = before

\* The validator against the constraints of the generated SQL (model.c:871-936
\* against model.c:487-528).  The rows of a batch that it accepts keep the
\* clauses, however they are grouped into statements: they hold after each row.
\* A batch that parses and that it refuses would leave a store that breaks a
\* clause, unless it is stricter than SQL in one of two ways: a table is full
\* already, or a row refers to itself or to a row further down, which SQL
\* allows within a statement.  The types of the columns are no part of it: the
\* validator compares texts, and so does this.
ValidatorAgreesWithSql ==
    phase = "idle" =>
        \A p \in Payloads :
            p.syntax /\ parse_batch_ok(p) =>
                LET b == parse_batch(p)
                IN  IF validate_batch_rows(b)
                    THEN \A k \in DOMAIN b : SqlIn(StoreAfter(SubSeq(b, 1, k)))
                    ELSE \/ ~SqlIn(StoreAfter(b))
                         \/ \E i \in DOMAIN b : Len(tables[b[i].table].rows) >= MAX_ROWS
                         \/ \E i \in DOMAIN b : RefersAhead(b, i)

\* The comment of the capacity test says "verificam limita de stocare interna
\* demonstrativa" (model.c:877): an accepted batch never makes a table longer
\* than its MAX_ROWS rows.
WithinStorage == \A t \in DOMAIN tables : Len(tables[t].rows) <= MAX_ROWS
=============================================================================
