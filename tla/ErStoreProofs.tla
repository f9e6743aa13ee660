--------------------------- MODULE ErStoreProofs ---------------------------
(***************************************************************************)
(* Proofs about ErStore, for any schema, any payloads and any limits: the  *)
(* store is well formed, the rows it holds satisfy the clauses of the      *)
(* generated SQL at every moment, batches are applied whole, and the       *)
(* validator agrees with those clauses but where it is stricter.           *)
(***************************************************************************)
EXTENDS ErStore, FiniteSetTheorems, SequenceTheorems, WellFoundedInduction, TLAPS

\* A row of a batch: nothing lies before it from itself on.
LEMMA FromHere ==
    ASSUME NEW m \in Nat, NEW x \in 1..m
    PROVE  x \in x..m /\ x..x - 1 = {}
<1>1. x \in Int /\ x <= m
    OBVIOUS
<1>2. ASSUME NEW e \in x..x - 1 PROVE FALSE
    <2>1. e \in Int /\ x <= e /\ e <= x - 1
        BY <1>1
    <2> QED
        BY <1>1, <2>1
<1> QED
    BY <1>1, <1>2

\* The limits are positive.
LEMMA Limits == MAX_TABLES \in Nat \ {0} /\ MAX_COLUMNS \in Nat \ {0} /\ MAX_ROWS \in Nat \ {0}
    BY StoreAssumption

-----------------------------------------------------------------------------
(* Lookups.                                                                *)

\* A set of natural numbers has a least element.
LEMMA Least ==
    ASSUME NEW T, T \subseteq Nat, T # {}
    PROVE  \E x \in T : \A y \in T : x <= y
<1>1. PICK x \in T : \A y \in T : <<y, x>> \notin OpToRel(<, Nat)
    BY NatLessThanWellFounded, WFMin
<1>2. \A y \in T : ~(y < x)
    BY <1>1 DEF OpToRel
<1> QED
    BY <1>2

\* A bounded one has a greatest element.
LEMMA Greatest ==
    ASSUME NEW n \in Nat, NEW T, T \subseteq 0..n, T # {}
    PROVE  \E x \in T : \A y \in T : y <= x
<1> DEFINE U == {k \in 0..n : n - k \in T}
<1>1. U \subseteq Nat /\ U # {}
    <2>1. PICK x \in T : x \in 0..n
        OBVIOUS
    <2>2. n - x \in 0..n /\ n - (n - x) = x
        BY <2>1
    <2>3. n - x \in U
        BY <2>1, <2>2
    <2>4. U \subseteq Nat
        OBVIOUS
    <2> QED
        BY <2>3, <2>4
<1>2. PICK k \in U : \A m \in U : k <= m
    BY <1>1, Least
<1>3. ASSUME NEW y \in T PROVE y <= n - k
    <2>1. y \in 0..n /\ n - y \in 0..n /\ n - (n - y) = y
        BY <1>3
    <2>2. n - y \in U
        BY <1>3, <2>1
    <2>3. k <= n - y /\ k \in 0..n
        BY <1>2, <2>2
    <2> QED
        BY <2>1, <2>3
<1>4. n - k \in T
    BY <1>2
<1> QED
    BY <1>3, <1>4

\* find_table and find_column return the first of that name, or nothing.
LEMMA FirstIndexIs ==
    ASSUME NEW seq, NEW n \in Nat, DOMAIN seq = 1..n, NEW name
    PROVE  \/ FirstIndex(seq, name) = 0 /\ \A i \in 1..n : seq[i].name # name
           \/ /\ FirstIndex(seq, name) \in 1..n
              /\ seq[FirstIndex(seq, name)].name = name
              /\ \A j \in 1..FirstIndex(seq, name) - 1 : seq[j].name # name
<1>1. CASE \A i \in 1..n : seq[i].name # name
    BY <1>1 DEF FirstIndex
<1>2. CASE \E i \in 1..n : seq[i].name = name
    <2> DEFINE T == {i \in 1..n : seq[i].name = name}
    <2>1. PICK x \in T : \A y \in T : x <= y
        <3>1. T # {} /\ T \subseteq Nat
            BY <1>2
        <3> HIDE DEF T
        <3> QED
            BY <3>1, Least
    <2>2. x \in 1..n /\ seq[x].name = name /\ \A j \in 1..x - 1 : seq[j].name # name
        BY <2>1
    <2> QED
        BY <1>2, <2>2 DEF FirstIndex
<1> QED
    BY <1>1, <1>2

\* The lookups depend on the names only.
LEMMA SameNames ==
    ASSUME NEW seq, NEW new, NEW n \in Nat, DOMAIN seq = 1..n, DOMAIN new = 1..n,
           \A i \in 1..n : new[i].name = seq[i].name, NEW name
    PROVE  FirstIndex(new, name) = FirstIndex(seq, name)
<1> DEFINE a == FirstIndex(seq, name)
           b == FirstIndex(new, name)
<1>1. \/ a = 0 /\ \A i \in 1..n : seq[i].name # name
      \/ a \in 1..n /\ seq[a].name = name /\ \A j \in 1..a - 1 : seq[j].name # name
    BY FirstIndexIs
<1>2. \/ b = 0 /\ \A i \in 1..n : new[i].name # name
      \/ b \in 1..n /\ new[b].name = name /\ \A j \in 1..b - 1 : new[j].name # name
    BY FirstIndexIs
<1> HIDE DEF a, b
<1>3. a = b
    BY <1>1, <1>2
<1> QED
    BY <1>3 DEF a, b

-----------------------------------------------------------------------------
(* The rows of a batch that are for one table.                             *)

\* A set of places is finite.
LEMMA FiniteType ==
    ASSUME NEW n \in Nat, NEW P \in SUBSET (1..n)
    PROVE  IsFiniteSet(P) /\ Cardinality(P) \in Nat /\ P \subseteq Nat
<1>1. P \in SUBSET Nat /\ \A s \in P : s <= n
    OBVIOUS
<1> QED
    BY <1>1, FS_BoundedSetOfNaturals, FS_CardinalityType

\* A place in a set of places: how many are up to it.
LEMMA RankType ==
    ASSUME NEW n \in Nat, NEW P \in SUBSET (1..n), NEW i \in P
    PROVE  /\ IsFiniteSet(P) /\ Cardinality(P) \in Nat /\ Rank(P, i) \in 1..Cardinality(P)
           /\ \A j \in P : j < i => Rank(P, j) < Rank(P, i)
<1> DEFINE U(k) == {j \in P : j <= k}
<1>1. IsFiniteSet(P) /\ Cardinality(P) \in Nat /\ P \subseteq Nat
    BY FiniteType
<1>2. \A k \in P : /\ U(k) \in SUBSET P /\ IsFiniteSet(U(k)) /\ Cardinality(U(k)) \in Nat
                   /\ Cardinality(U(k)) <= Cardinality(P)
    <2> SUFFICES ASSUME NEW k \in P
                 PROVE  /\ U(k) \in SUBSET P /\ IsFiniteSet(U(k)) /\ Cardinality(U(k)) \in Nat
                        /\ Cardinality(U(k)) <= Cardinality(P)
        OBVIOUS
    <2>1. U(k) \in SUBSET P
        OBVIOUS
    <2> HIDE DEF U
    <2> QED
        BY <1>1, <2>1, FS_Subset, FS_CardinalityType
<1>3. U(i) # {}
    BY <1>1
<1>4. Cardinality(U(i)) # 0
    <2> HIDE DEF U
    <2> QED
        BY <1>2, <1>3, FS_EmptySet
<1>5. ASSUME NEW j \in P, j < i PROVE Cardinality(U(j)) < Cardinality(U(i))
    <2>1. U(j) \in SUBSET U(i) /\ U(j) # U(i)
        <3>1. i \in U(i) /\ i \notin U(j)
            BY <1>1, <1>5
        <3>2. ASSUME NEW k \in P, k <= j PROVE k <= i
            BY <1>1, <1>5, <3>2
        <3> QED
            BY <3>1, <3>2
    <2> HIDE DEF U
    <2>2. Cardinality(U(j)) <= Cardinality(U(i)) /\ Cardinality(U(i)) # Cardinality(U(j))
        BY <1>2, <2>1, FS_Subset
    <2> QED
        BY <1>2, <2>2
<1> HIDE DEF U
<1>6. \A k \in P : Rank(P, k) = Cardinality(U(k))
    BY DEF Rank, U
<1> QED
    BY <1>1, <1>2, <1>4, <1>5, <1>6

\* Every rank is taken by one place, which Nth finds.
LEMMA NthIs ==
    ASSUME NEW n \in Nat, NEW P \in SUBSET (1..n), NEW k \in 1..Cardinality(P)
    PROVE  Nth(P, k) \in P /\ Rank(P, Nth(P, k)) = k
<1> DEFINE T == {i \in P : k <= Rank(P, i)}
<1>1. /\ IsFiniteSet(P) /\ Cardinality(P) \in Nat /\ P \subseteq Nat
      /\ \A i \in P : Rank(P, i) \in 1..Cardinality(P)
    BY FiniteType, RankType
<1>2. ASSUME NEW Q \in SUBSET P, Q # {}
      PROVE  \E m \in Q : (\A j \in Q : j <= m) /\ Cardinality(Q) <= Rank(P, m)
    <2>1. Q \subseteq 0..n
        BY <1>2
    <2>2. PICK m \in Q : \A j \in Q : j <= m
        BY <1>2, <2>1, Greatest
    <2>3. Q \in SUBSET {j \in P : j <= m} /\ {j \in P : j <= m} \in SUBSET P
        BY <2>2
    <2>4. Cardinality(Q) <= Cardinality({j \in P : j <= m})
        BY <1>1, <2>3, FS_Subset
    <2> QED
        BY <2>2, <2>4 DEF Rank
<1>3. T # {}
    <2>1. P # {}
        BY FS_EmptySet
    <2>2. PICK m \in P : Cardinality(P) <= Rank(P, m)
        BY <1>2, <2>1
    <2> QED
        BY <1>1, <2>2
<1>4. PICK i \in T : \A j \in T : i <= j
    <2>1. T \subseteq Nat
        BY <1>1
    <2> HIDE DEF T
    <2> QED
        BY <1>3, <2>1, Least
<1>5. Rank(P, i) = k
    <2> SUFFICES ASSUME Rank(P, i) # k PROVE FALSE
        OBVIOUS
    <2> DEFINE U == {j \in P : j <= i}
               V == U \ {i}
    <2>1. U \in SUBSET P /\ i \in U /\ V \in SUBSET P /\ Rank(P, i) = Cardinality(U)
        BY DEF Rank
    <2>2. \A j \in V : j < i
        OBVIOUS
    <2> HIDE DEF U
    <2>3. IsFiniteSet(U)
        BY <1>1, <2>1, FS_Subset
    <2>4. IsFiniteSet(V) /\ Cardinality(V) = Cardinality(U) - 1
        BY <2>1, <2>3, FS_RemoveElement
    <2> HIDE DEF V
    <2>5. k <= Cardinality(V) /\ Cardinality(V) # 0
        BY <1>1, <1>4, <2>1, <2>4
    <2>6. V # {}
        BY <2>5, FS_EmptySet
    <2>7. PICK m \in V : Cardinality(V) <= Rank(P, m)
        BY <1>2, <2>1, <2>6
    <2>8. m \in T /\ m < i
        BY <1>1, <2>1, <2>2, <2>4, <2>5, <2>7
    <2> QED
        BY <1>4, <2>8
<1>6. \E x \in P : Rank(P, x) = k
    BY <1>5
<1> QED
    BY <1>6 DEF Nth

\* And Nth finds every place.
LEMMA NthOf ==
    ASSUME NEW n \in Nat, NEW P \in SUBSET (1..n), NEW i \in P
    PROVE  Nth(P, Rank(P, i)) = i
<1>1. Rank(P, i) \in 1..Cardinality(P)
    BY RankType
<1>2. PICK k \in 1..Cardinality(P) : k = Rank(P, i)
    BY <1>1
<1>3. Nth(P, k) \in P /\ Rank(P, Nth(P, k)) = k
    BY NthIs
<1>4. PICK j \in P : j = Nth(P, k)
    BY <1>3
<1>5. /\ j < i => Rank(P, j) < Rank(P, i)
      /\ i < j => Rank(P, i) < Rank(P, j)
    BY RankType
<1>6. i \in Int /\ j \in Int
    OBVIOUS
<1> QED
    BY <1>2, <1>3, <1>4, <1>5, <1>6

-----------------------------------------------------------------------------
(* The inductive invariant.  Between two steps of apply_insert_batch the   *)
(* rows that are left would still be accepted, against the store as it is  *)
(* by then; while a schema is read there are no rows.                      *)

Value == STRING \union {NULL}
Table == [name : STRING, columns : Seq(Column), rows : Seq(Seq(Value))]
BatchRow == [table : Nat, row : Seq(Value)]
TableEntry == [ok : BOOLEAN, name : STRING, columns : Seq(ColumnJson)]
Relation == [from : ColumnRef, to : ColumnRef]
Tuple == [insert : BOOLEAN, table : STRING, columns : Seq(STRING),
          values : Seq([text : STRING, quoted : BOOLEAN])]

TypeInv ==
    /\ tables \in Seq(Table) /\ batch \in Seq(BatchRow)
    /\ upload \in [tables : Seq(TableEntry), relations : Seq(Relation)]
    /\ phase = "accepted" => command \in Payloads

\* A row has the columns of the table it is for.
BatchFits ==
    phase = "apply" => \A i \in 1..Len(batch) :
        /\ batch[i].table \in 1..Len(tables)
        /\ DOMAIN batch[i].row = DOMAIN tables[batch[i].table].columns

Pending == phase = "apply" => \A i \in pos..Len(batch) : row_ok(batch, pos, i)

Unloaded ==
    phase \in {"load", "relations"} => \A t \in 1..Len(tables) : tables[t].rows = <<>>

\* ConstraintsKept of one column of one stored row, in terms of the columns
\* instead of the clauses.
CellKept(t, c, i) ==
    LET col == tables[t].columns[c]
        v == tables[t].rows[i][c]
        rt == find_table(col.ref.table)
        rc == find_column(rt, col.ref.column)
    IN  /\ col.primary_key \/ col.not_null => v # NULL
        /\ (col.primary_key \/ col.unique) /\ v # NULL =>
             \A j \in 1..Len(tables[t].rows) : j # i => tables[t].rows[j][c] # v
        /\ col.ref.table # "" /\ v # NULL =>
             /\ rt # 0 /\ rc # 0
             /\ \E j \in 1..Len(tables[rt].rows) :
                  tables[rt].rows[j][rc] = v /\ (rt = t => j < i)

RowsKept ==
    \A t \in 1..Len(tables) : \A c \in 1..Len(tables[t].columns) :
        \A i \in 1..Len(tables[t].rows) : CellKept(t, c, i)

IInv == TypeInv /\ TypeOK /\ BatchFits /\ Pending /\ Unloaded /\ RowsKept

\* A table of the store.
LEMMA TableType ==
    ASSUME TypeInv, NEW t \in 1..Len(tables)
    PROVE  /\ tables[t] \in Table /\ DOMAIN tables = 1..Len(tables) /\ Len(tables) \in Nat
           /\ Len(tables[t].columns) \in Nat /\ Len(tables[t].rows) \in Nat
           /\ DOMAIN tables[t].columns = 1..Len(tables[t].columns)
           /\ DOMAIN tables[t].rows = 1..Len(tables[t].rows)
           /\ \A c \in 1..Len(tables[t].columns) : tables[t].columns[c] \in Column
<1>1. tables[t] \in Table
    BY ElementOfSeq DEF TypeInv
<1>2. tables[t].columns \in Seq(Column) /\ tables[t].rows \in Seq(Seq(Value))
    BY <1>1 DEF Table
<1>3. \A c \in 1..Len(tables[t].columns) : tables[t].columns[c] \in Column
    BY <1>2, ElementOfSeq
<1> QED
    BY <1>1, <1>2, <1>3 DEF TypeInv

\* find_table finds a table, find_column a column of it, or neither does.
LEMMA FindTable ==
    ASSUME TypeInv, NEW name
    PROVE  /\ find_table(name) \in 0..Len(tables)
           /\ find_table(name) # 0 => find_table(name) \in 1..Len(tables)
<1>1. DOMAIN tables = 1..Len(tables) /\ Len(tables) \in Nat
    BY DEF TypeInv
<1> QED
    BY <1>1, FirstIndexIs DEF find_table

\* find_column returns an index of a column, or 0.
LEMMA FindColumn ==
    ASSUME TypeInv, NEW t \in 1..Len(tables), NEW name
    PROVE  find_column(t, name) \in 0..Len(tables[t].columns)
    BY TableType, FirstIndexIs DEF find_column

\* The columns of a statement's values are columns of its table.
LEMMA ColumnMapType ==
    ASSUME TypeInv, NEW tuple \in Tuple, parse_insert_statement(tuple)
    PROVE  /\ find_table(tuple.table) \in 1..Len(tables)
           /\ column_map(tuple) \in Seq(Nat)
<1> DEFINE t == find_table(tuple.table)
<1>1. t \in 1..Len(tables)
    BY FindTable DEF parse_insert_statement
<1>2. /\ Len(tables[t].columns) \in Nat
      /\ DOMAIN tables[t].columns = 1..Len(tables[t].columns)
    BY <1>1, TableType
<1>3. tuple.columns \in Seq(STRING)
    BY DEF Tuple
<1>4. CASE tuple.columns = <<>>
    BY <1>1, <1>2, <1>4 DEF column_map
<1>5. CASE tuple.columns # <<>>
    <2>1. \A k \in 1..Len(tuple.columns) : find_column(t, tuple.columns[k]) \in Nat
        BY <1>1, <1>2, FindColumn
    <2>2. column_map(tuple) = [k \in 1..Len(tuple.columns) |-> find_column(t, tuple.columns[k])]
        BY <1>3, <1>5 DEF column_map
    <2> QED
        BY <1>1, <1>3, <2>1, <2>2
<1> QED
    BY <1>1, <1>4, <1>5

\* parse_insert_statement makes a row with the columns of its table.
LEMMA ParseRowType ==
    ASSUME TypeInv, NEW tuple \in Tuple, parse_insert_statement(tuple)
    PROVE  /\ find_table(tuple.table) \in 1..Len(tables)
           /\ parse_row(tuple) \in Seq(Value)
           /\ DOMAIN parse_row(tuple) = DOMAIN tables[find_table(tuple.table)].columns
<1> DEFINE t == find_table(tuple.table)
           map == column_map(tuple)
           LastFor(c) == CHOOSE k \in DOMAIN map :
                           map[k] = c /\ \A m \in DOMAIN map : map[m] = c => m <= k
           cell(c) == IF \E k \in DOMAIN map : map[k] = c
                      THEN parse_value(tuple.values[LastFor(c)]) ELSE NULL
<1>1. t \in 1..Len(tables) /\ map \in Seq(Nat)
    BY ColumnMapType
<1>2. /\ Len(tables[t].columns) \in Nat
      /\ DOMAIN tables[t].columns = 1..Len(tables[t].columns)
    BY <1>1, TableType
<1>3. parse_row(tuple) = [c \in 1..Len(tables[t].columns) |-> cell(c)]
    BY <1>2 DEF parse_row
<1>4. Len(tuple.values) = Len(map) /\ tuple.values \in Seq([text : STRING, quoted : BOOLEAN])
    BY DEF parse_insert_statement, Tuple
<1> HIDE DEF map, t
<1>5. ASSUME NEW c \in 1..Len(tables[t].columns) PROVE cell(c) \in Value
    <2>1. CASE \E k \in DOMAIN map : map[k] = c
        <3> DEFINE T == {k \in 1..Len(map) : map[k] = c}
        <3>1. T # {} /\ T \subseteq 0..Len(map) /\ Len(map) \in Nat /\ DOMAIN map = 1..Len(map)
            BY <1>1, <2>1
        <3>2. PICK x \in T : \A y \in T : y <= x
            <4> HIDE DEF T
            <4> QED
                BY <3>1, Greatest
        <3>3. x \in DOMAIN map /\ map[x] = c /\ \A m \in DOMAIN map : map[m] = c => m <= x
            BY <3>1, <3>2
        <3>4. LastFor(c) \in DOMAIN map
            BY <3>3
        <3> HIDE DEF LastFor
        <3>5. tuple.values[LastFor(c)] \in [text : STRING, quoted : BOOLEAN]
            BY <1>4, <3>1, <3>4, ElementOfSeq
        <3> QED
            BY <2>1, <3>5 DEF parse_value, Value
    <2>2. CASE ~\E k \in DOMAIN map : map[k] = c
        BY <2>2 DEF Value
    <2> QED
        BY <2>1, <2>2
<1> HIDE DEF cell
<1> QED
    BY <1>1, <1>2, <1>3, <1>5 DEF t

\* An accepted payload is parsed into rows that fit their tables.
LEMMA ParseBatchType ==
    ASSUME TypeInv, NEW p \in Payloads, parse_batch_ok(p)
    PROVE  /\ parse_batch(p) \in Seq(BatchRow)
           /\ \A i \in 1..Len(parse_batch(p)) :
                /\ parse_batch(p)[i].table \in 1..Len(tables)
                /\ DOMAIN parse_batch(p)[i].row = DOMAIN tables[parse_batch(p)[i].table].columns
<1>1. p.tuples \in Seq(Tuple)
    BY InputAssumption DEF InsertPayload, Tuple
<1>2. Len(p.tuples) \in Nat /\ DOMAIN p.tuples = 1..Len(p.tuples)
    BY <1>1
<1> DEFINE e(i) == [table |-> find_table(p.tuples[i].table), row |-> parse_row(p.tuples[i])]
<1>3. ASSUME NEW i \in 1..Len(p.tuples)
      PROVE  /\ e(i) \in BatchRow /\ e(i).table \in 1..Len(tables)
             /\ DOMAIN e(i).row = DOMAIN tables[e(i).table].columns
    <2>1. p.tuples[i] \in Tuple /\ parse_insert_statement(p.tuples[i])
        BY <1>1, <1>2, ElementOfSeq DEF parse_batch_ok
    <2>2. /\ find_table(p.tuples[i].table) \in 1..Len(tables)
          /\ parse_row(p.tuples[i]) \in Seq(Value)
          /\ DOMAIN parse_row(p.tuples[i]) = DOMAIN tables[find_table(p.tuples[i].table)].columns
        BY <2>1, ParseRowType
    <2> QED
        BY <2>2 DEF BatchRow
<1>4. parse_batch(p) = [i \in 1..Len(p.tuples) |-> e(i)]
    BY <1>2 DEF parse_batch
<1> HIDE DEF e
<1>5. parse_batch(p) \in Seq(BatchRow) /\ Len(parse_batch(p)) = Len(p.tuples)
    BY <1>2, <1>3, <1>4
<1> QED
    BY <1>3, <1>4, <1>5

-----------------------------------------------------------------------------
(* What a batch adds to a table.                                           *)

\* The rows for a table, at the ranks of their places.
LEMMA RowsForIs ==
    ASSUME NEW b \in Seq(BatchRow), NEW t
    PROVE  /\ RowsFor(b, t) \in Seq(Seq(Value)) /\ Places(b, t) \in SUBSET (1..Len(b))
           /\ Len(RowsFor(b, t)) = Cardinality(Places(b, t)) /\ Len(RowsFor(b, t)) \in Nat
           /\ \A i \in Places(b, t) :
                /\ Rank(Places(b, t), i) \in 1..Len(RowsFor(b, t))
                /\ RowsFor(b, t)[Rank(Places(b, t), i)] = b[i].row
           /\ \A k \in 1..Len(RowsFor(b, t)) :
                \E i \in Places(b, t) :
                    Rank(Places(b, t), i) = k /\ RowsFor(b, t)[k] = b[i].row
<1>1. PICK P, n : P = Places(b, t) /\ n = Len(b)
    OBVIOUS
<1>2. n \in Nat /\ P \in SUBSET (1..n) /\ \A i \in 1..n : b[i].row \in Seq(Value)
    <2>1. \A i \in 1..n : b[i] \in BatchRow
        BY <1>1, ElementOfSeq
    <2> QED
        BY <1>1, <2>1 DEF Places, BatchRow
<1>3. PICK m \in Nat : m = Cardinality(P)
    BY <1>2, FiniteType
<1>4. RowsFor(b, t) = [k \in 1..m |-> b[Nth(P, k)].row]
    BY <1>1, <1>3 DEF RowsFor
<1>5. \A k \in 1..m : Nth(P, k) \in P /\ Rank(P, Nth(P, k)) = k
    BY <1>2, <1>3, NthIs
<1>6. \A i \in P : Rank(P, i) \in 1..m /\ Nth(P, Rank(P, i)) = i
    BY <1>2, <1>3, RankType, NthOf
<1>7. \A k \in 1..m : b[Nth(P, k)].row \in Seq(Value)
    BY <1>2, <1>5
<1>8. /\ RowsFor(b, t) \in Seq(Seq(Value)) /\ Len(RowsFor(b, t)) = m
      /\ \A k \in 1..m : RowsFor(b, t)[k] = b[Nth(P, k)].row
    BY <1>4, <1>7
<1>9. \A i \in P : Rank(P, i) \in 1..m /\ RowsFor(b, t)[Rank(P, i)] = b[i].row
    BY <1>6, <1>8
<1>10. ASSUME NEW k \in 1..m
       PROVE  \E i \in P : Rank(P, i) = k /\ RowsFor(b, t)[k] = b[i].row
    <2>1. PICK i \in P : i = Nth(P, k) /\ Rank(P, i) = k
        BY <1>5
    <2> QED
        BY <1>8, <2>1
<1> QED
    BY <1>1, <1>2, <1>3, <1>8, <1>9, <1>10

\* One row more for the table, or none.
LEMMA RowsForAppend ==
    ASSUME NEW b \in Seq(BatchRow), NEW e \in BatchRow, NEW t
    PROVE  RowsFor(Append(b, e), t) =
             IF e.table = t THEN Append(RowsFor(b, t), e.row) ELSE RowsFor(b, t)
<1>1. PICK c, n, P, Q : /\ c = Append(b, e) /\ n = Len(b) /\ P = Places(b, t) /\ Q = Places(c, t)
    OBVIOUS
<1>2. /\ n \in Nat /\ c \in Seq(BatchRow) /\ Len(c) = n + 1 /\ c[n + 1] = e
      /\ \A i \in 1..n : c[i] = b[i]
    BY <1>1, AppendProperties
<1>3. /\ P \in SUBSET (1..n) /\ Q \in SUBSET (1..n + 1)
      /\ Q = IF e.table = t THEN P \union {n + 1} ELSE P
    <2>1. P = {i \in 1..n : b[i].table = t} /\ Q = {i \in 1..n + 1 : c[i].table = t}
        BY <1>1, <1>2 DEF Places
    <2>2. \A i \in 1..n + 1 : i \in 1..n \/ i = n + 1
        BY <1>2
    <2>3. n + 1 \in 1..n + 1 /\ n + 1 \notin 1..n /\ \A i \in 1..n : i \in 1..n + 1
        BY <1>2
    <2> QED
        BY <1>2, <2>1, <2>2, <2>3
<1>4. PICK m \in Nat : m = Cardinality(P) /\ IsFiniteSet(P)
    BY <1>2, <1>3, FiniteType
<1>5. \A k \in 1..m : Nth(P, k) \in P /\ Rank(P, Nth(P, k)) = k
    BY <1>2, <1>3, <1>4, NthIs
<1>6. RowsFor(b, t) = [k \in 1..m |-> b[Nth(P, k)].row]
    BY <1>1, <1>4 DEF RowsFor
<1>7. CASE e.table # t
    <2>1. RowsFor(c, t) = [k \in 1..m |-> c[Nth(P, k)].row]
        BY <1>1, <1>3, <1>4, <1>7 DEF RowsFor
    <2>2. \A k \in 1..m : c[Nth(P, k)].row = b[Nth(P, k)].row
        BY <1>2, <1>3, <1>5
    <2> QED
        BY <1>1, <1>6, <1>7, <2>1, <2>2
<1>8. CASE e.table = t
    <2>1. Q = P \union {n + 1} /\ n + 1 \notin P
        BY <1>2, <1>3, <1>8
    <2>2. Cardinality(Q) = m + 1
        BY <1>4, <2>1, FS_AddElement
    <2>3. RowsFor(c, t) = [k \in 1..m + 1 |-> c[Nth(Q, k)].row]
        BY <1>1, <2>2 DEF RowsFor
    <2>4. n + 1 \in Nat
        BY <1>2
    <2>5. ASSUME NEW i \in P PROVE Rank(Q, i) = Rank(P, i)
        <3>1. {j \in Q : j <= i} = {j \in P : j <= i}
            BY <1>2, <1>3, <2>1
        <3> QED
            BY <3>1 DEF Rank
    <2>6. Rank(Q, n + 1) = m + 1
        <3>1. \A j \in Q : j <= n + 1
            BY <1>2, <1>3
        <3>2. {j \in Q : j <= n + 1} = Q
            BY <3>1
        <3> QED
            BY <2>2, <3>2 DEF Rank
    <2>7. ASSUME NEW k \in 1..m PROVE c[Nth(Q, k)].row = b[Nth(P, k)].row
        <3>1. PICK i \in P : i = Nth(P, k) /\ Rank(P, i) = k
            BY <1>5
        <3>2. i \in Q /\ Rank(Q, i) = k
            BY <2>1, <2>5, <3>1
        <3>3. Nth(Q, Rank(Q, i)) = i
            BY <1>3, <2>4, <3>2, NthOf
        <3> QED
            BY <1>2, <1>3, <3>1, <3>2, <3>3
    <2>8. c[Nth(Q, m + 1)].row = e.row
        <3>1. Nth(Q, Rank(Q, n + 1)) = n + 1
            BY <1>3, <2>1, <2>4, NthOf
        <3> QED
            BY <1>2, <2>6, <3>1
    <2>9. /\ RowsFor(b, t) \in Seq(Seq(Value)) /\ Len(RowsFor(b, t)) = m /\ e.row \in Seq(Value)
          /\ \A k \in 1..m : RowsFor(b, t)[k] = b[Nth(P, k)].row
        BY <1>1, <1>4, <1>6, RowsForIs DEF BatchRow
    <2>10. PICK r, x : r = RowsFor(b, t) /\ x = e.row
        OBVIOUS
    <2>11. Append(r, x) = [k \in 1..m + 1 |-> c[Nth(Q, k)].row]
        <3>1. /\ Append(r, x) \in Seq(Seq(Value)) /\ Len(Append(r, x)) = m + 1
              /\ \A k \in 1..m : Append(r, x)[k] = r[k]
              /\ Append(r, x)[m + 1] = x
            BY <2>9, <2>10, AppendProperties
        <3>2. \A k \in 1..m + 1 : k \in 1..m \/ k = m + 1
            OBVIOUS
        <3>3. \A k \in 1..m + 1 : Append(r, x)[k] = c[Nth(Q, k)].row
            BY <2>7, <2>8, <2>9, <2>10, <3>1, <3>2
        <3>4. PICK s \in Seq(Seq(Value)) : s = Append(r, x) /\ Len(s) = m + 1
            BY <3>1
        <3>5. s = [k \in 1..Len(s) |-> s[k]]
            <4>1. s \in [1..Len(s) -> Seq(Value)]
                OBVIOUS
            <4> QED
                BY <4>1
        <3> QED
            BY <3>3, <3>4, <3>5
    <2> QED
        BY <1>1, <1>8, <2>3, <2>10, <2>11
<1> QED
    BY <1>7, <1>8

-----------------------------------------------------------------------------
(* load_er_json.                                                           *)

\* The next entry of a file, and the ones after it.
LEMMA HeadTail ==
    ASSUME NEW S, NEW s \in Seq(S), s # <<>>
    PROVE  /\ Head(s) \in S /\ Head(s) = s[1] /\ Len(s) \in Nat /\ Len(s) > 0
           /\ Tail(s) \in Seq(S) /\ Len(Tail(s)) = Len(s) - 1
           /\ \A i \in 1..Len(Tail(s)) : i + 1 \in 1..Len(s) /\ Tail(s)[i] = s[i + 1]
<1>1. Len(s) \in Nat /\ Len(s) > 0 /\ Tail(s) \in Seq(S) /\ Len(Tail(s)) = Len(s) - 1
    OBVIOUS
<1>2. s[1] \in S /\ Head(s) = s[1]
    BY <1>1, ElementOfSeq
<1>3. \A i \in 1..Len(Tail(s)) : i + 1 \in 1..Len(s) /\ Tail(s)[i] = s[i + 1]
    BY <1>1
<1> QED
    BY <1>1, <1>2, <1>3

\* The columns that are read are the first ones.
LEMMA ColumnsRead ==
    ASSUME NEW m \in Nat \ {0}, NEW n \in Nat \ {0}
    PROVE  \E k \in 1..n : {c \in 1..m : c <= n} = 1..k /\ \A c \in 1..k : c \in 1..m
<1>1. CASE m <= n
    BY <1>1
<1>2. CASE ~(m <= n)
    BY <1>2
<1> QED
    BY <1>1, <1>2

\* What is left of an upload is an upload.
LEMMA UploadParts ==
    ASSUME NEW A, NEW B, NEW u \in [tables : A, relations : B], NEW a \in A, NEW b \in B
    PROVE  /\ [u EXCEPT !.tables = a] \in [tables : A, relations : B]
           /\ [u EXCEPT !.tables = a].tables = a
           /\ [u EXCEPT !.relations = b] \in [tables : A, relations : B]
           /\ [u EXCEPT !.relations = b].tables = u.tables
    OBVIOUS

\* A step that leaves the tables alone.
LEMMA SameRowsKept == ASSUME RowsKept, tables' = tables PROVE RowsKept'
<1> SUFFICES ASSUME NEW t \in 1..Len(tables), NEW c \in 1..Len(tables[t].columns),
                    NEW i \in 1..Len(tables[t].rows)
             PROVE  CellKept(t, c, i)'
    BY DEF RowsKept
<1>1. CellKept(t, c, i)
    BY DEF RowsKept
<1>2. /\ \A name : find_table(name)' = find_table(name)
      /\ \A u, name : find_column(u, name)' = find_column(u, name)
    BY DEF find_table, find_column
<1> QED
    BY <1>1, <1>2 DEF CellKept

\* Nor do the tests of a row change.
LEMMA SameRowOk ==
    ASSUME tables' = tables, NEW b, NEW lo, NEW i, row_ok(b, lo, i)
    PROVE  row_ok(b, lo, i)'
<1> SUFFICES ASSUME NEW c \in DOMAIN tables[b[i].table].columns
             PROVE  (null_ok(b, i, c) /\ unique_ok(b, lo, i, c) /\ reference_ok(b, lo, i, c))'
    BY DEF row_ok
<1>1. null_ok(b, i, c) /\ unique_ok(b, lo, i, c) /\ reference_ok(b, lo, i, c)
    BY DEF row_ok
<1>2. /\ \A name : find_table(name)' = find_table(name)
      /\ \A u, name : find_column(u, name)' = find_column(u, name)
      /\ \A hi, u, d, v : value_exists(b, lo, hi, u, d, v)' <=> value_exists(b, lo, hi, u, d, v)
    BY DEF find_table, find_column, value_exists
<1>3. null_ok(b, i, c)'
    BY <1>1 DEF null_ok
<1>4. unique_ok(b, lo, i, c)'
    <2>1. PICK v, t : v = b[i].row[c] /\ t = b[i].table
        OBVIOUS
    <2> QED
        BY <1>1, <1>2, <2>1 DEF unique_ok
<1>5. reference_ok(b, lo, i, c)'
    <2>1. PICK ref, rt, rc, v :
            /\ ref = tables[b[i].table].columns[c].ref /\ rt = find_table(ref.table)
            /\ rc = find_column(rt, ref.column) /\ v = b[i].row[c]
        OBVIOUS
    <2>2. /\ ref.table # "" /\ v # NULL =>
               rt # 0 /\ rc # 0 /\ value_exists(b, lo, i - 1, rt, rc, v)
        BY <1>1, <2>1 DEF reference_ok
    <2>3. /\ tables'[b[i].table].columns[c].ref = ref /\ find_table(ref.table)' = rt
          /\ find_column(rt, ref.column)' = rc
          /\ value_exists(b, lo, i - 1, rt, rc, v)' <=> value_exists(b, lo, i - 1, rt, rc, v)
        BY <1>2, <2>1
    <2> QED
        BY <2>1, <2>2, <2>3 DEF reference_ok
<1> QED
    BY <1>3, <1>4, <1>5

\* The steps of an upload preserve the invariant.
LEMMA LoadIInv ==
    ASSUME IInv,
           \/ LoadRefused \/ \E u \in Uploads : LoadBegin(u)
           \/ LoadTable \/ LoadTableBad \/ LoadTablesDone \/ LoadRelation \/ LoadDone
    PROVE  IInv'
<1> USE DEF IInv
<1>1. CASE LoadRefused \/ LoadTableBad \/ LoadTablesDone \/ LoadDone
    <2>1. /\ UNCHANGED <<tables, batch, pos>> /\ upload' \in {upload, NoUpload}
          /\ phase' \in {"idle", "relations"} /\ outcome' \in {"none", "ok", "error"}
          /\ phase' = "relations" => phase = "load"
        BY <1>1 DEF LoadRefused, LoadTableBad, LoadTablesDone, LoadDone, TypeOK
    <2>2. /\ NoUpload \in [tables : Seq(TableEntry), relations : Seq(Relation)]
          /\ Len(NoUpload.tables) = 0
        BY DEF NoUpload
    <2>3. TypeInv'
        BY <2>1, <2>2 DEF TypeInv
    <2>4. TypeOK' /\ BatchFits' /\ Pending' /\ Unloaded'
        BY <2>1 DEF TypeOK, BatchFits, Pending, Unloaded
    <2>5. RowsKept'
        BY <2>1, SameRowsKept
    <2> QED
        BY <2>3, <2>4, <2>5
<1>2. ASSUME NEW u \in Uploads, LoadBegin(u) PROVE IInv'
    <2>1. /\ tables' = <<>> /\ upload' = u /\ phase' = "load" /\ UNCHANGED <<batch, pos, outcome>>
        BY <1>2 DEF LoadBegin
    <2>2. u \in [tables : Seq(TableEntry), relations : Seq(Relation)]
        BY InputAssumption DEF ErFile, TableEntry, Relation
    <2>3. TypeInv' /\ TypeOK' /\ BatchFits' /\ Pending' /\ Unloaded' /\ RowsKept'
        BY <2>1, <2>2, Limits
        DEF TypeInv, TypeOK, BatchFits, Pending, Unloaded, RowsKept
    <2> QED
        BY <2>3
<1>3. CASE LoadTable
    <2> DEFINE t == Head(upload.tables)
               new == [name |-> t.name, rows |-> <<>>,
                       columns |-> [c \in columns_read(t) |-> load_column_json(t.columns[c])]]
    <2>1. /\ phase = "load" /\ tables' = Append(tables, new)
          /\ upload' = [upload EXCEPT !.tables = Tail(@)] /\ upload.tables # <<>> /\ readable(t)
          /\ Len(tables) < MAX_TABLES /\ UNCHANGED <<phase, batch, pos, outcome>>
        BY <1>3 DEF LoadTable, room_for_table
    <2>2. upload.tables \in Seq(TableEntry) /\ upload.relations \in Seq(Relation)
        BY DEF TypeInv
    <2>3. t.columns # <<>> /\ t.columns \in Seq(ColumnJson) /\ t.name \in STRING
        <3>1. t \in TableEntry
            BY <2>1, <2>2, HeadTail
        <3> QED
            BY <2>1, <3>1 DEF TableEntry, readable
    <2> HIDE DEF t
    <2>4. new \in Table /\ Len(new.columns) \in 1..MAX_COLUMNS /\ new.rows = <<>>
        <3>1. /\ Len(t.columns) \in Nat \ {0} /\ DOMAIN t.columns = 1..Len(t.columns)
              /\ \A c \in 1..Len(t.columns) : t.columns[c] \in ColumnJson
            BY <2>3, ElementOfSeq
        <3>2. \A c \in 1..Len(t.columns) : load_column_json(t.columns[c]) \in Column
            BY <3>1 DEF load_column_json, ColumnJson, Column
        <3>3. PICK k \in 1..MAX_COLUMNS :
                columns_read(t) = 1..k /\ \A c \in 1..k : c \in 1..Len(t.columns)
            BY <3>1, Limits, ColumnsRead DEF columns_read
        <3>4. new.columns = [c \in 1..k |-> load_column_json(t.columns[c])]
            BY <3>3
        <3>5. new.columns \in Seq(Column) /\ Len(new.columns) = k
            BY <3>2, <3>3, <3>4, Limits
        <3> QED
            BY <2>3, <3>3, <3>5 DEF Table
    <2> HIDE DEF new
    <2>5. /\ tables' \in Seq(Table) /\ Len(tables') = Len(tables) + 1 /\ Len(tables) \in Nat
          /\ \A i \in 1..Len(tables) : tables'[i] = tables[i]
          /\ tables'[Len(tables) + 1] = new
        BY <2>1, <2>4 DEF TypeInv
    <2>6. /\ Unloaded'
          /\ \A i \in 1..Len(tables') :
               tables'[i].rows = <<>> /\ Len(tables'[i].columns) \in 1..MAX_COLUMNS
        <3>1. \A i \in 1..Len(tables) :
                tables[i].rows = <<>> /\ Len(tables[i].columns) \in 1..MAX_COLUMNS
            BY <2>1, <2>5 DEF Unloaded, TypeOK, TypeInv
        <3> QED
            BY <2>1, <2>4, <2>5, <3>1 DEF Unloaded
    <2>7. TypeInv'
        <3>1. /\ upload' \in [tables : Seq(TableEntry), relations : Seq(Relation)]
              /\ upload'.tables = Tail(upload.tables)
            BY <2>1, <2>2, HeadTail, UploadParts DEF TypeInv
        <3> QED
            BY <2>1, <2>5, <3>1 DEF TypeInv
    <2>8. TypeOK'
        <3>1. \A i \in 1..Len(tables') : DOMAIN tables'[i].rows = {}
            BY <2>6
        <3> QED
            BY <2>1, <2>5, <2>6, <3>1, Limits DEF TypeOK
    <2>9. BatchFits' /\ Pending'
        BY <2>1 DEF BatchFits, Pending
    <2> QED
        BY <2>5, <2>6, <2>7, <2>8, <2>9 DEF RowsKept
<1>4. CASE LoadRelation
    <2> DEFINE rel == Head(upload.relations)
               ti == find_table(rel.from.table)
               ci == IF ti = 0 THEN 0 ELSE find_column(ti, rel.from.column)
    <2>1. /\ phase = "relations" /\ upload.relations # <<>>
          /\ tables' = IF ci = 0 THEN tables ELSE [tables EXCEPT ![ti].columns[ci].ref = rel.to]
          /\ upload' = [upload EXCEPT !.relations = Tail(@)]
          /\ UNCHANGED <<phase, batch, pos, command, outcome>>
        BY <1>4 DEF LoadRelation
    <2>2. upload.tables \in Seq(TableEntry) /\ upload.relations \in Seq(Relation)
        BY DEF TypeInv
    <2>3. /\ upload' \in [tables : Seq(TableEntry), relations : Seq(Relation)]
          /\ upload'.tables = upload.tables
        BY <2>1, <2>2, HeadTail, UploadParts DEF TypeInv
    <2>4. rel.to \in ColumnRef
        <3>1. rel \in Relation
            BY <2>1, <2>2, HeadTail
        <3> QED
            BY <3>1 DEF Relation
    <2> HIDE DEF rel
    <2>5. ASSUME ci # 0
          PROVE  /\ ti \in 1..Len(tables) /\ ci \in 1..Len(tables[ti].columns)
        BY <2>5, FindTable, FindColumn
    <2> HIDE DEF ti, ci
    <2>6. /\ tables' \in Seq(Table) /\ Len(tables') = Len(tables)
          /\ \A i \in 1..Len(tables) :
               /\ tables'[i].rows = tables[i].rows
               /\ Len(tables'[i].columns) \in 1..MAX_COLUMNS
               /\ DOMAIN tables'[i].columns = DOMAIN tables[i].columns
        <3>1. CASE ci = 0
            BY <2>1, <3>1 DEF TypeInv, TypeOK
        <3>2. CASE ci # 0
            <4> DEFINE col == [tables[ti].columns[ci] EXCEPT !.ref = rel.to]
                       new == [tables[ti] EXCEPT !.columns = [@ EXCEPT ![ci] = col]]
            <4>1. /\ tables[ti] \in Table /\ tables[ti].columns[ci] \in Column
                  /\ tables \in Seq(Table) /\ ti \in 1..Len(tables)
                  /\ tables[ti].columns \in Seq(Column) /\ ci \in 1..Len(tables[ti].columns)
                BY <2>5, <3>2, TableType DEF Table, TypeInv
            <4>2. col \in Column
                BY <2>4, <4>1 DEF Column
            <4>3. tables' = [tables EXCEPT ![ti] = new]
                BY <2>1, <3>2, <4>1
            <4> HIDE DEF col
            <4>4. /\ [tables[ti].columns EXCEPT ![ci] = col] \in Seq(Column)
                  /\ DOMAIN [tables[ti].columns EXCEPT ![ci] = col] = DOMAIN tables[ti].columns
                  /\ Len([tables[ti].columns EXCEPT ![ci] = col]) = Len(tables[ti].columns)
                BY <4>1, <4>2
            <4>5. /\ new \in Table /\ new.rows = tables[ti].rows
                  /\ Len(new.columns) = Len(tables[ti].columns)
                  /\ DOMAIN new.columns = DOMAIN tables[ti].columns
                BY <4>1, <4>4 DEF Table
            <4> HIDE DEF new
            <4>6. tables' \in Seq(Table) /\ Len(tables') = Len(tables)
                BY <4>1, <4>3, <4>5
            <4>7. tables'[ti] = new /\ \A i \in 1..Len(tables) : i # ti => tables'[i] = tables[i]
                BY <4>1, <4>3
            <4>8. \A i \in 1..Len(tables) : Len(tables[i].columns) \in 1..MAX_COLUMNS
                BY <4>1 DEF TypeOK
            <4> QED
                BY <4>5, <4>6, <4>7, <4>8
        <3> QED
            BY <3>1, <3>2
    <2>7. \A i \in 1..Len(tables') : tables'[i].rows = <<>>
        BY <2>1, <2>6 DEF Unloaded
    <2>8. TypeInv' /\ Unloaded' /\ BatchFits' /\ Pending'
        BY <2>1, <2>3, <2>6, <2>7 DEF TypeInv, Unloaded, BatchFits, Pending
    <2>9. TypeOK'
        <3>1. /\ Len(tables') <= MAX_TABLES /\ DOMAIN tables' = 1..Len(tables')
              /\ \A i \in 1..Len(tables') :
                   /\ DOMAIN tables'[i].rows = {}
                   /\ Len(tables'[i].columns) \in 1..MAX_COLUMNS
            BY <2>6, <2>7 DEF TypeOK
        <3> QED
            BY <2>1, <3>1 DEF TypeOK
    <2> QED
        BY <2>6, <2>7, <2>8, <2>9 DEF RowsKept
<1> QED
    BY <1>1, <1>2, <1>3, <1>4

-----------------------------------------------------------------------------
(* OP_VALIDATE_INSERT.                                                     *)

\* The rows of a table after apply_insert_batch has copied one more.
GrowsBy(t, row) ==
    /\ Len(tables[t].rows) \in Nat
    /\ Len(tables'[t].rows) = Len(tables[t].rows) + 1
    /\ \A i \in 1..Len(tables[t].rows) : tables'[t].rows[i] = tables[t].rows[i]
    /\ tables'[t].rows[Len(tables[t].rows) + 1] = row

\* apply_insert_batch copies a row that was validated against the store as it is
\* now: the tables and columns stay, the rows of one table grow by one.
LEMMA Appended ==
    ASSUME IInv, ApplyRow
    PROVE  /\ phase = "apply" /\ pos \in 1..Len(batch) /\ Len(batch) \in Nat
           /\ batch[pos].table \in 1..Len(tables) /\ batch[pos].row \in Seq(Value)
           /\ DOMAIN batch[pos].row = DOMAIN tables[batch[pos].table].columns
           /\ tables' \in Seq(Table) /\ Len(tables') = Len(tables) /\ Len(tables) \in Nat
           /\ \A t \in 1..Len(tables) :
                /\ tables'[t].name = tables[t].name /\ tables'[t].columns = tables[t].columns
                /\ t # batch[pos].table => tables'[t].rows = tables[t].rows
           /\ GrowsBy(batch[pos].table, batch[pos].row)
           /\ pos' = pos + 1 /\ phase' \in {"apply", "undefined"}
           /\ UNCHANGED <<upload, batch, command, outcome>>
<1> DEFINE T == batch[pos].table
           R == batch[pos].row
           new == [tables[T] EXCEPT !.rows = Append(@, R)]
<1>1. /\ phase = "apply" /\ pos \in 1..Len(batch) /\ Len(batch) \in Nat
      /\ tables' = [tables EXCEPT ![T].rows = Append(@, R)]
      /\ pos' = pos + 1 /\ phase' \in {"apply", "undefined"}
      /\ UNCHANGED <<upload, batch, command, outcome>>
    BY DEF ApplyRow, rows_left, IInv, TypeInv, TypeOK
<1>2. T \in 1..Len(tables) /\ DOMAIN R = DOMAIN tables[T].columns
    BY <1>1 DEF IInv, BatchFits
<1>3. R \in Seq(Value)
    <2>1. batch[pos] \in BatchRow
        BY <1>1, ElementOfSeq DEF IInv, TypeInv
    <2> QED
        BY <2>1 DEF BatchRow
<1> HIDE DEF T, R
<1>4. tables \in Seq(Table) /\ tables[T] \in Table /\ tables[T].rows \in Seq(Seq(Value))
    BY <1>2, TableType DEF IInv, TypeInv, Table
<1>5. tables' = [tables EXCEPT ![T] = new]
    BY <1>1, <1>2, <1>4
<1>6. /\ Append(tables[T].rows, R) \in Seq(Seq(Value)) /\ Len(tables[T].rows) \in Nat
      /\ Len(Append(tables[T].rows, R)) = Len(tables[T].rows) + 1
      /\ \A i \in 1..Len(tables[T].rows) : Append(tables[T].rows, R)[i] = tables[T].rows[i]
      /\ Append(tables[T].rows, R)[Len(tables[T].rows) + 1] = R
    BY <1>3, <1>4, AppendProperties
<1>7. /\ new \in Table /\ new.rows = Append(tables[T].rows, R)
      /\ new.columns = tables[T].columns /\ new.name = tables[T].name
    BY <1>4, <1>6 DEF Table
<1> HIDE DEF new
<1>8. tables' \in Seq(Table) /\ Len(tables') = Len(tables) /\ Len(tables) \in Nat
    BY <1>2, <1>4, <1>5, <1>7
<1>9. tables'[T] = new /\ \A t \in 1..Len(tables) : t # T => tables'[t] = tables[t]
    BY <1>2, <1>4, <1>5
<1>10. \A t \in 1..Len(tables) :
         /\ tables'[t].name = tables[t].name /\ tables'[t].columns = tables[t].columns
         /\ t # T => tables'[t].rows = tables[t].rows
    BY <1>7, <1>9
<1>11. /\ Len(tables'[T].rows) = Len(tables[T].rows) + 1
       /\ \A i \in 1..Len(tables[T].rows) : tables'[T].rows[i] = tables[T].rows[i]
       /\ tables'[T].rows[Len(tables[T].rows) + 1] = R
    BY <1>6, <1>7, <1>9
<1>12. GrowsBy(T, R)
    BY <1>1, <1>6, <1>11 DEF GrowsBy
<1> QED
    BY <1>1, <1>2, <1>3, <1>8, <1>10, <1>12 DEF T, R

\* The lookups find what they found.
LEMMA AppendedLookup ==
    ASSUME IInv, ApplyRow
    PROVE  /\ \A name : find_table(name)' = find_table(name)
           /\ \A t \in 1..Len(tables) : \A name : find_column(t, name)' = find_column(t, name)
<1>1. /\ DOMAIN tables = 1..Len(tables) /\ DOMAIN tables' = 1..Len(tables) /\ Len(tables) \in Nat
      /\ \A t \in 1..Len(tables) :
           tables'[t].name = tables[t].name /\ tables'[t].columns = tables[t].columns
    BY Appended DEF IInv, TypeInv
<1>2. \A name : FirstIndex(tables', name) = FirstIndex(tables, name)
    BY <1>1, SameNames
<1> QED
    BY <1>1, <1>2 DEF find_table, find_column

\* A value of the rows still to be copied is found in the store once they are: a
\* row that was valid with the row before it in the batch is valid with it in
\* the store.
LEMMA ValueMoves ==
    ASSUME IInv, ApplyRow, NEW t \in 1..Len(tables), NEW c, NEW v, NEW hi \in Nat, pos <= hi
    PROVE  value_exists(batch, pos, hi, t, c, v)' <=> value_exists(batch, pos, hi, t, c, v)
<1> DEFINE T == batch[pos].table
           n == Len(tables[T].rows)
<1>1. /\ batch' = batch /\ pos' = pos + 1 /\ pos \in Nat /\ T \in 1..Len(tables) /\ n \in Nat
      /\ t # T => tables'[t].rows = tables[t].rows
      /\ Len(tables'[T].rows) = n + 1
      /\ \A i \in 1..n : tables'[T].rows[i] = tables[T].rows[i]
      /\ tables'[T].rows[n + 1] = batch[pos].row
    <2>1. /\ batch' = batch /\ pos' = pos + 1 /\ pos \in 1..Len(batch) /\ Len(batch) \in Nat
          /\ T \in 1..Len(tables) /\ GrowsBy(T, batch[pos].row)
          /\ t # T => tables'[t].rows = tables[t].rows
        BY Appended
    <2>2. pos \in Nat
        BY <2>1
    <2>3. /\ n \in Nat /\ Len(tables'[T].rows) = n + 1
          /\ \A i \in 1..n : tables'[T].rows[i] = tables[T].rows[i]
          /\ tables'[T].rows[n + 1] = batch[pos].row
        BY <2>1 DEF GrowsBy
    <2> QED
        BY <2>1, <2>2, <2>3
<1>2. /\ DOMAIN tables[t].rows = 1..Len(tables[t].rows) /\ Len(tables[t].rows) \in Nat
      /\ DOMAIN tables'[t].rows = 1..Len(tables'[t].rows)
    <2>1. tables'[t] \in Table
        BY Appended, ElementOfSeq
    <2> QED
        BY <2>1, TableType DEF Table, IInv
<1> HIDE DEF T, n
<1>3. (\E i \in pos..hi : batch[i].table = t /\ batch[i].row[c] = v)
        <=> \/ T = t /\ batch[pos].row[c] = v
            \/ \E i \in pos + 1..hi : batch[i].table = t /\ batch[i].row[c] = v
    BY <1>1 DEF T
<1>4. (\E i \in DOMAIN tables'[t].rows : tables'[t].rows[i][c] = v)
        <=> \/ T = t /\ batch[pos].row[c] = v
            \/ \E i \in DOMAIN tables[t].rows : tables[t].rows[i][c] = v
    <2>1. CASE t # T
        BY <1>1, <2>1
    <2>2. CASE t = T
        <3>1. DOMAIN tables[t].rows = 1..n /\ DOMAIN tables'[t].rows = 1..n + 1
            BY <1>1, <1>2, <2>2 DEF n
        <3>2. \A i \in 1..n + 1 : i \in 1..n \/ i = n + 1
            BY <1>1
        <3>3. \A i \in 1..n : i \in 1..n + 1
            BY <1>1
        <3>4. n + 1 \in 1..n + 1
            BY <1>1
        <3>5. ASSUME NEW i \in 1..n + 1, tables'[t].rows[i][c] = v
              PROVE  \/ batch[pos].row[c] = v
                     \/ \E j \in 1..n : tables[t].rows[j][c] = v
            BY <1>1, <2>2, <3>2, <3>5
        <3>6. ASSUME NEW i \in 1..n, tables[t].rows[i][c] = v
              PROVE  \E j \in 1..n + 1 : tables'[t].rows[j][c] = v
            BY <1>1, <2>2, <3>3, <3>6
        <3> QED
            BY <1>1, <2>2, <3>1, <3>4, <3>5, <3>6
    <2> QED
        BY <2>1, <2>2
<1> QED
    BY <1>1, <1>3, <1>4 DEF value_exists

\* The rows that are left are still accepted.
LEMMA StillPending == ASSUME IInv, ApplyRow PROVE Pending'
<1>1. /\ batch' = batch /\ pos' = pos + 1 /\ pos \in Nat /\ Len(batch) \in Nat
      /\ \A t \in 1..Len(tables) : tables'[t].columns = tables[t].columns
    BY Appended
<1> SUFFICES ASSUME NEW i \in pos + 1..Len(batch) PROVE row_ok(batch, pos, i)'
    BY <1>1 DEF Pending
<1>2. /\ batch[i].table \in 1..Len(tables) /\ row_ok(batch, pos, i)
      /\ i - 1 \in Nat /\ pos <= i - 1
    BY <1>1, Appended DEF IInv, BatchFits, Pending
<1> DEFINE t == batch[i].table
<1> SUFFICES ASSUME NEW c \in DOMAIN tables[t].columns
             PROVE  (null_ok(batch, i, c) /\ unique_ok(batch, pos, i, c)
                       /\ reference_ok(batch, pos, i, c))'
    BY <1>1, <1>2 DEF row_ok
<1>3. null_ok(batch, i, c) /\ unique_ok(batch, pos, i, c) /\ reference_ok(batch, pos, i, c)
    BY <1>2 DEF row_ok
<1>4. tables'[t].columns[c] = tables[t].columns[c]
    BY <1>1, <1>2
<1>5. null_ok(batch, i, c)'
    BY <1>1, <1>3, <1>4 DEF null_ok
<1>6. unique_ok(batch, pos, i, c)'
    <2>1. value_exists(batch, pos, i - 1, t, c, batch[i].row[c])'
            <=> value_exists(batch, pos, i - 1, t, c, batch[i].row[c])
        BY <1>1, <1>2, ValueMoves
    <2> QED
        BY <1>1, <1>3, <1>4, <2>1 DEF unique_ok
<1>7. reference_ok(batch, pos, i, c)'
    <2>1. PICK ref, rt, rc, v :
            /\ ref = tables[t].columns[c].ref /\ rt = find_table(ref.table)
            /\ rc = find_column(rt, ref.column) /\ v = batch[i].row[c]
        OBVIOUS
    <2>2. /\ tables'[t].columns[c].ref = ref
          /\ batch'[i].row[c] = v /\ batch'[i].table = batch[i].table
        BY <1>1, <1>4, <2>1
    <2>3. CASE ref.table = "" \/ v = NULL
        BY <2>2, <2>3 DEF reference_ok
    <2>4. CASE ref.table # "" /\ v # NULL
        <3>1. rt # 0 /\ rc # 0 /\ value_exists(batch, pos, i - 1, rt, rc, v)
            BY <1>3, <2>1, <2>4 DEF reference_ok
        <3>2. rt \in 1..Len(tables)
            BY <2>1, <3>1, FindTable DEF IInv
        <3>3. find_table(ref.table)' = rt /\ find_column(rt, ref.column)' = rc
            BY <2>1, <3>2, AppendedLookup
        <3>4. value_exists(batch, pos, i - 1, rt, rc, v)'
            BY <1>1, <1>2, <3>1, <3>2, ValueMoves
        <3> QED
            BY <1>1, <2>2, <3>1, <3>3, <3>4 DEF reference_ok
    <2> QED
        BY <2>3, <2>4
<1> QED
    BY <1>5, <1>6, <1>7

\* The value v may be added to column c, which is col and refers to rt and rc.
NewRowFits(t, c, col, v, rt, rc) ==
    /\ col.primary_key \/ col.not_null => v # NULL
    /\ (col.primary_key \/ col.unique) /\ v # NULL =>
         \A j \in 1..Len(tables[t].rows) : tables[t].rows[j][c] # v
    /\ col.ref.table # "" /\ v # NULL =>
         /\ rt \in 1..Len(tables) /\ rc # 0
         /\ \E j \in 1..Len(tables[rt].rows) : tables[rt].rows[j][rc] = v

\* What the tests of validate_batch_rows say of the row that is copied: no row
\* of the batch comes between it and the store.
LEMMA NextRowOk ==
    ASSUME IInv, ApplyRow, NEW t, t = batch[pos].table, NEW c \in 1..Len(tables[t].columns),
           NEW col, col = tables[t].columns[c], NEW v, v = batch[pos].row[c],
           NEW rt, rt = find_table(col.ref.table), NEW rc, rc = find_column(rt, col.ref.column)
    PROVE  NewRowFits(t, c, col, v, rt, rc)
<1>1. /\ phase = "apply" /\ pos \in 1..Len(batch) /\ Len(batch) \in Nat
      /\ t \in 1..Len(tables) /\ row_ok(batch, pos, pos)
    <2>1. /\ phase = "apply" /\ pos \in 1..Len(batch) /\ Len(batch) \in Nat
          /\ t \in 1..Len(tables)
        BY Appended
    <2>2. pos \in pos..Len(batch)
        BY ONLY <2>1, FromHere
    <2> QED
        BY <2>1, <2>2 DEF IInv, Pending
<1>2. \A u \in 1..Len(tables) : DOMAIN tables[u].rows = 1..Len(tables[u].rows)
    BY TableType DEF IInv
<1>3. c \in DOMAIN tables[t].columns
    BY <1>1, TableType DEF IInv
<1>4. null_ok(batch, pos, c) /\ unique_ok(batch, pos, pos, c) /\ reference_ok(batch, pos, pos, c)
    BY <1>1, <1>3 DEF row_ok
<1>5. pos..pos - 1 = {}
    BY ONLY <1>1, FromHere
<1>6. col.primary_key \/ col.not_null => v # NULL
    BY <1>4 DEF null_ok
<1>7. (col.primary_key \/ col.unique) /\ v # NULL =>
        \A j \in 1..Len(tables[t].rows) : tables[t].rows[j][c] # v
    BY <1>1, <1>2, <1>4, <1>5 DEF unique_ok, value_exists
<1>8. ASSUME col.ref.table # "", v # NULL
      PROVE  /\ rt \in 1..Len(tables) /\ rc # 0
             /\ \E j \in 1..Len(tables[rt].rows) : tables[rt].rows[j][rc] = v
    <2>1. rt # 0 /\ rc # 0 /\ value_exists(batch, pos, pos - 1, rt, rc, v)
        BY <1>4, <1>8 DEF reference_ok
    <2>2. rt \in 1..Len(tables)
        BY <2>1, FindTable DEF IInv
    <2>3. \E j \in 1..Len(tables[rt].rows) : tables[rt].rows[j][rc] = v
        BY <1>2, <1>5, <2>1, <2>2 DEF value_exists
    <2> QED
        BY <2>1, <2>2, <2>3
<1> QED
    BY <1>6, <1>7, <1>8 DEF NewRowFits

\* Copying a row keeps the clauses: it satisfies them, and no row stored before
\* has its unique values.
LEMMA RowsStayKept == ASSUME IInv, ApplyRow PROVE RowsKept'
<1>1. PICK T, R, n : T = batch[pos].table /\ R = batch[pos].row /\ n = Len(tables[T].rows)
    OBVIOUS
<1>2. /\ T \in 1..Len(tables) /\ n \in Nat /\ Len(tables') = Len(tables)
      /\ Len(tables'[T].rows) = n + 1 /\ tables'[T].rows[n + 1] = R
      /\ \A i \in 1..n : tables'[T].rows[i] = tables[T].rows[i]
      /\ \A t \in 1..Len(tables) :
           /\ tables'[t].columns = tables[t].columns
           /\ t # T => tables'[t].rows = tables[t].rows
    BY <1>1, Appended DEF GrowsBy
<1>3. \A t \in 1..Len(tables) :
        /\ Len(tables[t].rows) \in Nat
        /\ \A i \in 1..Len(tables[t].rows) : i \in 1..Len(tables'[t].rows)
        /\ \A i \in 1..Len(tables[t].rows) : tables'[t].rows[i] = tables[t].rows[i]
        /\ \A i \in 1..Len(tables'[t].rows) :
             \/ i \in 1..Len(tables[t].rows)
             \/ t = T /\ i = n + 1 /\ i \notin 1..Len(tables[t].rows)
    <2> SUFFICES ASSUME NEW t \in 1..Len(tables)
                 PROVE  /\ Len(tables[t].rows) \in Nat
                        /\ \A i \in 1..Len(tables[t].rows) :
                             i \in 1..Len(tables'[t].rows) /\ tables'[t].rows[i] = tables[t].rows[i]
                        /\ \A i \in 1..Len(tables'[t].rows) :
                             \/ i \in 1..Len(tables[t].rows)
                             \/ t = T /\ i = n + 1 /\ i \notin 1..Len(tables[t].rows)
        OBVIOUS
    <2>1. Len(tables[t].rows) \in Nat
        BY TableType DEF IInv
    <2>2. CASE t = T
        <3>1. Len(tables[t].rows) = n /\ Len(tables'[t].rows) = n + 1
            BY <1>1, <1>2, <2>2
        <3>2. \A i \in 1..n : i \in 1..n + 1
            BY <1>2
        <3>3. \A i \in 1..n + 1 : i \in 1..n \/ (i = n + 1 /\ i \notin 1..n)
            BY <1>2
        <3> QED
            BY <1>2, <2>1, <2>2, <3>1, <3>2, <3>3
    <2>3. CASE t # T
        BY <1>2, <2>1, <2>3
    <2> QED
        BY <2>2, <2>3
<1> SUFFICES ASSUME NEW t \in 1..Len(tables), NEW c \in 1..Len(tables[t].columns),
                    NEW i \in 1..Len(tables'[t].rows)
             PROVE  CellKept(t, c, i)'
    BY <1>2 DEF RowsKept
<1>4. PICK col, v, rt, rc :
        /\ col = tables[t].columns[c] /\ v = tables'[t].rows[i][c]
        /\ rt = find_table(col.ref.table) /\ rc = find_column(rt, col.ref.column)
    OBVIOUS
<1>5. /\ tables'[t].columns[c] = col /\ find_table(col.ref.table)' = rt
      /\ rt \in 1..Len(tables) => find_column(rt, col.ref.column)' = rc
    BY <1>2, <1>4, AppendedLookup
<1>6. /\ col.primary_key \/ col.not_null => v # NULL
      /\ (col.primary_key \/ col.unique) /\ v # NULL =>
           \A j \in 1..Len(tables[t].rows) : j # i => tables[t].rows[j][c] # v
      /\ col.ref.table # "" /\ v # NULL =>
           /\ rt \in 1..Len(tables) /\ rc # 0
           /\ \E j \in 1..Len(tables[rt].rows) :
                tables[rt].rows[j][rc] = v /\ (rt = t => j < i)
    <2>1. CASE i \in 1..Len(tables[t].rows)
        <3>1. CellKept(t, c, i) /\ v = tables[t].rows[i][c]
            BY <1>3, <1>4, <2>1 DEF IInv, RowsKept
        <3>2. /\ col.primary_key \/ col.not_null => v # NULL
              /\ (col.primary_key \/ col.unique) /\ v # NULL =>
                   \A j \in 1..Len(tables[t].rows) : j # i => tables[t].rows[j][c] # v
            BY <1>4, <3>1 DEF CellKept
        <3>3. ASSUME col.ref.table # "", v # NULL
              PROVE  /\ rt \in 1..Len(tables) /\ rc # 0
                     /\ \E j \in 1..Len(tables[rt].rows) :
                          tables[rt].rows[j][rc] = v /\ (rt = t => j < i)
            <4>1. /\ rt # 0 /\ rc # 0
                  /\ \E j \in 1..Len(tables[rt].rows) :
                       tables[rt].rows[j][rc] = v /\ (rt = t => j < i)
                BY <1>4, <3>1, <3>3 DEF CellKept
            <4>2. rt \in 1..Len(tables)
                BY <1>4, <4>1, FindTable DEF IInv
            <4> QED
                BY <4>1, <4>2
        <3> QED
            BY <3>2, <3>3
    <2>2. CASE t = T /\ i = n + 1
        <3>1. v = R[c]
            BY <1>2, <1>4, <2>2
        <3>2. \A j \in 1..n : j < i
            BY <1>2, <2>2
        <3>3. NewRowFits(t, c, col, v, rt, rc)
            BY <1>1, <1>4, <2>2, <3>1, NextRowOk
        <3> QED
            BY <1>1, <2>2, <3>2, <3>3 DEF NewRowFits
    <2> QED
        BY <1>3, <2>1, <2>2
<1>7. (col.primary_key \/ col.unique) /\ v # NULL =>
        \A j \in 1..Len(tables'[t].rows) : j # i => tables'[t].rows[j][c] # v
    <2> SUFFICES ASSUME col.primary_key \/ col.unique, v # NULL,
                        NEW j \in 1..Len(tables'[t].rows), j # i, tables'[t].rows[j][c] = v
                 PROVE  FALSE
        OBVIOUS
    <2>1. CASE j \in 1..Len(tables[t].rows)
        BY <1>3, <1>6, <2>1
    <2>2. CASE t = T /\ j = n + 1
        <3>1. i \in 1..Len(tables[t].rows) /\ v = tables[t].rows[i][c] /\ v = R[c]
            BY <1>2, <1>3, <1>4, <2>2
        <3>2. NewRowFits(t, c, col, v, rt, rc)
            BY <1>1, <1>4, <2>2, <3>1, NextRowOk
        <3> QED
            BY <3>1, <3>2 DEF NewRowFits
    <2> QED
        BY <1>3, <2>1, <2>2
<1>8. ASSUME col.ref.table # "", v # NULL
      PROVE  /\ rt # 0 /\ rc # 0 /\ find_column(rt, col.ref.column)' = rc
             /\ \E j \in 1..Len(tables'[rt].rows) :
                  tables'[rt].rows[j][rc] = v /\ (rt = t => j < i)
    <2>1. PICK j \in 1..Len(tables[rt].rows) : tables[rt].rows[j][rc] = v /\ (rt = t => j < i)
        BY <1>6, <1>8
    <2>2. rt \in 1..Len(tables) /\ rc # 0 /\ rt # 0
        <3>1. Len(tables) \in Nat
            BY DEF IInv, TypeInv
        <3>2. rt \in 1..Len(tables) /\ rc # 0
            BY <1>6, <1>8
        <3> QED
            BY <3>1, <3>2
    <2>3. j \in 1..Len(tables'[rt].rows) /\ tables'[rt].rows[j][rc] = v
        BY <1>3, <2>1, <2>2
    <2> QED
        BY <1>5, <2>1, <2>2, <2>3
<1> QED
    BY <1>4, <1>5, <1>6, <1>7, <1>8 DEF CellKept

\* The steps of OP_VALIDATE_INSERT preserve the invariant.
LEMMA InsertIInv ==
    ASSUME IInv,
           \/ \E p \in Payloads : child_validate_insert(p)
           \/ ApplyBegin \/ ApplyRow \/ ApplyDone
    PROVE  IInv'
<1>1. ASSUME NEW p \in Payloads, child_validate_insert(p) PROVE IInv'
    <2>1. /\ UNCHANGED <<tables, upload, batch, pos>> /\ command' = p
          /\ phase' \in {"idle", "accepted"} /\ outcome' \in {outcome, "error"}
        BY <1>1 DEF child_validate_insert
    <2>2. TypeInv' /\ TypeOK' /\ BatchFits' /\ Pending' /\ Unloaded'
        BY <2>1 DEF IInv, TypeInv, TypeOK, BatchFits, Pending, Unloaded
    <2> QED
        BY <2>1, <2>2, SameRowsKept DEF IInv
<1>2. CASE ApplyBegin
    <2>1. CASE ~(command.syntax /\ parse_batch_ok(command)
                   /\ validate_batch_rows(parse_batch(command)))
        <3>1. /\ UNCHANGED <<tables, upload, command, batch, pos>>
              /\ phase' = "idle" /\ outcome' = "error"
            BY <1>2, <2>1 DEF ApplyBegin
        <3>2. TypeInv' /\ TypeOK' /\ BatchFits' /\ Pending' /\ Unloaded'
            BY <3>1 DEF IInv, TypeInv, TypeOK, BatchFits, Pending, Unloaded
        <3> QED
            BY <3>1, <3>2, SameRowsKept DEF IInv
    <2>2. CASE /\ command.syntax /\ parse_batch_ok(command)
               /\ validate_batch_rows(parse_batch(command))
        <3> DEFINE b == parse_batch(command)
        <3>1. /\ UNCHANGED <<tables, upload, command, outcome>>
              /\ phase' = "apply" /\ batch' = b /\ pos' = 1 /\ command \in Payloads
            BY <1>2, <2>2 DEF ApplyBegin, IInv, TypeInv
        <3>2. /\ b \in Seq(BatchRow)
              /\ \A i \in 1..Len(b) : /\ b[i].table \in 1..Len(tables)
                                      /\ DOMAIN b[i].row = DOMAIN tables[b[i].table].columns
            BY <2>2, <3>1, ParseBatchType DEF IInv
        <3>3. \A i \in 1..Len(b) : row_ok(b, 1, i)
            BY <2>2, <3>2 DEF validate_batch_rows
        <3> HIDE DEF b
        <3>4. Len(b) \in Nat
            BY <3>2
        <3>5. TypeInv'
            BY <3>1, <3>2 DEF IInv, TypeInv
        <3>6. TypeOK'
            BY <3>1, <3>4 DEF IInv, TypeOK
        <3>7. BatchFits' /\ Unloaded'
            BY <3>1, <3>2 DEF BatchFits, Unloaded
        <3>8. Pending'
            <4> SUFFICES ASSUME NEW i \in 1..Len(b) PROVE row_ok(batch, pos, i)'
                BY <3>1 DEF Pending
            <4>1. PICK q : q = b
                OBVIOUS
            <4>2. row_ok(q, 1, i)'
                BY <3>1, <3>3, <4>1, SameRowOk
            <4>3. batch' = q /\ pos' = 1
                BY <3>1, <4>1
            <4> QED
                BY ZenonT(30), <4>2, <4>3 DEF row_ok, null_ok, unique_ok, reference_ok, value_exists
        <3> QED
            BY <3>1, <3>5, <3>6, <3>7, <3>8, SameRowsKept DEF IInv
    <2> QED
        BY <2>1, <2>2
<1>3. CASE ApplyRow
    <2>1. /\ phase = "apply" /\ pos \in 1..Len(batch) /\ Len(batch) \in Nat /\ pos' = pos + 1
          /\ phase' \in {"apply", "undefined"} /\ UNCHANGED <<upload, batch, command, outcome>>
          /\ tables' \in Seq(Table) /\ Len(tables') = Len(tables) /\ Len(tables) \in Nat
          /\ \A t \in 1..Len(tables) :
               /\ tables'[t].columns = tables[t].columns
               /\ t # batch[pos].table => tables'[t].rows = tables[t].rows
        BY <1>3, Appended
    <2>2. TypeInv' /\ BatchFits' /\ Unloaded'
        BY <2>1 DEF IInv, TypeInv, BatchFits, Unloaded
    <2>3. TypeOK'
        <3> SUFFICES ASSUME NEW t \in 1..Len(tables)
                     PROVE  /\ Len(tables'[t].columns) \in 1..MAX_COLUMNS
                            /\ \A i \in 1..Len(tables'[t].rows) :
                                 DOMAIN tables'[t].rows[i] = DOMAIN tables'[t].columns
            <4>1. /\ \A t \in 1..Len(tables) : DOMAIN tables'[t].rows = 1..Len(tables'[t].rows)
                  /\ DOMAIN tables' = 1..Len(tables')
                <5>1. \A t \in 1..Len(tables) : tables'[t] \in Table
                    BY <2>1, ElementOfSeq
                <5> QED
                    BY <2>1, <5>1 DEF Table
            <4>2. /\ Len(tables') <= MAX_TABLES /\ phase' \in {"apply", "undefined"}
                  /\ outcome' \in {"none", "ok", "error"}
                BY <2>1 DEF TypeOK, IInv
            <4>3. pos' \in 1..Len(batch') + 1
                BY <2>1
            <4> QED
                BY <2>1, <4>1, <4>2, <4>3 DEF TypeOK
        <3>1. /\ Len(tables[t].columns) \in 1..MAX_COLUMNS
              /\ \A i \in 1..Len(tables[t].rows) :
                   DOMAIN tables[t].rows[i] = DOMAIN tables[t].columns
            BY TableType DEF IInv, TypeOK
        <3>2. CASE t # batch[pos].table
            BY <2>1, <3>1, <3>2
        <3>3. CASE t = batch[pos].table
            <4>1. /\ GrowsBy(t, batch[pos].row)
                  /\ DOMAIN batch[pos].row = DOMAIN tables[t].columns
                BY <1>3, <3>3, Appended
            <4>2. /\ Len(tables[t].rows) \in Nat
                  /\ Len(tables'[t].rows) = Len(tables[t].rows) + 1
                  /\ \A i \in 1..Len(tables[t].rows) : tables'[t].rows[i] = tables[t].rows[i]
                  /\ tables'[t].rows[Len(tables[t].rows) + 1] = batch[pos].row
                BY <4>1 DEF GrowsBy
            <4>3. ASSUME NEW i \in 1..Len(tables'[t].rows)
                  PROVE  DOMAIN tables'[t].rows[i] = DOMAIN tables'[t].columns
                <5>1. i \in 1..Len(tables[t].rows) \/ i = Len(tables[t].rows) + 1
                    BY <4>2
                <5> QED
                    BY <2>1, <3>1, <4>1, <4>2, <5>1
            <4> QED
                BY <2>1, <3>1, <4>3
        <3> QED
            BY <3>2, <3>3
    <2> QED
        BY <1>3, <2>2, <2>3, StillPending, RowsStayKept DEF IInv
<1>4. CASE ApplyDone
    <2>1. /\ UNCHANGED <<tables, upload, command>> /\ phase' = "idle" /\ outcome' = "ok"
          /\ batch' = <<>> /\ pos' = 1
        BY <1>4 DEF ApplyDone
    <2>2. TypeInv' /\ BatchFits' /\ Pending' /\ Unloaded'
        BY <2>1 DEF IInv, TypeInv, BatchFits, Pending, Unloaded
    <2>3. TypeOK'
        <3>1. pos' \in 1..Len(batch') + 1
            BY <2>1
        <3> QED
            BY <2>1, <3>1 DEF IInv, TypeOK
    <2> QED
        BY <2>1, <2>2, <2>3, SameRowsKept DEF IInv
<1> QED
    BY <1>1, <1>2, <1>3, <1>4

\* The empty store of state_init.
LEMMA InitIInv == Init => IInv
<1> SUFFICES ASSUME Init PROVE IInv
    OBVIOUS
<1>1. TypeInv
    BY DEF Init, NoUpload, TypeInv
<1>2. TypeOK /\ BatchFits /\ Pending /\ Unloaded /\ RowsKept
    BY Limits DEF Init, TypeOK, BatchFits, Pending, Unloaded, RowsKept
<1> QED
    BY <1>1, <1>2 DEF IInv

\* IInv is an invariant.
LEMMA InvariantIInv == Spec => []IInv
<1>1. ASSUME IInv, [Next]_vars PROVE IInv'
    <2>1. CASE UNCHANGED vars
        <3>1. UNCHANGED <<tables, phase, upload, batch, pos, command, outcome>>
            BY <2>1 DEF vars
        <3>2. TypeInv' /\ TypeOK' /\ BatchFits' /\ Unloaded'
            BY <1>1, <3>1 DEF IInv, TypeInv, TypeOK, BatchFits, Unloaded
        <3>3. Pending'
            <4> SUFFICES ASSUME phase = "apply", NEW i \in pos..Len(batch)
                         PROVE  row_ok(batch, pos, i)'
                BY <3>1 DEF Pending
            <4>1. PICK q, lo : q = batch /\ lo = pos
                OBVIOUS
            <4>2. row_ok(q, lo, i)'
                BY <1>1, <3>1, <4>1, SameRowOk DEF IInv, Pending
            <4>3. batch' = q /\ pos' = lo
                BY <3>1, <4>1
            <4> QED
                BY ZenonT(30), <4>2, <4>3 DEF row_ok, null_ok, unique_ok, reference_ok, value_exists
        <3> QED
            BY <1>1, <3>1, <3>2, <3>3, SameRowsKept DEF IInv
    <2> QED
        BY <1>1, <2>1, LoadIInv, InsertIInv DEF Next
<1> QED
    BY <1>1, InitIInv, PTL DEF Spec

-----------------------------------------------------------------------------
(* A batch is applied whole.  Until the last row is copied the store is what *)
(* it was before the command, with the rows of the batch so far.             *)

StoreWith(b, n) ==
    [t \in DOMAIN before |-> [before[t] EXCEPT !.rows = @ \o RowsFor(SubSeq(b, 1, n), t)]]

AppliedInv ==
    /\ before \in Seq(Table)
    /\ phase \in {"load", "relations"} => "tuples" \notin DOMAIN command
    /\ phase = "accepted" => tables = before
    /\ phase = "apply" =>
         /\ command \in Payloads /\ parse_batch_ok(command)
         /\ batch = parse_batch(command) /\ tables = StoreWith(batch, pos - 1)
    /\ InsertAllOrNothing

\* A batch parsed twice is the same: copying a row changes no name.
LEMMA ParseStays ==
    ASSUME IInv, ApplyRow, NEW p \in Payloads, parse_batch_ok(p)
    PROVE  parse_batch(p)' = parse_batch(p)
<1>1. p.tuples \in Seq(Tuple)
    BY InputAssumption DEF InsertPayload, Tuple
<1>2. ASSUME NEW tuple \in Tuple, parse_insert_statement(tuple)
      PROVE  /\ find_table(tuple.table)' = find_table(tuple.table)
             /\ parse_row(tuple)' = parse_row(tuple)
    <2>1. PICK t \in 1..Len(tables) : t = find_table(tuple.table)
        BY <1>2, ColumnMapType DEF IInv
    <2>2. find_table(tuple.table)' = t
        BY <2>1, AppendedLookup
    <2>3. /\ tables'[t].columns = tables[t].columns
          /\ \A name : find_column(t, name)' = find_column(t, name)
        BY Appended, AppendedLookup
    <2>4. PICK map : map = column_map(tuple)
        OBVIOUS
    <2>5. column_map(tuple)' = map
        BY <2>1, <2>2, <2>3, <2>4 DEF column_map
    <2>6. parse_row(tuple)' = parse_row(tuple)
        BY <2>1, <2>2, <2>3, <2>4, <2>5 DEF parse_row
    <2> QED
        BY <2>1, <2>2, <2>6
<1>3. \A i \in DOMAIN p.tuples : p.tuples[i] \in Tuple /\ parse_insert_statement(p.tuples[i])
    BY <1>1, ElementOfSeq DEF parse_batch_ok
<1> QED
    BY <1>2, <1>3 DEF parse_batch

\* No rows yet; all of them.
LEMMA StoreWithNone ==
    ASSUME before \in Seq(Table), NEW b \in Seq(BatchRow)
    PROVE  StoreWith(b, 0) = before
<1>1. SubSeq(b, 1, 0) = <<>> /\ <<>> \in Seq(BatchRow)
    OBVIOUS
<1>2. ASSUME NEW t PROVE RowsFor(<<>>, t) = <<>>
    <2>1. Places(<<>>, t) = {}
        BY DEF Places
    <2>2. Cardinality(Places(<<>>, t)) = 0
        BY <2>1, FS_EmptySet
    <2>3. /\ RowsFor(<<>>, t) \in Seq(Seq(Value))
          /\ Len(RowsFor(<<>>, t)) = Cardinality(Places(<<>>, t))
        BY <1>1, RowsForIs
    <2> QED
        BY <2>2, <2>3
<1>3. ASSUME NEW t \in DOMAIN before
      PROVE  [before[t] EXCEPT !.rows = @ \o RowsFor(SubSeq(b, 1, 0), t)] = before[t]
    <2>1. before[t] \in Table
        BY ElementOfSeq
    <2>2. before[t].rows \o <<>> = before[t].rows
        BY <2>1 DEF Table
    <2> QED
        BY <1>1, <1>2, <2>1, <2>2 DEF Table
<1>4. before = [t \in DOMAIN before |-> before[t]]
    OBVIOUS
<1> QED
    BY <1>3, <1>4 DEF StoreWith

\* One row more of a batch.
LEMMA PrefixGrows ==
    ASSUME NEW b \in Seq(BatchRow), NEW n \in 1..Len(b), NEW t
    PROVE  /\ RowsFor(SubSeq(b, 1, n - 1), t) \in Seq(Seq(Value)) /\ b[n] \in BatchRow
           /\ RowsFor(SubSeq(b, 1, n), t) =
                IF b[n].table = t THEN Append(RowsFor(SubSeq(b, 1, n - 1), t), b[n].row)
                ELSE RowsFor(SubSeq(b, 1, n - 1), t)
<1>1. n - 1 \in Nat /\ n \in Nat /\ Len(b) \in Nat
    OBVIOUS
<1>2. PICK c \in Seq(BatchRow) : c = SubSeq(b, 1, n - 1)
    <2>1. PICK k : k = n - 1
        OBVIOUS
    <2>2. SubSeq(b, 1, k) \in Seq(BatchRow)
        <3>1. \A i \in 1..k : i \in 1..Len(b) /\ b[i] \in BatchRow
            BY <1>1, <2>1, ElementOfSeq
        <3> QED
            BY <1>1, <2>1, <3>1
    <2> QED
        BY <2>1, <2>2
<1>3. PICK e \in BatchRow : e = b[n]
    BY ElementOfSeq
<1>4. SubSeq(b, 1, n) = Append(c, e)
    BY <1>1, <1>2, <1>3
<1>5. RowsFor(c, t) \in Seq(Seq(Value))
    BY RowsForIs
<1>6. RowsFor(Append(c, e), t) =
        IF e.table = t THEN Append(RowsFor(c, t), e.row) ELSE RowsFor(c, t)
    BY RowsForAppend
<1> QED
    BY <1>2, <1>3, <1>4, <1>5, <1>6

\* apply_insert_batch copies the rows in their order.
LEMMA RowCopied ==
    ASSUME IInv, AppliedInv, ApplyRow
    PROVE  tables' = StoreWith(batch, pos)
<1>1. /\ phase = "apply" /\ pos \in 1..Len(batch) /\ batch \in Seq(BatchRow)
      /\ tables = StoreWith(batch, pos - 1) /\ before \in Seq(Table) /\ tables \in Seq(Table)
    BY Appended DEF IInv, TypeInv, AppliedInv
<1>2. PICK T, R : T = batch[pos].table /\ R = batch[pos].row
    OBVIOUS
<1>3. tables' = [tables EXCEPT ![T].rows = Append(@, R)] /\ T \in 1..Len(tables)
      /\ R \in Seq(Value)
    BY <1>2, Appended DEF ApplyRow
<1>4. DOMAIN tables = DOMAIN before /\ T \in DOMAIN before /\ DOMAIN before = 1..Len(before)
    <2>1. DOMAIN tables = DOMAIN before
        BY <1>1 DEF StoreWith
    <2>2. DOMAIN tables = 1..Len(tables) /\ DOMAIN before = 1..Len(before)
        BY <1>1
    <2> QED
        BY <1>3, <2>1, <2>2
<1>5. ASSUME NEW t \in DOMAIN before
      PROVE  tables'[t] = [before[t] EXCEPT !.rows = @ \o RowsFor(SubSeq(batch, 1, pos), t)]
    <2>1. PICK old \in Table : old = before[t]
        BY <1>1, <1>4, ElementOfSeq
    <2>2. old.rows \in Seq(Seq(Value))
        BY DEF Table
    <2>3. PICK r, new :
            /\ r = RowsFor(SubSeq(batch, 1, pos - 1), t) /\ r \in Seq(Seq(Value))
            /\ new = RowsFor(SubSeq(batch, 1, pos), t)
            /\ new = IF T = t THEN Append(r, R) ELSE r
        BY <1>1, <1>2, PrefixGrows
    <2>4. tables[t] = [old EXCEPT !.rows = @ \o r]
        BY <1>1, <2>1, <2>3 DEF StoreWith
    <2>5. CASE t # T
        BY <1>3, <1>4, <2>1, <2>3, <2>4, <2>5
    <2>6. CASE t = T
        <3>1. tables'[t] = [tables[t] EXCEPT !.rows = Append(@, R)]
            BY <1>3, <1>4, <2>6
        <3>2. tables[t].rows = old.rows \o r
            <4>1. PICK x : x = old.rows \o r
                OBVIOUS
            <4>2. tables[t] = [old EXCEPT !.rows = x]
                BY <2>4, <4>1
            <4>3. [old EXCEPT !.rows = x].rows = x
                BY DEF Table
            <4> QED
                BY <4>1, <4>2, <4>3
        <3>3. Append(old.rows \o r, R) = old.rows \o Append(r, R)
            <4>1. PICK S : S = Seq(Value)
                OBVIOUS
            <4>2. old.rows \in Seq(S) /\ r \in Seq(S) /\ R \in S
                BY <1>3, <2>2, <2>3, <4>1
            <4>3. PICK a \in Seq(S) : a = old.rows
                BY <4>2
            <4>4. Append(a \o r, R) = a \o Append(r, R)
                <5>1. a \in Seq(S) /\ r \in Seq(S) /\ R \in S
                    BY <4>2
                <5>2. <<R>> \in Seq(S) /\ Append(a \o r, R) = (a \o r) \o <<R>>
                      /\ Append(r, R) = r \o <<R>>
                    BY <5>1, AppendIsConcat
                <5>3. (a \o r) \o <<R>> = a \o (r \o <<R>>)
                    BY <5>1, <5>2, ConcatAssociative
                <5> QED
                    BY <5>2, <5>3
            <4> QED
                BY <4>3, <4>4
        <3>4. tables'[t] = [old EXCEPT !.rows = old.rows \o Append(r, R)]
            BY <2>4, <3>1, <3>2, <3>3 DEF Table
        <3> QED
            BY <2>1, <2>3, <2>6, <3>4
    <2> QED
        BY <2>5, <2>6
<1>6. tables' = [t \in DOMAIN before |-> tables'[t]]
    <2>1. tables' = [t \in DOMAIN tables |-> tables'[t]]
        BY <1>3
    <2> QED
        BY <1>4, <2>1
<1> QED
    BY <1>5, <1>6 DEF StoreWith

\* So a batch is applied whole or not at all.
LEMMA StepAppliedInv ==
    ASSUME IInv, IInv', AppliedInv, [Next]_vars
    PROVE  AppliedInv'
<1>1. CASE UNCHANGED vars
    <2>1. UNCHANGED <<tables, phase, batch, pos, command, before, outcome>>
        BY <1>1 DEF vars
    <2>2. parse_batch_ok(command)' <=> parse_batch_ok(command)
        BY <2>1 DEF parse_batch_ok, parse_insert_statement, column_map, find_table, find_column
    <2>3. parse_batch(command)' = parse_batch(command)
        BY <2>1 DEF parse_batch, parse_row, column_map, find_table, find_column
    <2>4. StoreWith(batch, pos - 1)' = StoreWith(batch, pos - 1)
        BY <2>1 DEF StoreWith
    <2>5. InsertAllOrNothing'
        <3>1. InsertAllOrNothing
            BY DEF AppliedInv
        <3> QED
            BY <2>1, <2>3, <3>1 DEF InsertAllOrNothing
    <2> QED
        BY <2>1, <2>2, <2>3, <2>4, <2>5 DEF AppliedInv
<1>2. CASE LoadRefused
    <2>1. /\ UNCHANGED <<tables, phase, batch, pos>> /\ phase = "idle" /\ before' = tables
          /\ command' = NoUpload
        BY <1>2 DEF LoadRefused
    <2>2. "tuples" \notin DOMAIN command'
        BY <2>1 DEF NoUpload
    <2> QED
        BY <2>1, <2>2 DEF AppliedInv, InsertAllOrNothing, IInv, TypeInv
<1>3. ASSUME NEW u \in Uploads, LoadBegin(u) PROVE AppliedInv'
    <2>1. phase' = "load" /\ before' = tables /\ command' = u
        BY <1>3 DEF LoadBegin
    <2>2. "tuples" \notin DOMAIN command'
        BY <2>1, InputAssumption DEF ErFile
    <2> QED
        BY <2>1, <2>2 DEF AppliedInv, InsertAllOrNothing, IInv, TypeInv
<1>4. CASE LoadTable \/ LoadTableBad \/ LoadTablesDone \/ LoadRelation \/ LoadDone
    <2>1. /\ phase \in {"load", "relations"} /\ phase' \in {"load", "relations", "idle"}
          /\ command' = command /\ before' = before
        BY <1>4 DEF LoadTable, LoadTableBad, LoadTablesDone, LoadRelation, LoadDone
    <2> QED
        BY <2>1 DEF AppliedInv, InsertAllOrNothing
<1>5. ASSUME NEW p \in Payloads, child_validate_insert(p) PROVE AppliedInv'
    <2>1. /\ tables' = tables /\ before' = tables
          /\ phase' = "accepted" \/ (phase' = "idle" /\ outcome' = "error")
        BY <1>5 DEF child_validate_insert
    <2> QED
        BY <2>1 DEF AppliedInv, InsertAllOrNothing, IInv, TypeInv
<1>6. CASE ApplyBegin
    <2>1. /\ tables' = tables /\ before' = before /\ command' = command /\ tables = before
          /\ command \in Payloads /\ before \in Seq(Table)
        BY <1>6 DEF ApplyBegin, AppliedInv, IInv, TypeInv
    <2>2. CASE phase' = "idle" /\ outcome' = "error"
        BY <2>1, <2>2 DEF AppliedInv, InsertAllOrNothing
    <2>3. CASE /\ phase' = "apply" /\ batch' = parse_batch(command) /\ pos' = 1
               /\ parse_batch_ok(command)
        <3>1. batch' \in Seq(BatchRow)
            BY <2>1, <2>3, ParseBatchType DEF IInv
        <3>2. PICK b \in Seq(BatchRow) : b = batch'
            BY <3>1
        <3>3. StoreWith(b, 0)' = StoreWith(b, 0)
            BY <2>1 DEF StoreWith
        <3>4. tables' = StoreWith(b, 0)'
            BY <2>1, <3>3, StoreWithNone
        <3>5. tables' = StoreWith(batch, pos - 1)'
            <4>1. pos' - 1 = 0
                BY <2>3
            <4>2. StoreWith(batch, pos - 1)' = StoreWith(b, 0)'
                BY <3>2, <4>1 DEF StoreWith
            <4> QED
                BY <3>4, <4>2
        <3>6. parse_batch_ok(command)'
            BY <2>1, <2>3 DEF parse_batch_ok, parse_insert_statement, column_map, find_table,
                              find_column
        <3>7. parse_batch(command)' = parse_batch(command)
            BY <2>1 DEF parse_batch, parse_row, column_map, find_table, find_column
        <3> QED
            BY <2>1, <2>3, <3>5, <3>6, <3>7 DEF AppliedInv, InsertAllOrNothing
    <2> QED
        BY <1>6, <2>2, <2>3 DEF ApplyBegin
<1>7. CASE ApplyRow
    <2>1. /\ phase = "apply" /\ phase' \in {"apply", "undefined"} /\ batch' = batch
          /\ command' = command /\ before' = before /\ pos' = pos + 1 /\ pos \in Nat
        BY <1>7, Appended DEF ApplyRow
    <2>2. /\ command \in Payloads /\ parse_batch_ok(command) /\ before \in Seq(Table)
          /\ batch = parse_batch(command)
        BY <2>1 DEF AppliedInv
    <2>3. PICK p \in Payloads : p = command
        BY <2>2
    <2>4. parse_batch(p)' = parse_batch(p)
        BY <1>7, <2>2, <2>3, ParseStays
    <2>5. parse_batch_ok(p)'
        <3>1. p.tuples \in Seq(Tuple)
            BY InputAssumption DEF InsertPayload, Tuple
        <3>2. ASSUME NEW tuple \in Tuple, parse_insert_statement(tuple)
              PROVE  parse_insert_statement(tuple)'
            <4>1. PICK t \in 1..Len(tables) : t = find_table(tuple.table)
                BY <3>2, ColumnMapType DEF IInv
            <4>2. find_table(tuple.table)' = t
                BY <1>7, <4>1, AppendedLookup
            <4>3. /\ tables'[t].columns = tables[t].columns
                  /\ \A name : find_column(t, name)' = find_column(t, name)
                BY <1>7, Appended, AppendedLookup
            <4>4. column_map(tuple)' = column_map(tuple)
                BY <4>1, <4>2, <4>3 DEF column_map
            <4> QED
                BY <3>2, <4>1, <4>2, <4>3, <4>4 DEF parse_insert_statement
        <3>3. \A i \in DOMAIN p.tuples :
                p.tuples[i] \in Tuple /\ parse_insert_statement(p.tuples[i])
            BY <2>2, <2>3, <3>1, ElementOfSeq DEF parse_batch_ok
        <3> QED
            BY <2>2, <2>3, <3>2, <3>3 DEF parse_batch_ok
    <2>6. tables' = StoreWith(batch, pos)
        BY <1>7, RowCopied
    <2>7. pos' - 1 = pos
        BY <2>1
    <2>8. tables' = StoreWith(batch, pos - 1)'
        BY <2>1, <2>6, <2>7 DEF StoreWith
    <2>9. parse_batch(command)' = parse_batch(command) /\ parse_batch_ok(command)'
        BY <2>1, <2>3, <2>4, <2>5 DEF parse_batch, parse_batch_ok
    <2> QED
        BY <2>1, <2>2, <2>8, <2>9 DEF AppliedInv, InsertAllOrNothing
<1>8. CASE ApplyDone
    <2>1. /\ phase = "apply" /\ phase' = "idle" /\ outcome' = "ok" /\ tables' = tables
          /\ command' = command /\ before' = before /\ ~(pos <= Len(batch))
          /\ pos \in 1..Len(batch) + 1 /\ batch \in Seq(BatchRow)
        BY <1>8 DEF ApplyDone, rows_left, IInv, TypeInv, TypeOK
    <2>2. pos - 1 = Len(batch)
        BY <2>1
    <2>3. SubSeq(batch, 1, Len(batch)) = batch
        BY <2>1, SubSeqFull
    <2>4. parse_batch(command)' = batch /\ tables = StoreWith(batch, Len(batch))
          /\ before \in Seq(Table)
        <3>1. batch = parse_batch(command)
            BY <2>1 DEF AppliedInv
        <3>2. parse_batch(command)' = parse_batch(command)
            BY <2>1 DEF parse_batch, parse_row, column_map, find_table, find_column
        <3> QED
            BY <2>1, <2>2, <3>1, <3>2 DEF AppliedInv
    <2>5. tables' = [t \in DOMAIN before' |->
                       [before'[t] EXCEPT !.rows = @ \o RowsFor(parse_batch(command)', t)]]
        BY <2>1, <2>3, <2>4 DEF StoreWith
    <2> QED
        BY <2>1, <2>4, <2>5 DEF AppliedInv, InsertAllOrNothing
<1> QED
    BY <1>1, <1>2, <1>3, <1>4, <1>5, <1>6, <1>7, <1>8 DEF Next

-----------------------------------------------------------------------------
(* The validator and the clauses.  After the first k rows of a batch a table holds  *)
(* its old rows and then, in order, those of the batch that are for it.      *)

Batch(b) == b \in Seq(BatchRow) /\ \A i \in 1..Len(b) : b[i].table \in 1..Len(tables)
RowsAfter(b, k, t) == StoreAfter(SubSeq(b, 1, k))[t].rows
Spot(b, t, i) == Len(tables[t].rows) + Rank(Places(b, t), i)

\* Later rows of a batch come later in their table.
LEMMA SpotOrder ==
    ASSUME TypeInv, NEW b, Batch(b), NEW t \in 1..Len(tables), NEW i \in 1..Len(b), b[i].table = t
    PROVE  /\ Spot(b, t, i) \in Nat /\ Spot(b, t, i) > Len(tables[t].rows)
           /\ \A j \in 1..Len(b) : b[j].table = t /\ j < i => Spot(b, t, j) < Spot(b, t, i)
<1>1. PICK n \in Nat : n = Len(tables[t].rows)
    BY TableType
<1>0. PICK len \in Nat : len = Len(b) /\ DOMAIN b = 1..len
    BY DEF Batch
<1>2. PICK P \in SUBSET (1..len) : P = Places(b, t) /\ P = {j \in 1..len : b[j].table = t}
    BY <1>0 DEF Places
<1>3. ASSUME NEW j \in P PROVE Rank(P, j) \in Nat /\ Rank(P, j) > 0
    <2>1. Cardinality(P) \in Nat /\ Rank(P, j) \in 1..Cardinality(P)
        BY RankType
    <2> QED
        BY <2>1
<1>4. i \in P
    BY <1>0, <1>2
<1>5. \A j \in P : j < i => Rank(P, j) < Rank(P, i)
    BY <1>4, RankType
<1>6. ASSUME NEW j \in P PROVE Spot(b, t, j) = n + Rank(P, j)
    BY <1>1, <1>2 DEF Spot
<1>7. PICK a \in Nat : a = Rank(P, i) /\ a > 0
    BY <1>3, <1>4
<1>8. ASSUME NEW j \in 1..Len(b), b[j].table = t, j < i PROVE Spot(b, t, j) < Spot(b, t, i)
    <2>1. j \in P
        BY <1>0, <1>2, <1>8
    <2>2. PICK x \in Nat : x = Rank(P, j)
        BY <1>3, <2>1
    <2>3. x < a
        BY <1>5, <1>7, <1>8, <2>1, <2>2
    <2>4. Spot(b, t, j) = n + x /\ Spot(b, t, i) = n + a
        BY <1>4, <1>6, <1>7, <2>1, <2>2
    <2> QED
        BY <2>3, <2>4
<1>9. Spot(b, t, i) = n + a
    BY <1>4, <1>6, <1>7
<1> QED
    BY <1>1, <1>7, <1>8, <1>9

\* What a table holds after k rows of a batch.
LEMMA RowsAfterIs ==
    ASSUME TypeInv, NEW b, Batch(b), NEW k \in 1..Len(b), NEW t \in 1..Len(tables)
    PROVE  /\ DOMAIN RowsAfter(b, k, t) \subseteq Nat
           /\ \A q \in 1..Len(tables[t].rows) :
                q \in DOMAIN RowsAfter(b, k, t) /\ RowsAfter(b, k, t)[q] = tables[t].rows[q]
           /\ \A i \in 1..k : b[i].table = t =>
                /\ Spot(b, t, i) \in DOMAIN RowsAfter(b, k, t)
                /\ RowsAfter(b, k, t)[Spot(b, t, i)] = b[i].row
           /\ \A q \in DOMAIN RowsAfter(b, k, t) :
                \/ q \in 1..Len(tables[t].rows)
                \/ \E i \in 1..k : b[i].table = t /\ q = Spot(b, t, i)
<1>1. PICK len \in Nat : len = Len(b) /\ k \in 1..len
    BY DEF Batch
<1>2. PICK c \in Seq(BatchRow) :
        c = SubSeq(b, 1, k) /\ Len(c) = k /\ \A i \in 1..k : c[i] = b[i]
    <2>1. b \in Seq(BatchRow)
        BY DEF Batch
    <2>2. \A i \in 1..k : i \in 1..Len(b) /\ b[i] \in BatchRow
        BY <1>1, <2>1, ElementOfSeq
    <2>3. SubSeq(b, 1, k) \in Seq(BatchRow)
        BY <1>1, <2>1, <2>2
    <2>4. Len(SubSeq(b, 1, k)) = k /\ \A i \in 1..k : SubSeq(b, 1, k)[i] = b[i]
        <3>1. k \in Nat
            BY <1>1
        <3> QED
            BY <1>1, <2>1, <3>1
    <2> QED
        BY <2>3, <2>4
<1>3. PICK P : P = Places(c, t) /\ P = {i \in 1..k : b[i].table = t}
    <2>1. DOMAIN c = 1..k
        BY <1>1, <1>2
    <2> QED
        BY <1>2, <2>1 DEF Places
<1>4. ASSUME NEW i \in P PROVE Rank(Places(b, t), i) = Rank(P, i)
    <2>1. DOMAIN b = 1..len
        BY <1>1 DEF Batch
    <2>2. {j \in P : j <= i} = {j \in Places(b, t) : j <= i}
        BY <1>1, <1>3, <2>1 DEF Places
    <2> QED
        BY <2>2 DEF Rank
<1>5. PICK old \in Seq(Seq(Value)), n \in Nat : old = tables[t].rows /\ n = Len(old)
    BY TableType DEF Table
<1>6. PICK r \in Seq(Seq(Value)), m \in Nat :
        /\ r = RowsFor(c, t) /\ m = Len(r)
        /\ \A i \in P : Rank(P, i) \in 1..m /\ r[Rank(P, i)] = b[i].row
        /\ \A x \in 1..m : \E i \in P : Rank(P, i) = x
    <2>1. /\ RowsFor(c, t) \in Seq(Seq(Value)) /\ Len(RowsFor(c, t)) \in Nat
          /\ \A i \in Places(c, t) :
               /\ Rank(Places(c, t), i) \in 1..Len(RowsFor(c, t))
               /\ RowsFor(c, t)[Rank(Places(c, t), i)] = c[i].row
          /\ Len(RowsFor(c, t)) = Cardinality(Places(c, t))
        BY RowsForIs
    <2>2. PICK r \in Seq(Seq(Value)), m \in Nat : r = RowsFor(c, t) /\ m = Len(r)
        BY <2>1
    <2>3. \A i \in P : Rank(P, i) \in 1..m /\ r[Rank(P, i)] = b[i].row
        <3>1. \A i \in P : c[i] = b[i]
            BY <1>2, <1>3
        <3> QED
            BY <1>3, <2>1, <2>2, <3>1
    <2>4. ASSUME NEW x \in 1..m PROVE \E i \in P : Rank(P, i) = x
        <3>1. P \in SUBSET (1..k) /\ k \in Nat
            BY <1>1, <1>3
        <3>2. x \in 1..Cardinality(P)
            <4>1. Cardinality(P) = m
                BY <1>3, <2>1, <2>2
            <4> QED
                BY <4>1
        <3>3. Nth(P, x) \in P /\ Rank(P, Nth(P, x)) = x
            BY <3>1, <3>2, NthIs
        <3> QED
            BY <3>3
    <2> QED
        BY <2>2, <2>3, <2>4
<1>7. PICK new : new = RowsAfter(b, k, t) /\ new = old \o r
    <2>1. tables[t] \in Table /\ t \in DOMAIN tables
        BY TableType
    <2>2. RowsAfter(b, k, t) = [tables[t] EXCEPT !.rows = old \o r].rows
        BY <1>2, <1>5, <1>6, <2>1 DEF RowsAfter, StoreAfter
    <2>3. PICK x : x = old \o r
        OBVIOUS
    <2>4. [tables[t] EXCEPT !.rows = x].rows = x
        BY <2>1 DEF Table
    <2> QED
        BY <2>2, <2>3, <2>4
<1>8. /\ DOMAIN new = 1..n + m
      /\ \A x \in 1..n + m : new[x] = IF x <= n THEN old[x] ELSE r[x - n]
    <2>1. /\ old \o r \in Seq(Seq(Value)) /\ Len(old \o r) = Len(old) + Len(r)
          /\ \A x \in 1..Len(old) + Len(r) :
               (old \o r)[x] = IF x <= Len(old) THEN old[x] ELSE r[x - Len(old)]
        BY <1>5, <1>6, ConcatProperties
    <2>2. DOMAIN (old \o r) = 1..Len(old \o r)
        BY <2>1
    <2> QED
        BY <1>5, <1>6, <1>7, <2>1, <2>2
<1>9. \A q \in 1..n : q \in DOMAIN new /\ new[q] = old[q]
    BY <1>8
<1>10. ASSUME NEW i \in P PROVE Spot(b, t, i) \in DOMAIN new /\ new[Spot(b, t, i)] = b[i].row
    <2>1. PICK x \in 1..m : x = Rank(P, i) /\ r[x] = b[i].row
        BY <1>6
    <2>2. n + x \in 1..n + m /\ ~(n + x <= n) /\ (n + x) - n = x
        OBVIOUS
    <2>3. Spot(b, t, i) = n + x
        BY <1>4, <1>5, <2>1 DEF Spot
    <2>4. new[n + x] = r[x]
        BY <1>8, <2>2
    <2> QED
        BY <1>8, <2>1, <2>2, <2>3, <2>4
<1>11. ASSUME NEW q \in DOMAIN new, q \notin 1..n
       PROVE  \E i \in P : q = Spot(b, t, i)
    <2>1. q - n \in 1..m /\ n + (q - n) = q
        BY <1>8, <1>11
    <2>2. PICK i \in P : Rank(P, i) = q - n
        BY <1>6, <2>1
    <2>3. Spot(b, t, i) = n + (q - n)
        BY <1>4, <1>5, <2>2 DEF Spot
    <2> QED
        BY <2>1, <2>3
<1>12. DOMAIN new \subseteq Nat
    BY <1>8
<1> QED
    BY <1>3, <1>5, <1>7, <1>9, <1>10, <1>11, <1>12


\* The clauses that are printed are those of the columns.
LEMMA ClausesAre ==
    ASSUME TypeInv, NEW t \in 1..Len(tables), NEW c \in 1..Len(tables[t].columns)
    PROVE  /\ generate_sql[t].columns[c].ref = tables[t].columns[c].ref
           /\ Declared(t, c, {"PRIMARY KEY", "NOT NULL"}) <=>
                tables[t].columns[c].primary_key \/ tables[t].columns[c].not_null
           /\ Declared(t, c, {"PRIMARY KEY", "UNIQUE"}) <=>
                tables[t].columns[c].primary_key \/ tables[t].columns[c].unique
           /\ Declared(t, c, {"REFERENCES"}) <=> tables[t].columns[c].ref.table # ""
<1>1. /\ t \in DOMAIN tables /\ c \in DOMAIN tables[t].columns
      /\ tables[t].columns[c] \in Column
    BY TableType
<1>2. /\ generate_sql[t].columns[c].ref = tables[t].columns[c].ref
      /\ generate_sql[t].columns[c].clauses = clauses(tables[t].columns[c])
    BY <1>1 DEF generate_sql
<1>3. PICK col \in Column : col = tables[t].columns[c]
    BY <1>1
<1>4. /\ "PRIMARY KEY" \in clauses(col) <=> col.primary_key
      /\ "NOT NULL" \in clauses(col) <=> col.not_null /\ ~col.primary_key
      /\ "UNIQUE" \in clauses(col) <=> col.unique /\ ~col.primary_key
      /\ "REFERENCES" \in clauses(col) <=> col.ref.table # ""
    BY DEF clauses, Column
<1>5. PICK K : K = clauses(col) /\ \A kinds : Declared(t, c, kinds) <=> K \intersect kinds # {}
    BY <1>2, <1>3 DEF Declared
<1>6. Declared(t, c, {"PRIMARY KEY", "NOT NULL"}) <=> col.primary_key \/ col.not_null
    <2>1. Declared(t, c, {"PRIMARY KEY", "NOT NULL"}) <=>
            K \intersect {"PRIMARY KEY", "NOT NULL"} # {}
        BY <1>5
    <2>2. K \intersect {"PRIMARY KEY", "NOT NULL"} # {} <=>
            ("PRIMARY KEY" \in K \/ "NOT NULL" \in K)
        OBVIOUS
    <2>3. ("PRIMARY KEY" \in K \/ "NOT NULL" \in K) <=> col.primary_key \/ col.not_null
        BY <1>4, <1>5
    <2> QED
        BY <2>1, <2>2, <2>3
<1>7. Declared(t, c, {"PRIMARY KEY", "UNIQUE"}) <=> col.primary_key \/ col.unique
    <2>1. Declared(t, c, {"PRIMARY KEY", "UNIQUE"}) <=> K \intersect {"PRIMARY KEY", "UNIQUE"} # {}
        BY <1>5
    <2>2. K \intersect {"PRIMARY KEY", "UNIQUE"} # {} <=> ("PRIMARY KEY" \in K \/ "UNIQUE" \in K)
        OBVIOUS
    <2>3. ("PRIMARY KEY" \in K \/ "UNIQUE" \in K) <=> col.primary_key \/ col.unique
        BY <1>4, <1>5
    <2> QED
        BY <2>1, <2>2, <2>3
<1>8. Declared(t, c, {"REFERENCES"}) <=> col.ref.table # ""
    <2>1. Declared(t, c, {"REFERENCES"}) <=> K \intersect {"REFERENCES"} # {}
        BY <1>5
    <2>2. K \intersect {"REFERENCES"} # {} <=> "REFERENCES" \in K
        OBVIOUS
    <2> QED
        BY <1>4, <1>5, <2>1, <2>2
<1> QED
    BY <1>2, <1>3, <1>6, <1>7, <1>8

\* One cell of a store of these tables, like CellKept.
CellIn(ts, t, c, q) ==
    LET col == tables[t].columns[c]
        v == ts[t].rows[q][c]
        rt == find_table(col.ref.table)
        rc == find_column(rt, col.ref.column)
    IN  /\ col.primary_key \/ col.not_null => v # NULL
        /\ (col.primary_key \/ col.unique) /\ v # NULL =>
             \A j \in DOMAIN ts[t].rows : j # q => ts[t].rows[j][c] # v
        /\ col.ref.table # "" /\ v # NULL =>
             rt # 0 /\ rc # 0 /\ \E j \in DOMAIN ts[rt].rows : ts[rt].rows[j][rc] = v

CellsIn(ts) ==
    \A t \in 1..Len(tables) : \A c \in 1..Len(tables[t].columns) :
        \A q \in DOMAIN ts[t].rows : CellIn(ts, t, c, q)

\* The clauses hold of a store if they hold of its cells.
LEMMA SqlIsCells ==
    ASSUME TypeInv, NEW ts
    PROVE  SqlIn(ts) <=> CellsIn(ts)
<1>3. /\ DOMAIN tables = 1..Len(tables)
      /\ \A t \in 1..Len(tables) : DOMAIN tables[t].columns = 1..Len(tables[t].columns)
    <2>1. DOMAIN tables = 1..Len(tables)
        BY DEF TypeInv
    <2> QED
        BY <2>1, TableType
<1> DEFINE A(t, c) == \A q \in DOMAIN ts[t].rows : ts[t].rows[q][c] # NULL
           B(t, c) == \A i, j \in DOMAIN ts[t].rows :
                        i # j /\ ts[t].rows[i][c] # NULL => ts[t].rows[i][c] # ts[t].rows[j][c]
           C(t, c, ref) ==
              LET rt == find_table(ref.table)
                  rc == find_column(rt, ref.column)
              IN  \A i \in DOMAIN ts[t].rows :
                    ts[t].rows[i][c] # NULL =>
                      /\ rt # 0 /\ rc # 0
                      /\ \E j \in DOMAIN ts[rt].rows : ts[rt].rows[j][rc] = ts[t].rows[i][c]
<1>4. NotNullIn(ts) <=>
        \A t \in 1..Len(tables) : \A c \in 1..Len(tables[t].columns) :
            tables[t].columns[c].primary_key \/ tables[t].columns[c].not_null => A(t, c)
    BY ZenonT(30), <1>3, ClausesAre DEF NotNullIn
<1>5. UniqueIn(ts) <=>
        \A t \in 1..Len(tables) : \A c \in 1..Len(tables[t].columns) :
            tables[t].columns[c].primary_key \/ tables[t].columns[c].unique => B(t, c)
    BY ZenonT(30), <1>3, ClausesAre DEF UniqueIn
<1>6. ReferencesIn(ts) <=>
        \A t \in 1..Len(tables) : \A c \in 1..Len(tables[t].columns) :
            tables[t].columns[c].ref.table # "" => C(t, c, tables[t].columns[c].ref)
    <2>1. ReferencesIn(ts) <=>
            \A t \in DOMAIN tables : \A c \in DOMAIN tables[t].columns :
                Declared(t, c, {"REFERENCES"}) => C(t, c, generate_sql[t].columns[c].ref)
        BY DEF ReferencesIn
    <2> HIDE DEF C
    <2> QED
        BY <1>3, <2>1, ClausesAre
<1>7. ASSUME NEW t \in 1..Len(tables), NEW c \in 1..Len(tables[t].columns)
      PROVE  (\A q \in DOMAIN ts[t].rows : CellIn(ts, t, c, q)) <=>
             /\ tables[t].columns[c].primary_key \/ tables[t].columns[c].not_null => A(t, c)
             /\ tables[t].columns[c].primary_key \/ tables[t].columns[c].unique => B(t, c)
             /\ tables[t].columns[c].ref.table # "" => C(t, c, tables[t].columns[c].ref)
    <2>1. PICK col, rows : col = tables[t].columns[c] /\ rows = ts[t].rows
        OBVIOUS
    <2> DEFINE X == col.primary_key \/ col.not_null
               Y == col.primary_key \/ col.unique
               Z == col.ref.table # ""
               a(q) == rows[q][c] # NULL
               u(q) == rows[q][c] # NULL =>
                         \A j \in DOMAIN rows : j # q => rows[j][c] # rows[q][c]
               r(q) == LET rt == find_table(col.ref.table)
                           rc == find_column(rt, col.ref.column)
                       IN  rows[q][c] # NULL =>
                             /\ rt # 0 /\ rc # 0
                             /\ \E j \in DOMAIN ts[rt].rows : ts[rt].rows[j][rc] = rows[q][c]
    <2>2. \A q : CellIn(ts, t, c, q) <=> (X => a(q)) /\ (Y => u(q)) /\ (Z => r(q))
        BY <2>1 DEF CellIn
    <2>3. A(t, c) <=> \A q \in DOMAIN rows : a(q)
        BY <2>1
    <2>4. B(t, c) <=> \A q \in DOMAIN rows : u(q)
        BY <2>1
    <2>5. C(t, c, col.ref) <=> \A q \in DOMAIN rows : r(q)
        BY <2>1
    <2> HIDE DEF A, B, C, a, u, r
    <2>6. (\A q \in DOMAIN rows : CellIn(ts, t, c, q)) <=>
            (X => A(t, c)) /\ (Y => B(t, c)) /\ (Z => C(t, c, col.ref))
        <3> HIDE DEF X, Y, Z
        <3> QED
            BY <2>2, <2>3, <2>4, <2>5
    <2> QED
        BY <2>1, <2>6
<1> HIDE DEF A, B, C
<1> QED
    BY <1>4, <1>5, <1>6, <1>7 DEF SqlIn, CellsIn


\* The tests of one value v of row i, in terms of its column.
TestsPassed(b, i, t, c, v) ==
    LET col == tables[t].columns[c]
        rt == find_table(col.ref.table)
        rc == find_column(rt, col.ref.column)
    IN  /\ col.primary_key \/ col.not_null => v # NULL
        /\ (col.primary_key \/ col.unique) /\ v # NULL => ~value_exists(b, 1, i - 1, t, c, v)
        /\ col.ref.table # "" /\ v # NULL =>
             rt # 0 /\ rc # 0 /\ value_exists(b, 1, i - 1, rt, rc, v)

\* They are those of row_ok.
LEMMA RowTests ==
    ASSUME NEW b, NEW i
    PROVE  row_ok(b, 1, i) <=> \A c \in DOMAIN tables[b[i].table].columns :
                                   TestsPassed(b, i, b[i].table, c, b[i].row[c])
<1>1. ASSUME NEW c
      PROVE  null_ok(b, i, c) /\ unique_ok(b, 1, i, c) /\ reference_ok(b, 1, i, c) <=>
             TestsPassed(b, i, b[i].table, c, b[i].row[c])
    BY DEF TestsPassed, null_ok, unique_ok, reference_ok
<1> QED
    BY <1>1 DEF row_ok

\* A batch that passes the tests leaves, after every row, a store that satisfies
\* the clauses.
LEMMA AcceptedHolds ==
    ASSUME IInv, NEW b, Batch(b), NEW k \in 1..Len(b), \A i \in 1..Len(b) : row_ok(b, 1, i)
    PROVE  CellsIn(StoreAfter(SubSeq(b, 1, k)))
<1>1. PICK ts : ts = StoreAfter(SubSeq(b, 1, k))
    OBVIOUS
<1>2. TypeInv /\ \A t : RowsAfter(b, k, t) = ts[t].rows
    BY <1>1 DEF RowsAfter, IInv
<1>3. PICK len \in Nat : len = Len(b) /\ k \in 1..len
    BY DEF Batch
<1> SUFFICES ASSUME NEW t \in 1..Len(tables), NEW c \in 1..Len(tables[t].columns),
                    NEW q \in DOMAIN ts[t].rows
             PROVE  CellIn(ts, t, c, q)
    BY <1>1 DEF CellsIn
<1>4. PICK n \in Nat : n = Len(tables[t].rows)
    BY <1>2, TableType
<1>5. PICK col, rows, v, rt, rc :
        /\ col = tables[t].columns[c] /\ rows = ts[t].rows /\ v = rows[q][c]
        /\ rt = find_table(col.ref.table) /\ rc = find_column(rt, col.ref.column)
    OBVIOUS
<1>6. /\ q \in DOMAIN rows /\ DOMAIN rows \subseteq Nat
      /\ \A j \in 1..n : j \in DOMAIN rows /\ rows[j] = tables[t].rows[j]
      /\ \A i \in 1..k : b[i].table = t =>
           Spot(b, t, i) \in DOMAIN rows /\ rows[Spot(b, t, i)] = b[i].row
      /\ \A j \in DOMAIN rows : \/ j \in 1..n
                                \/ \E i \in 1..k : b[i].table = t /\ j = Spot(b, t, i)
    BY <1>2, <1>4, <1>5, RowsAfterIs
<1>7. rt # 0 =>
        /\ rt \in 1..Len(tables)
        /\ \A j \in 1..Len(tables[rt].rows) :
             j \in DOMAIN ts[rt].rows /\ ts[rt].rows[j] = tables[rt].rows[j]
        /\ \A i \in 1..k : b[i].table = rt =>
             Spot(b, rt, i) \in DOMAIN ts[rt].rows /\ ts[rt].rows[Spot(b, rt, i)] = b[i].row
    <2> SUFFICES ASSUME rt # 0
                 PROVE  /\ rt \in 1..Len(tables)
                        /\ \A j \in 1..Len(tables[rt].rows) :
                             j \in DOMAIN ts[rt].rows /\ ts[rt].rows[j] = tables[rt].rows[j]
                        /\ \A i \in 1..k : b[i].table = rt =>
                             /\ Spot(b, rt, i) \in DOMAIN ts[rt].rows
                             /\ ts[rt].rows[Spot(b, rt, i)] = b[i].row
        OBVIOUS
    <2>1. rt \in 1..Len(tables)
        BY <1>2, <1>5, FindTable
    <2> QED
        BY SMTT(30), <1>2, <2>1, RowsAfterIs
<1>8. ASSUME NEW i \in 1..k, b[i].table = t PROVE TestsPassed(b, i, t, c, b[i].row[c])
    <2>1. row_ok(b, 1, i) /\ c \in DOMAIN tables[t].columns
        BY <1>2, <1>3, TableType
    <2> QED
        BY <1>8, <2>1, RowTests
<1>9. DOMAIN tables[t].rows = 1..n
    BY <1>2, <1>4, TableType
<1>10. CASE q \in 1..n
    <2>1. CellKept(t, c, q) /\ v = tables[t].rows[q][c]
        BY <1>4, <1>5, <1>6, <1>10 DEF IInv, RowsKept
    <2>2. /\ col.primary_key \/ col.not_null => v # NULL
          /\ (col.primary_key \/ col.unique) /\ v # NULL =>
               \A j \in 1..n : j # q => tables[t].rows[j][c] # v
          /\ col.ref.table # "" /\ v # NULL =>
               /\ rt # 0 /\ rc # 0
               /\ \E j \in 1..Len(tables[rt].rows) :
                    tables[rt].rows[j][rc] = v /\ (rt = t => j < q)
        BY <1>4, <1>5, <2>1 DEF CellKept
    <2>3. ASSUME col.primary_key \/ col.unique, v # NULL, NEW j \in DOMAIN rows, j # q
          PROVE  rows[j][c] # v
        <3>1. CASE j \in 1..n
            BY <1>6, <2>2, <2>3, <3>1
        <3>2. ASSUME NEW i \in 1..k, b[i].table = t, j = Spot(b, t, i), rows[j][c] = v
              PROVE  FALSE
            <4>1. v = b[i].row[c]
                BY <1>6, <3>2
            <4>2. ~value_exists(b, 1, i - 1, t, c, v)
                <5>1. TestsPassed(b, i, t, c, v)
                    BY <1>8, <3>2, <4>1
                <5> QED
                    BY <1>5, <2>3, <5>1 DEF TestsPassed
            <4> QED
                BY <1>9, <1>10, <2>1, <4>2 DEF value_exists
        <3> QED
            BY <1>6, <3>1, <3>2
    <2>4. ASSUME col.ref.table # "", v # NULL
          PROVE  rt # 0 /\ rc # 0 /\ \E j \in DOMAIN ts[rt].rows : ts[rt].rows[j][rc] = v
        BY <1>7, <2>2, <2>4
    <2> QED
        BY <1>5, <2>2, <2>3, <2>4 DEF CellIn
<1>11. ASSUME NEW i \in 1..k, b[i].table = t, q = Spot(b, t, i)
       PROVE  CellIn(ts, t, c, q)
    <2>1. v = b[i].row[c]
        BY <1>5, <1>6, <1>11
    <2>2. /\ col.primary_key \/ col.not_null => v # NULL
          /\ (col.primary_key \/ col.unique) /\ v # NULL => ~value_exists(b, 1, i - 1, t, c, v)
          /\ col.ref.table # "" /\ v # NULL =>
               rt # 0 /\ rc # 0 /\ value_exists(b, 1, i - 1, rt, rc, v)
        <3>1. TestsPassed(b, i, t, c, v)
            BY <1>8, <1>11, <2>1
        <3> QED
            BY <1>5, <3>1 DEF TestsPassed
    <2>3. i \in 1..len
        BY <1>3
    <2>4. ASSUME col.primary_key \/ col.unique, v # NULL, NEW j \in DOMAIN rows, j # q
          PROVE  rows[j][c] # v
        <3>1. CASE j \in 1..n
            <4>1. ~value_exists(b, 1, i - 1, t, c, v)
                BY <2>2, <2>4
            <4> QED
                BY <1>6, <1>9, <3>1, <4>1 DEF value_exists
        <3>2. ASSUME NEW m \in 1..k, b[m].table = t, j = Spot(b, t, m), rows[j][c] = v
              PROVE  FALSE
            <4>1. v = b[m].row[c]
                BY <1>6, <3>2
            <4>2. /\ ~value_exists(b, 1, i - 1, t, c, v)
                  /\ ~value_exists(b, 1, m - 1, t, c, v)
                <5>1. TestsPassed(b, m, t, c, v)
                    BY <1>8, <3>2, <4>1
                <5> QED
                    BY <1>5, <2>2, <2>4, <5>1 DEF TestsPassed
            <4>3. m # i
                BY <1>11, <2>4, <3>2
            <4>4. m \in 1..i - 1 \/ i \in 1..m - 1
                BY <1>3, <4>3
            <4> QED
                BY <1>11, <2>1, <3>2, <4>1, <4>2, <4>4 DEF value_exists
        <3> QED
            BY <1>6, <3>1, <3>2
    <2>5. ASSUME col.ref.table # "", v # NULL
          PROVE  rt # 0 /\ rc # 0 /\ \E j \in DOMAIN ts[rt].rows : ts[rt].rows[j][rc] = v
        <3>1. rt # 0 /\ rc # 0 /\ rt \in 1..Len(tables) /\ value_exists(b, 1, i - 1, rt, rc, v)
            BY <1>7, <2>2, <2>5
        <3>2. DOMAIN tables[rt].rows = 1..Len(tables[rt].rows)
            BY <1>2, <3>1, TableType
        <3>3. CASE \E j \in 1..Len(tables[rt].rows) : tables[rt].rows[j][rc] = v
            <4>1. PICK j \in 1..Len(tables[rt].rows) : tables[rt].rows[j][rc] = v
                BY <3>3
            <4> QED
                BY <1>7, <3>1, <4>1
        <3>4. CASE \E m \in 1..i - 1 : b[m].table = rt /\ b[m].row[rc] = v
            <4>1. PICK m \in 1..i - 1 : b[m].table = rt /\ b[m].row[rc] = v
                BY <3>4
            <4>2. m \in 1..k
                BY <1>3, <2>3
            <4> QED
                BY <1>7, <3>1, <4>1, <4>2
        <3> QED
            BY <3>1, <3>2, <3>3, <3>4 DEF value_exists
    <2> QED
        BY <1>5, <2>2, <2>4, <2>5 DEF CellIn
<1> QED
    BY <1>5, <1>6, <1>10, <1>11


\* A batch that leaves such a store passes the tests, but where a row refers to
\* itself or further down.
LEMMA HoldsAccepted ==
    ASSUME IInv, NEW b, Batch(b), NEW i \in 1..Len(b), CellsIn(StoreAfter(b)), ~RefersAhead(b, i)
    PROVE  row_ok(b, 1, i)
<1>0. PICK len \in Nat : len = Len(b) /\ DOMAIN b = 1..len /\ i \in 1..len /\ len \in 1..len
    BY DEF Batch
<1>1. PICK ts : ts = StoreAfter(b) /\ ts = StoreAfter(SubSeq(b, 1, len))
    BY <1>0, SubSeqFull DEF Batch
<1>2. TypeInv /\ \A t : RowsAfter(b, len, t) = ts[t].rows
    BY <1>1 DEF RowsAfter, IInv
<1>3. PICK t \in 1..Len(tables) : t = b[i].table
    BY DEF Batch
<1> SUFFICES ASSUME NEW c \in 1..Len(tables[t].columns)
             PROVE  TestsPassed(b, i, t, c, b[i].row[c])
    BY <1>2, <1>3, RowTests, TableType
<1>4. PICK n \in Nat : n = Len(tables[t].rows)
    BY <1>2, TableType
<1>5. PICK col, rows, q, v, rt, rc :
        /\ col = tables[t].columns[c] /\ rows = ts[t].rows /\ q = Spot(b, t, i)
        /\ v = b[i].row[c]
        /\ rt = find_table(col.ref.table) /\ rc = find_column(rt, col.ref.column)
    OBVIOUS
<1>6. ASSUME NEW u \in 1..Len(tables)
      PROVE  /\ \A x \in 1..Len(tables[u].rows) :
                  x \in DOMAIN ts[u].rows /\ ts[u].rows[x] = tables[u].rows[x]
             /\ \A m \in 1..len : b[m].table = u =>
                  Spot(b, u, m) \in DOMAIN ts[u].rows /\ ts[u].rows[Spot(b, u, m)] = b[m].row
             /\ \A x \in DOMAIN ts[u].rows :
                  \/ x \in 1..Len(tables[u].rows)
                  \/ \E m \in 1..len : b[m].table = u /\ x = Spot(b, u, m)
    <2>1. PICK k \in 1..Len(b) : k = len
        BY <1>0
    <2>2. RowsAfter(b, k, u) = ts[u].rows
        BY <1>2, <2>1
    <2> QED
        BY <1>2, <2>1, <2>2, RowsAfterIs
<1>7. /\ \A j \in 1..n : j \in DOMAIN rows /\ rows[j] = tables[t].rows[j]
      /\ \A m \in 1..len : b[m].table = t =>
           Spot(b, t, m) \in DOMAIN rows /\ rows[Spot(b, t, m)] = b[m].row
    BY <1>4, <1>5, <1>6
<1>8. q \in DOMAIN rows /\ rows[q][c] = v
    BY <1>0, <1>3, <1>5, <1>7
<1>9. /\ q \in Nat /\ q > n
      /\ \A m \in 1..len : b[m].table = t /\ m < i => Spot(b, t, m) < q
    BY <1>0, <1>2, <1>3, <1>4, <1>5, SpotOrder
<1>10. /\ col.primary_key \/ col.not_null => v # NULL
       /\ (col.primary_key \/ col.unique) /\ v # NULL =>
            \A j \in DOMAIN rows : j # q => rows[j][c] # v
       /\ col.ref.table # "" /\ v # NULL =>
            rt # 0 /\ rc # 0 /\ \E j \in DOMAIN ts[rt].rows : ts[rt].rows[j][rc] = v
    <2>1. CellIn(ts, t, c, q)
        BY <1>1, <1>5, <1>8 DEF CellsIn
    <2> QED
        BY <1>5, <1>8, <2>1 DEF CellIn
<1>11. ASSUME col.primary_key \/ col.unique, v # NULL, value_exists(b, 1, i - 1, t, c, v)
       PROVE  FALSE
    <2>1. \A j \in DOMAIN rows : j # q => rows[j][c] # v
        BY <1>10, <1>11
    <2>2. DOMAIN tables[t].rows = 1..n
        BY <1>2, <1>4, TableType
    <2>3. CASE \E j \in 1..n : tables[t].rows[j][c] = v
        BY <1>4, <1>7, <1>9, <2>1, <2>3
    <2>4. CASE \E m \in 1..i - 1 : b[m].table = t /\ b[m].row[c] = v
        <3>1. PICK m \in 1..i - 1 : b[m].table = t /\ b[m].row[c] = v
            BY <2>4
        <3>2. m \in 1..len /\ m < i
            BY <1>0
        <3>3. PICK x : x = Spot(b, t, m) /\ x \in DOMAIN rows /\ rows[x][c] = v
            BY <1>7, <3>1, <3>2
        <3>4. x < q /\ x \in Nat
            BY <1>0, <1>2, <1>9, <3>1, <3>2, <3>3, SpotOrder
        <3>5. x # q
            BY <1>9, <3>4
        <3> QED
            BY <2>1, <3>3, <3>5
    <2> QED
        BY <1>11, <2>2, <2>3, <2>4 DEF value_exists
<1>12. ASSUME col.ref.table # "", v # NULL
       PROVE  rt # 0 /\ rc # 0 /\ value_exists(b, 1, i - 1, rt, rc, v)
    <2>1. /\ rt # 0 /\ rc # 0 /\ rt \in 1..Len(tables)
          /\ \E j \in DOMAIN ts[rt].rows : ts[rt].rows[j][rc] = v
        BY <1>2, <1>5, <1>10, <1>12, FindTable
    <2>2. PICK j \in DOMAIN ts[rt].rows : ts[rt].rows[j][rc] = v
        BY <2>1
    <2>3. PICK other : other = ts[rt].rows
        OBVIOUS
    <2>4. /\ \A x \in 1..Len(tables[rt].rows) : other[x] = tables[rt].rows[x]
          /\ \A m \in 1..len : b[m].table = rt => other[Spot(b, rt, m)] = b[m].row
          /\ \/ j \in 1..Len(tables[rt].rows)
             \/ \E m \in 1..len : b[m].table = rt /\ j = Spot(b, rt, m)
        BY <1>6, <2>1, <2>2, <2>3
    <2>5. CASE j \in 1..Len(tables[rt].rows)
        <3>1. j \in DOMAIN tables[rt].rows
            BY <1>2, <2>1, <2>5, TableType
        <3> QED
            BY <2>1, <2>2, <2>3, <2>4, <2>5, <3>1 DEF value_exists
    <2>6. CASE \E m \in 1..len : b[m].table = rt /\ j = Spot(b, rt, m)
        <3>1. PICK m \in 1..len : b[m].table = rt /\ j = Spot(b, rt, m)
            BY <2>6
        <3>2. b[m].row[rc] = v
            BY <2>2, <2>3, <2>4, <3>1
        <3>3. m \notin i..len
            <4> SUFFICES ASSUME m \in i..len PROVE RefersAhead(b, i)
                OBVIOUS
            <4>1. /\ Declared(t, c, {"REFERENCES"})
                  /\ generate_sql[t].columns[c].ref = col.ref /\ c \in DOMAIN tables[t].columns
                BY <1>2, <1>5, <1>12, ClausesAre, TableType
            <4> QED
                BY <1>0, <1>3, <1>5, <1>12, <2>1, <3>1, <3>2, <4>1 DEF RefersAhead
        <3>4. m \in 1..i - 1
            BY <1>0, <3>3
        <3> QED
            BY <2>1, <3>1, <3>2, <3>4 DEF value_exists
    <2> QED
        BY <2>4, <2>5, <2>6
<1> QED
    BY <1>5, <1>10, <1>11, <1>12 DEF TestsPassed

-----------------------------------------------------------------------------

\* The store is well formed whatever is uploaded and inserted: there are no more
\* tables and columns than the arrays have room for, and every row has a value for
\* each column of its table (model.c:384-442, 797-869).  How many rows a table has
\* is not bounded (run ErStore_capacity).
THEOREM StoreTypeCorrect == Spec => []TypeOK
<1>1. IInv => TypeOK
    BY DEF IInv
<1> QED
    BY <1>1, InvariantIInv, PTL

\* A batch is stored whole, each table's rows after the ones it had and in the
\* order of the payload, or the store is as it was: the answer says which
\* (model.c:984-1007).
THEOREM InsertsAreWhole == Spec => []InsertAllOrNothing
<1>1. Init => AppliedInv
    BY DEF Init, AppliedInv, InsertAllOrNothing, NoUpload
<1>2. IInv /\ IInv' /\ AppliedInv /\ [Next]_vars => AppliedInv'
    BY StepAppliedInv
<1>3. AppliedInv => InsertAllOrNothing
    BY DEF AppliedInv
<1> QED
    BY <1>1, <1>2, <1>3, InvariantIInv, PTL DEF Spec

\* The rows of a batch that the validator accepts keep the clauses of the
\* generated SQL one after the other.  A batch that it refuses would leave a store
\* that breaks one, or a table is full, or a row refers to itself or further down
\* (model.c:871-936 against model.c:487-528).
THEOREM ValidatorAgrees == Spec => []ValidatorAgreesWithSql
<1>1. ASSUME IInv, NEW p \in Payloads, parse_batch_ok(p), NEW b, b = parse_batch(p)
      PROVE  /\ TypeInv /\ Batch(b) /\ DOMAIN b = 1..Len(b)
             /\ \A ts : SqlIn(ts) <=> CellsIn(ts)
    <2>1. TypeInv
        BY <1>1 DEF IInv
    <2>2. b \in Seq(BatchRow) /\ \A i \in 1..Len(b) : b[i].table \in 1..Len(tables)
        BY <1>1, <2>1, ParseBatchType
    <2> QED
        BY <2>1, <2>2, SqlIsCells DEF Batch
<1>2. ASSUME IInv PROVE ValidatorAgreesWithSql
    <2> SUFFICES ASSUME NEW p \in Payloads, parse_batch_ok(p), NEW b, b = parse_batch(p)
                 PROVE  IF validate_batch_rows(b)
                        THEN \A k \in DOMAIN b : SqlIn(StoreAfter(SubSeq(b, 1, k)))
                        ELSE \/ ~SqlIn(StoreAfter(b))
                             \/ \E i \in DOMAIN b : Len(tables[b[i].table].rows) >= MAX_ROWS
                             \/ \E i \in DOMAIN b : RefersAhead(b, i)
        BY DEF ValidatorAgreesWithSql
    <2>1. /\ TypeInv /\ Batch(b) /\ DOMAIN b = 1..Len(b)
          /\ \A ts : SqlIn(ts) <=> CellsIn(ts)
        BY <1>1, <1>2
    <2>2. ASSUME validate_batch_rows(b), NEW k \in DOMAIN b
          PROVE  SqlIn(StoreAfter(SubSeq(b, 1, k)))
        <3>1. \A i \in 1..Len(b) : row_ok(b, 1, i)
            BY <2>1, <2>2 DEF validate_batch_rows
        <3> QED
            BY <1>2, <2>1, <2>2, <3>1, AcceptedHolds
    <2>3. ASSUME ~validate_batch_rows(b), SqlIn(StoreAfter(b)),
                 \A i \in DOMAIN b : ~RefersAhead(b, i)
          PROVE  \E i \in DOMAIN b : Len(tables[b[i].table].rows) >= MAX_ROWS
        <3>1. \A i \in 1..Len(b) : row_ok(b, 1, i)
            BY <1>2, <2>1, <2>3, HoldsAccepted
        <3>2. PICK i \in DOMAIN b : ~(Len(tables[b[i].table].rows) < MAX_ROWS)
            BY <2>1, <2>3, <3>1 DEF validate_batch_rows
        <3>3. Len(tables[b[i].table].rows) \in Nat
            BY <2>1, TableType DEF Batch
        <3> QED
            BY <3>2, <3>3, Limits
    <2> QED
        BY <2>2, <2>3
<1> QED
    BY <1>2, InvariantIInv, PTL

\* The rows memorised satisfy NOT NULL, PRIMARY KEY, UNIQUE and REFERENCES of the
\* SQL generated for their schema at every moment, whatever is uploaded and
\* inserted (model.c:871-936).
THEOREM ConstraintsCorrect == Spec => []ConstraintsKept
<1>1. ASSUME IInv PROVE ConstraintsKept
    <2>1. TypeInv
        BY <1>1 DEF IInv
    <2>2. ASSUME NEW t \in 1..Len(tables), NEW c \in 1..Len(tables[t].columns),
                 NEW q \in DOMAIN tables[t].rows
          PROVE  CellIn(tables, t, c, q)
        <3>1. PICK col, rows, rt, rc, v :
                /\ col = tables[t].columns[c] /\ rows = tables[t].rows /\ v = rows[q][c]
                /\ rt = find_table(col.ref.table) /\ rc = find_column(rt, col.ref.column)
            OBVIOUS
        <3>2. DOMAIN rows = 1..Len(rows)
            BY <2>1, <3>1, TableType
        <3>3. CellKept(t, c, q)
            BY <1>1, <3>1, <3>2 DEF IInv, RowsKept
        <3>4. rt # 0 => DOMAIN tables[rt].rows = 1..Len(tables[rt].rows)
            <4>1. rt # 0 => rt \in 1..Len(tables)
                BY <2>1, <3>1, FindTable
            <4> QED
                BY <2>1, <4>1, TableType
        <3> QED
            BY <3>1, <3>2, <3>3, <3>4 DEF CellKept, CellIn
    <2>3. SqlIn(tables)
        BY <2>1, <2>2, SqlIsCells DEF CellsIn
    <2> QED
        BY <2>3 DEF SqlIn, ConstraintsKept
<1> QED
    BY <1>1, InvariantIInv, PTL
=============================================================================
