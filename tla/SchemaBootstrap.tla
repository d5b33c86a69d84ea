--------------------------- MODULE SchemaBootstrap ---------------------------
(***************************************************************************)
(* The statements that create the Phase 1 tables                           *)
(* (persistence/postgresql_schema_catalog.py, postgresql_schema_ddl.py,    *)
(* postgresql_runtime_schema_bootstrap.py), and the locks PostgreSQL takes *)
(* for them and for the rows the runner writes.                            *)
(***************************************************************************)
EXTENDS Naturals, Sequences, SequencesExt, FiniteSets

CONSTANT Catalog   \* the tables in the order of the catalog:
                   \* a name, the tables it refers to, its number of indexes

Tables == {Catalog[i].name : i \in DOMAIN Catalog}

\* The names are unique, and a table refers to tables before it.
ASSUME CatalogAssumption ==
  /\ Catalog \in Seq([name : STRING, refs : SUBSET STRING, indexes : Nat])
  /\ \A i \in DOMAIN Catalog :
       /\ Catalog[i].refs \subseteq {Catalog[j].name : j \in 1..(i - 1)}
       /\ \A j \in DOMAIN Catalog : Catalog[i].name = Catalog[j].name => i = j

Position(table) == CHOOSE i \in DOMAIN Catalog : Catalog[i].name = table

InCatalogOrder(tables) ==
  /\ tables \in Seq(Tables)
  /\ \A j, k \in DOMAIN tables : j < k => Position(tables[j]) < Position(tables[k])

References(table) == UNION {Catalog[i].refs : i \in {j \in DOMAIN Catalog :
                                                       Catalog[j].name = table}}

\* What the foreign keys of the tables that are there refer to is there.
IsClosed(tables) == \A t \in tables : References(t) \subseteq tables

CreateTables == [i \in DOMAIN Catalog |-> [kind |-> "table", table |-> Catalog[i].name]]
AddIndexes(statements, table) ==
  statements \o [k \in 1..table.indexes |-> [kind |-> "index", table |-> table.name]]
CreateIndexes == FoldLeft(AddIndexes, <<>>, Catalog)

\* MUTANT of Statements: the indexes of the last tables first.
StatementsIndexesReversed == CreateTables \o Reverse(CreateIndexes)

\* All tables, then all indexes, each of them IF NOT EXISTS.
Statements == CreateTables \o CreateIndexes

-----------------------------------------------------------------------------
(* PostgreSQL's table locks, held until the transaction ends.               *)

Compatible(m, n) == m = n /\ m \in {"row_exclusive", "share"}

\* An index locks its table before it finds that it exists; a new table is locked, and
\* so are the tables it refers to.  A table that exists is left alone.
LocksOf(statement, exists) ==
  CASE statement.kind = "index" -> {<<statement.table, "share">>}
    [] statement.kind = "write" -> {<<statement.table, "row_exclusive">>}
    [] statement.kind = "table" /\ exists -> {}
    [] OTHER -> {<<statement.table, "access_exclusive">>}
                  \cup (References(statement.table) \X {"share_row_exclusive"})

\* Locks one transaction wants and another holds.
Conflict(wanted, held) ==
  \E w \in wanted, h \in held : w[1] = h[1] /\ ~Compatible(w[2], h[2])

\* What the bootstrap tells: created is what it did not find before and finds after.
Report(before, after) ==
  [created |-> {t \in Tables : t \in after /\ t \notin before},
   missing |-> {t \in Tables : t \notin after}]
=============================================================================
