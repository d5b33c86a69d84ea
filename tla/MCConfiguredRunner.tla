-------------------------- MODULE MCConfiguredRunner --------------------------
(***************************************************************************)
(* An instance of ConfiguredRunner for TLC.                                *)
(***************************************************************************)
EXTENDS ConfiguredRunner, TLC

ghg == "ghg_protocol"
defra == "defra_desnz"

Table(name, refs, indexes) == [name |-> name, refs |-> refs, indexes |-> indexes]

\* The tables both sides lock, in the catalog's order, with what they refer to and the number
\* of their indexes.
SomeCatalog ==
  <<Table("ingestion_runs", {}, 0),
    Table("source_documents", {"ingestion_runs"}, 1),
    Table("parser_ingestion_runs", {}, 0),
    Table("parser_ingestion_source_results", {"parser_ingestion_runs"}, 0),
    Table("parser_ingestion_issues", {"parser_ingestion_runs"}, 0),
    Table("source_family_year_states", {}, 1),
    Table("masters", {"source_documents", "ingestion_runs"}, 0),
    Table("details", {"masters"}, 1)>>

\* No tables, and those of a version without a history.
SomeSchemas ==
  {{}, {"ingestion_runs", "source_documents", "source_family_year_states", "masters",
        "details"}}

Write(table, key) == [table |-> table, key |-> key, detail |-> table = "details"]

\* A batch of one file with two factors, in the order in which the file gives them.
Batch(document, x, y) ==
  [parsed |-> 2,
   writes |-> <<Write("ingestion_runs", Absent), Write("source_documents", document),
                Write("masters", x), Write("masters", y),
                Write("details", x), Write("details", y)>>]

\* Two editions of the file of one family, and a file without a row of the other.
SomeBatches ==
  (ghg :> {Batch("first", "electricity", "gas"), Batch("second", "gas", "electricity")})
    @@ (defra :> {[parsed |-> 0, writes |-> <<>>]})

SomeOrder == <<ghg, defra>>

SomeAliases ==
  ("ghg" :> ghg) @@ ("ghg_protocol" :> ghg) @@ ("defra" :> defra) @@ ("defra_desnz" :> defra)

Settings(given) ==
  [dsn |-> FALSE, given |-> given, port |-> 5432, initialYear |-> Absent]
SomeEnvironment == Settings(RequiredWithoutDsn)

Block(name, ys) == [family |-> name, entries |-> {[year |-> y, url |-> TRUE] : y \in ys}]

Basic ==
  [databases |-> <<Absent, Absent>>, archiveRoots |-> <<Absent, Absent, Absent>>,
   initialYears |-> <<2024, Absent, Absent>>, intervals |-> <<Absent, Absent>>,
   maxCycles |-> <<Absent, Absent>>, families |-> <<<<"ghg", "defra", "ghg_protocol">>, Absent, Absent>>,
   sourceYears |-> <<<<Block("ghg", {2024}), Block("defra", {2025})>>, Absent, Absent>>,
   live |-> <<Absent, Absent>>]

\* One cycle of two families, one of which is not published yet, and one of them named
\* twice; two cycles of the other; no password; two answers to one question.
SomePayloads ==
  {Basic,
   [Basic EXCEPT !.families = <<Absent, <<"defra">>, Absent>>, !.maxCycles = <<Absent, 2>>],
   [Basic EXCEPT !.databases = <<Settings({"host", "database", "username"}), Absent>>],
   [Basic EXCEPT !.live = <<TRUE, FALSE>>]}

SomeRedactions ==
  ("failed_summary" :> "failed_summary") @@ ("password=a" :> "password=***")
    @@ ("password=b" :> "password=***") @@ ("password=***" :> "password=***")

Failure(f, stage, message) ==
  [family |-> f, stage |-> stage, code |-> "failed", field |-> stage, message |-> message]

\* Two messages that differ in what may not be stored, and a parser that fails.
SomeFailures ==
  (ghg :> {[download |-> "failed", parsed |-> 0,
            failures |-> <<Failure(ghg, "download", "password=a"),
                           Failure(ghg, "download", "password=b")>>],
           [download |-> "downloaded", parsed |-> 0,
            failures |-> <<Failure(ghg, "parser", "failed_summary")>>]})
    @@ (defra :> {})

ProcessSymmetry == Permutations(Processes)
===============================================================================
