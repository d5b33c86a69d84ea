------------------------- MODULE RunnerConfiguration -------------------------
(***************************************************************************)
(* What the configured cycle runner is told to do                          *)
(* (pipeline/configured_cycle_config.py and                                *)
(* persistence/postgresql_runtime_config.py).                              *)
(*                                                                         *)
(* A setting may stand under several keys of the JSON object: the model    *)
(* has what stands under each of them, in the order they are asked.        *)
(* Loading raises, or answers a configuration whose PostgreSQL part may    *)
(* still be blocked.                                                       *)
(***************************************************************************)
EXTENDS Naturals, Sequences, SequencesExt, FiniteSets

CONSTANTS Absent,       \* nothing stands under a key
          Blank,        \* the empty text
          Malformed,    \* a text that is no number
          FamilyOrder,  \* the source families, in their order
          FamilyAlias,  \* what a family may be called, to the family
          DefaultYear   \* the initial year if none is set

Families == Range(FamilyOrder)

ASSUME RunnerConfigurationAssumption ==
  /\ FamilyOrder \in Seq(STRING) \ {<<>>}
  /\ FamilyAlias \in [DOMAIN FamilyAlias -> Families]
  /\ \A f \in Families : f \in DOMAIN FamilyAlias /\ FamilyAlias[f] = f
  /\ DefaultYear \in Nat \ {0}

\* The first key that has a value; the first that has one that is not empty.
FirstOutside(none, values, default) ==
  LET given == {i \in DOMAIN values : values[i] \notin none}
  IN IF given = {} THEN default ELSE values[Min(given)]
FirstGiven(values, default) == FirstOutside({Absent}, values, default)
FirstFilled(values, empty, default) == FirstOutside({Absent, Blank, empty}, values, default)

Positive(value) == value \in Nat \ {0}

-----------------------------------------------------------------------------
(* PostgreSQL: a section of the object or, if it has none, the environment. *)

RequiredWithoutDsn == {"host", "database", "username", "password"}

DatabaseValues(payload, environment) ==
  LET section == FirstGiven(payload.databases, Absent) IN
  IF section = Absent THEN environment
  ELSE [section EXCEPT !.initialYear =
          FirstFilled(<<@>> \o SubSeq(payload.initialYears, 1, 1), 0, Absent)]

\* What keeps the runner from connecting; a DSN makes host and credentials needless.
DatabaseIssues(values) ==
  {field \in {"port"} : values.port \notin {Absent, Blank} \cup 1..65535}
    \cup {field \in {"initial_year"} :
            values.initialYear \notin {Absent, Blank} /\ ~Positive(values.initialYear)}
    \cup {field \in RequiredWithoutDsn : ~values.dsn /\ field \notin values.given}

DatabaseConfig(values) ==
  [ready |-> DatabaseIssues(values) = {},
   initialYear |-> IF values.initialYear \in {Absent, Blank} THEN DefaultYear
                   ELSE values.initialYear]

-----------------------------------------------------------------------------
(* The runner's own settings.                                               *)

EnabledNames(payload) == FirstFilled(payload.families, <<>>, FamilyOrder)

\* A family that is named twice is enabled once, where it is named first.
AlsoEnabled(selected, name) ==
  IF FamilyAlias[name] \in Range(selected) THEN selected
  ELSE Append(selected, FamilyAlias[name])
EnabledFamilies(payload) == FoldLeft(AlsoEnabled, <<>>, EnabledNames(payload))

YearBlocks(payload) == FirstFilled(payload.sourceYears, <<>>, <<>>)

\* The years of a family: those of the last block that names it.
SourceYears(payload) ==
  [f \in Families |->
     LET own == SelectSeq(YearBlocks(payload), LAMBDA b : FamilyAlias[b.family] = f)
     IN IF own = <<>> THEN {} ELSE {entry.year : entry \in Last(own).entries}]

BlockIsSound(block) ==
  /\ block.family \in DOMAIN FamilyAlias
  /\ \A entry \in block.entries : Positive(entry.year) /\ entry.url

\* Every key that says anything has to say the same.
LiveAnswers(payload) == Range(SelectSeq(payload.live, LAMBDA v : v # Absent))

MaxCycles(payload, argument) == FirstGiven(<<argument>> \o payload.maxCycles, 1)
InitialYear(payload) == FirstGiven(payload.initialYears, DefaultYear)
Interval(payload) == FirstGiven(payload.intervals, 0)

\* The settings that make loading raise.
RefusedSettings(payload, argument) ==
  {setting \in {"archive_root", "initial_year", "cycle_interval_seconds", "max_cycles",
                "enabled_source_families", "source_years", "live_source_access"} :
     CASE setting = "archive_root" ->
            FirstFilled(payload.archiveRoots, Blank, "missing") \notin {"directory", "missing"}
       [] setting = "initial_year" -> ~Positive(InitialYear(payload))
       [] setting = "cycle_interval_seconds" -> Interval(payload) \notin Nat
       [] setting = "max_cycles" ->
            MaxCycles(payload, argument) # Blank /\ ~Positive(MaxCycles(payload, argument))
       [] setting = "enabled_source_families" ->
            ~(Range(EnabledNames(payload)) \subseteq DOMAIN FamilyAlias)
       [] setting = "source_years" ->
            \E i \in DOMAIN YearBlocks(payload) : ~BlockIsSound(YearBlocks(payload)[i])
       [] setting = "live_source_access" -> Cardinality(LiveAnswers(payload)) > 1}

\* What is loaded if nothing raises; no maximum means cycles without end.
Configuration(payload, environment, argument) ==
  [families    |-> EnabledFamilies(payload),
   initialYear |-> InitialYear(payload),
   maxCycles   |-> MaxCycles(payload, argument),
   sourceYears |-> SourceYears(payload),
   live        |-> TRUE \in LiveAnswers(payload),
   database    |-> DatabaseConfig(DatabaseValues(payload, environment))]
=============================================================================
