------------------------ MODULE ConfiguredRunner_proofs ------------------------
(***************************************************************************)
(* Proofs about ConfiguredRunner, for any catalog, configurations and      *)
(* number of processes.                                                    *)
(***************************************************************************)
EXTENDS ConfiguredRunner, FiniteSetTheorems, TLAPS

Indexes == INSTANCE FoldTheorems WITH Op <- AddIndexes
Enabled == INSTANCE FoldTheorems WITH Op <- AlsoEnabled

-----------------------------------------------------------------------------
(* The catalog.                                                             *)

N == Len(Catalog)
Name(i) == Catalog[i].name

\* A table has one position in the catalog.
LEMMA CatalogFacts ==
  /\ N \in Nat /\ DOMAIN Catalog = 1..N
  /\ \A i \in 1..N : Name(i) \in Tables /\ Position(Name(i)) = i /\ Catalog[i].indexes \in Nat
  /\ \A t \in Tables : Position(t) \in 1..N /\ Name(Position(t)) = t
<1>1. N \in Nat /\ DOMAIN Catalog = 1..N
  BY CatalogAssumption DEF N
<1>2. \A i \in 1..N : Catalog[i].indexes \in Nat /\ Name(i) \in Tables
  <2> DEFINE Definitions == [name : STRING, refs : SUBSET STRING, indexes : Nat]
  <2>1. Catalog \in Seq(Definitions)
    BY CatalogAssumption
  <2> HIDE DEF Definitions
  <2>2. \A i \in 1..N : Catalog[i] \in Definitions
    BY <2>1 DEF N
  <2> QED
    BY <1>1, <2>2 DEF Name, Tables, Definitions
<1>3. \A i, j \in 1..N : Name(i) = Name(j) => i = j
  BY <1>1, CatalogAssumption DEF Name
<1>4. \A t \in Tables : \E i \in 1..N : Name(i) = t
  BY <1>1 DEF Name, Tables
<1>5. \A t : Position(t) = CHOOSE i \in 1..N : Name(i) = t
  BY <1>1 DEF Name, Position
<1> QED
  BY <1>1, <1>2, <1>3, <1>4, <1>5

\* A table refers to tables before it.
LEMMA ReferencesBefore ==
  ASSUME NEW t \in Tables, NEW r \in References(t)
  PROVE  r \in Tables /\ Position(r) < Position(t)
<1>1. PICK i \in 1..N : Name(i) = t /\ r \in Catalog[i].refs
  BY CatalogFacts DEF References, Name
<1>2. PICK j \in 1..(i - 1) : r = Name(j)
  BY <1>1, CatalogFacts, CatalogAssumption DEF Name
<1>3. j \in 1..N /\ j < i
  BY <1>2, CatalogFacts
<1> QED
  BY <1>1, <1>2, <1>3, CatalogFacts

\* Index statements of tables up to the kth, in the order of the catalog.
IndexStatement == [kind : {"index"}, table : Tables]
IndexesUpTo(k) ==
  {s \in Seq(IndexStatement) :
     /\ \A i \in DOMAIN s : Position(s[i].table) <= k
     /\ \A i, j \in DOMAIN s : i <= j => Position(s[i].table) <= Position(s[j].table)}

\* The indexes of one more table go to the end.
LEMMA IndexesAdded ==
  ASSUME NEW k \in 1..N, NEW s \in IndexesUpTo(k - 1)
  PROVE  AddIndexes(s, Catalog[k]) \in IndexesUpTo(k)
<1> DEFINE m == Catalog[k].indexes
           own == [i \in 1..m |-> [kind |-> "index", table |-> Catalog[k].name]]
           all == s \o own
<1>1. m \in Nat /\ Name(k) \in Tables /\ Position(Name(k)) = k /\ k \in Nat
  BY CatalogFacts
<1>2. own \in Seq(IndexStatement) /\ Len(own) = m /\ \A i \in 1..m : own[i].table = Name(k)
  <2>1. \A i \in 1..m : own[i] \in IndexStatement /\ own[i].table = Name(k)
    BY <1>1 DEF IndexStatement, Name
  <2>2. own \in [1..m -> IndexStatement]
    BY <2>1
  <2> HIDE DEF own, m
  <2>3. own \in Seq(IndexStatement) /\ Len(own) = m
    BY <1>1, <2>2
  <2> QED
    BY <2>1, <2>3
<1> HIDE DEF own, m
<1>3. /\ s \in Seq(IndexStatement) /\ Len(s) \in Nat /\ DOMAIN s = 1..Len(s)
      /\ \A i \in 1..Len(s) : s[i] \in IndexStatement /\ Position(s[i].table) <= k - 1
      /\ \A i, j \in 1..Len(s) : i <= j => Position(s[i].table) <= Position(s[j].table)
  <2>1. s \in Seq(IndexStatement)
    BY DEF IndexesUpTo
  <2>2. Len(s) \in Nat /\ DOMAIN s = 1..Len(s) /\ \A i \in 1..Len(s) : s[i] \in IndexStatement
    BY <2>1
  <2> QED
    BY <2>1, <2>2 DEF IndexesUpTo
<1>4. /\ all \in Seq(IndexStatement) /\ DOMAIN all = 1..(Len(s) + m)
      /\ \A i \in 1..Len(s) : all[i] = s[i]
      /\ \A i \in 1..(Len(s) + m) : i > Len(s) => all[i] = own[i - Len(s)] /\ i - Len(s) \in 1..m
  BY <1>1, <1>2, <1>3
<1> HIDE DEF all
<1>5. \A t \in Tables : Position(t) \in Nat
  BY CatalogFacts
<1>6. \A i \in 1..Len(s) : all[i].table \in Tables /\ Position(all[i].table) <= k - 1
  BY <1>3, <1>4 DEF IndexesUpTo, IndexStatement
<1>7. \A i \in DOMAIN all : i > Len(s) => Position(all[i].table) = k
  BY <1>1, <1>2, <1>4
<1>8. \A i \in DOMAIN all : i \in 1..Len(s) \/ i > Len(s)
  BY <1>3, <1>4
<1>9. \A i \in DOMAIN all : Position(all[i].table) <= k
  BY <1>1, <1>5, <1>6, <1>7, <1>8
<1>10. ASSUME NEW i \in DOMAIN all, NEW j \in DOMAIN all, i <= j
       PROVE  Position(all[i].table) <= Position(all[j].table)
  <2>1. CASE j > Len(s)
    BY <1>7, <1>9, <2>1
  <2>2. CASE j \in 1..Len(s)
    <3>1. i \in 1..Len(s)
      BY <1>3, <1>4, <1>10, <2>2
    <3> QED
      BY <1>3, <1>4, <1>10, <2>2, <3>1
  <2> QED
    BY <1>8, <2>1, <2>2
<1>11. all \in IndexesUpTo(k)
  BY <1>4, <1>9, <1>10 DEF IndexesUpTo
<1> QED
  BY <1>11 DEF all, AddIndexes, own, m

\* The indexes are created in the order of their tables.
LEMMA IndexesInOrder == CreateIndexes \in IndexesUpTo(N)
<1>0. PICK trace : Indexes!IsTrace(trace, <<>>, Catalog, N)
  BY CatalogFacts, Indexes!FoldTrace
<1>1. /\ trace[0] = <<>>
      /\ \A k \in 1..N : trace[k] = AddIndexes(trace[k - 1], Catalog[k])
      /\ Indexes!Fold(<<>>, Catalog) = trace[N]
  BY <1>0 DEF Indexes!IsTrace
<1> DEFINE P == {k \in Nat : k <= N => trace[k] \in IndexesUpTo(k)}
<1>2. 0 \in P
  <2>1. <<>> \in Seq(IndexStatement) /\ DOMAIN <<>> = {}
    OBVIOUS
  <2>2. <<>> \in IndexesUpTo(0)
    BY <2>1 DEF IndexesUpTo
  <2> QED
    BY <1>1, <2>2
<1>3. ASSUME NEW k \in Nat, k \in P PROVE k + 1 \in P
  <2> SUFFICES ASSUME k + 1 <= N PROVE trace[k + 1] \in IndexesUpTo(k + 1)
    OBVIOUS
  <2>1. trace[k] \in IndexesUpTo(k) /\ k + 1 \in 1..N /\ (k + 1) - 1 = k
    BY <1>3, CatalogFacts
  <2> QED
    BY <1>1, <2>1, IndexesAdded
<1> HIDE DEF P
<1>4. Nat \subseteq P
  BY <1>2, <1>3, Indexes!SetInduction
<1>5. Indexes!Fold(<<>>, Catalog) = CreateIndexes
  BY DEF CreateIndexes, Indexes!Fold, Indexes!FoldLeft, FoldLeft, MapThenFoldSet,
         Indexes!MapThenFoldSet, Max, Indexes!Max
<1>6. N \in Nat /\ N \in P
  BY <1>4, CatalogFacts
<1>7. trace[N] \in IndexesUpTo(N)
  BY <1>6 DEF P
<1> QED
  BY <1>1, <1>5, <1>7

\* The statements: the tables in the order of the catalog, then the indexes in that order.
LEMMA StatementFacts ==
  /\ Len(Statements) \in Nat /\ N <= Len(Statements)
  /\ \A i \in 1..N : Statements[i] = [kind |-> "table", table |-> Name(i)]
  /\ \A i \in 1..Len(Statements) : i > N =>
       Statements[i].kind = "index" /\ Statements[i].table \in Tables
  /\ \A i, j \in 1..Len(Statements) : N < i /\ i <= j =>
       Position(Statements[i].table) <= Position(Statements[j].table)
<1> DEFINE tables == CreateTables
           indexes == CreateIndexes
<1>1. N \in Nat
  BY CatalogFacts
<1>2. /\ tables \in Seq([kind : {"table"}, table : Tables]) /\ Len(tables) = N
      /\ \A i \in 1..N : tables[i] = [kind |-> "table", table |-> Name(i)]
  <2>1. tables = [i \in 1..N |-> [kind |-> "table", table |-> Name(i)]]
    BY CatalogFacts DEF CreateTables, Name
  <2> HIDE DEF tables
  <2> QED
    BY <1>1, <2>1, CatalogFacts
<1>3. /\ indexes \in Seq(IndexStatement) /\ Len(indexes) \in Nat
      /\ \A i, j \in 1..Len(indexes) : i <= j =>
           Position(indexes[i].table) <= Position(indexes[j].table)
  BY IndexesInOrder DEF IndexesUpTo
<1>4. Statements = tables \o indexes
  BY DEF Statements
<1> HIDE DEF tables, indexes
<1>5. /\ Len(Statements) = N + Len(indexes)
      /\ \A i \in 1..N : Statements[i] = tables[i]
      /\ \A i \in 1..Len(Statements) : i > N =>
           i - N \in 1..Len(indexes) /\ Statements[i] = indexes[i - N]
  BY <1>1, <1>2, <1>3, <1>4
<1>6. \A i \in 1..Len(indexes) : indexes[i] \in IndexStatement
  BY <1>3
<1>7. \A i \in 1..Len(Statements) : i > N =>
        Statements[i].kind = "index" /\ Statements[i].table \in Tables
  BY <1>5, <1>6 DEF IndexStatement
<1>8. ASSUME NEW i \in 1..Len(Statements), NEW j \in 1..Len(Statements), N < i, i <= j
      PROVE  Position(Statements[i].table) <= Position(Statements[j].table)
  <2>1. i - N \in 1..Len(indexes) /\ j - N \in 1..Len(indexes) /\ i - N <= j - N
    BY <1>1, <1>3, <1>5, <1>8
  <2> QED
    BY <1>1, <1>3, <1>5, <1>8, <2>1
<1> QED
  BY <1>1, <1>2, <1>3, <1>5, <1>7, <1>8

-----------------------------------------------------------------------------
(* The inductive invariant.                                                 *)

Configs ==
  {Configuration(payload, Environment, Absent) :
     payload \in {x \in Payloads : RefusedSettings(x, Absent) = {}}}

\* The texts of a failure; the provers do not know a text that is spelled out as a STRING.
Texts == STRING \cup {"insert", "insert_failed", "insert_summary", "failed_summary"}
FailureRecords ==
  [family : Families, stage : Texts, code : Texts, field : Texts, message : Texts]
ResultRecords ==
  [family : Families, latest : Nat \cup {NoValue}, target : Nat,
   status : {"completed", "failed", "no_available_source_year"},
   download : {NoValue, "failed", "downloaded"}, parsed : Nat, inserted : Nat, skipped : Nat,
   failures : Seq(FailureRecords)]
CycleRecords ==
  [run : (Nat \X Nat) \cup {Absent}, started : Nat, number : Nat, families : Seq(Families),
   initialYear : Nat, results : Seq(ResultRecords)]
ToldRecords ==
  [run : (Nat \X Nat) \cup {Absent}, history : {"declared", "failed"},
   status : {"completed", "completed_with_failures", "failed"}]
Batches == UNION {BatchesOf[f] : f \in Families}
RowsOf(batch) == UNION {RowOf(batch.writes[i]) : i \in DOMAIN batch.writes}
YearRows == {YearTable} \X (Families \X Nat)
BatchRows == (UNION {RowsOf(batch) : batch \in Batches}) \cup YearRows
Modes == {"row_exclusive", "share", "share_row_exclusive", "access_exclusive"}
ProcessRecords ==
  [stage : Stages, config : Configs \cup {Absent}, connected : BOOLEAN,
   before : SUBSET Tables, at : Nat, collides : BOOLEAN, made : SUBSET Tables,
   locks : SUBSET (Tables \X Modes), rows : SUBSET BatchRows,
   report : [created : SUBSET Tables, missing : SUBSET Tables],
   cycle : CycleRecords, latest : Nat \cup {NoValue}, target : Nat \cup {NoValue},
   batch : Batches \cup {NoBatch}, summary : [inserted : Nat, skipped : Nat],
   told : Seq(ToldRecords)]

Storing == {"storing", "recording"}
Writing == Storing \cup {"history"}
InACycle == {"next_family"} \cup Writing

\* A cycle has a result of each family it is done with, and is done with all of them when it
\* writes its history.
CycleIsSound(process) ==
  /\ process.stage \in InACycle =>
       /\ process.cycle.families = process.config.families
       /\ Len(process.cycle.results) <= Len(process.cycle.families)
       /\ process.stage = "history" <=>
            Len(process.cycle.results) = Len(process.cycle.families)
  /\ \A i \in DOMAIN process.cycle.results :
       process.cycle.results[i].family = process.cycle.families[i]
  /\ process.stage \in Storing => process.target \in Nat \ {0}

\* A process that creates tables has all the tables before the one it is at; it has a lock on
\* what it made and on what that refers to, and on the tables whose indexes it created.
CreationIsSound(process, tables) ==
  process.stage = "creating" =>
    /\ process.at \in 1..(Len(Statements) + 1)
    /\ \A j \in 1..N : j < process.at => Name(j) \in tables \cup process.made
    /\ \A t \in process.made : /\ Position(t) < process.at
                               /\ <<t, "access_exclusive">> \in process.locks
    /\ \A lock \in process.locks :
         \/ \E t \in process.made : lock[1] \in {t} \cup References(t)
         \/ /\ lock[2] = "share"
            /\ \E j \in 1..Len(Statements) :
                 N < j /\ j < process.at /\ Statements[j].table = lock[1]

\* What a transaction writes: how many rows, to which tables, and which of them others may
\* write, too.
WriteCount(process) ==
  IF process.stage = "storing" THEN Len(process.batch.writes)
  ELSE IF process.stage = "recording" THEN 1 ELSE 3
Written(process, i) ==
  IF process.stage = "storing" THEN process.batch.writes[i].table
  ELSE IF process.stage = "recording" THEN YearTable ELSE HistoryTables[i]
RowWritten(process, i) ==
  IF process.stage = "storing" THEN RowOf(process.batch.writes[i])
  ELSE IF process.stage = "recording" THEN {<<YearTable, <<Family(process), process.target>>>>}
  ELSE {}

\* A process that writes rows has locks on the tables it has written, and no rows but those.
WritingIsSound(process) ==
  /\ process.stage \in Storing => process.batch \in BatchesOf[Family(process)]
  /\ process.stage \in Writing =>
       /\ process.at \in 1..(WriteCount(process) + 1)
       /\ \A lock \in process.locks :
            /\ lock[2] = "row_exclusive"
            /\ \E j \in 1..WriteCount(process) : j < process.at /\ Written(process, j) = lock[1]
       /\ \A row \in process.rows :
            \E j \in 1..WriteCount(process) : j < process.at /\ row \in RowWritten(process, j)

ProcessIsSound(process, tables) ==
  /\ process \in ProcessRecords
  /\ process.stage \notin {"not_started", "raised"} => process.config \in Configs
  /\ process.stage \in {"not_started", "connecting", "looking"} => process.at = 1
  /\ CycleIsSound(process)
  /\ process.made \cap tables = {}
  /\ process.stage # "creating" => process.made = {}
  /\ process.stage \notin InTransactions => process.locks = {}
  /\ process.stage \notin Storing => process.rows = {}
  /\ CreationIsSound(process, tables)
  /\ WritingIsSound(process)
  /\ process.stage \in InCycles \cup {"reporting"} => Tables \subseteq tables
  /\ process.stage \in InCycles => process.report.missing = {}

YearsAreSound(recorded) ==
  /\ DOMAIN recorded = Families
  /\ \A f \in Families : \E n \in Nat : recorded[f] \subseteq 1..n

CountersAreSound ==
  clock \in Nat /\ failures \in 0..MaxFailures /\ lost \in 0..MaxLost

\* No two processes have locks that conflict.
LocksAgree(states) ==
  \A p, q \in Processes : p # q => ~Conflict(states[p].locks, states[q].locks)

RunnerInv ==
  /\ schema \subseteq Tables /\ IsClosed(schema)
  /\ YearsAreSound(years)
  /\ CountersAreSound
  /\ DOMAIN processes = Processes
  /\ \A p \in Processes : ProcessIsSound(processes[p], schema)
  /\ LocksAgree(processes)

-----------------------------------------------------------------------------
(* What a process is configured to do.                                      *)

\* Numbers have a least one.
LEMMA LeastNumber ==
  ASSUME NEW S \in SUBSET Nat, S # {}
  PROVE  Min(S) \in S
<1>1. \E x \in S : \A y \in S : x <= y
  <2> SUFFICES ASSUME ~\E x \in S : \A y \in S : x <= y PROVE FALSE
    OBVIOUS
  <2> DEFINE B == {k \in Nat : \A y \in S : k <= y}
  <2>1. 0 \in B
    OBVIOUS
  <2>2. \A k \in Nat : k \in B => k + 1 \in B
    <3> SUFFICES ASSUME NEW k \in Nat, k \in B, NEW y \in S PROVE k + 1 <= y
      OBVIOUS
    <3>1. k <= y /\ k # y
      OBVIOUS
    <3> QED
      BY <3>1
  <2>3. PICK y \in S : TRUE
    OBVIOUS
  <2>4. y + 1 \in Nat /\ y \in Nat
    OBVIOUS
  <2> HIDE DEF B
  <2>5. y + 1 \in B
    BY <2>1, <2>2, <2>4, Enabled!SetInduction
  <2> QED
    BY <2>3, <2>4, <2>5 DEF B
<1> QED
  BY <1>1 DEF Min

\* A setting is what one of its keys says, or the default.
LEMMA FirstOutsideIs ==
  ASSUME NEW T, NEW values \in Seq(T), NEW none, NEW default
  PROVE  \/ FirstOutside(none, values, default) = default
         \/ \E i \in DOMAIN values : /\ FirstOutside(none, values, default) = values[i]
                                     /\ values[i] \notin none
<1> DEFINE given == {i \in DOMAIN values : values[i] \notin none}
<1>1. given \in SUBSET Nat
  OBVIOUS
<1>2. CASE given = {}
  BY <1>2 DEF FirstOutside
<1>3. CASE given # {}
  <2>1. Min(given) \in given
    BY <1>1, <1>3, LeastNumber
  <2> QED
    BY <1>3, <2>1 DEF FirstOutside
<1> QED
  BY <1>2, <1>3

\* The families are enabled by names that stand for families, and at least one is.
LEMMA EnabledNamesType ==
  ASSUME NEW payload \in Payloads, RefusedSettings(payload, Absent) = {}
  PROVE  /\ EnabledNames(payload) \in Seq(STRING) \ {<<>>}
         /\ \A i \in DOMAIN EnabledNames(payload) :
              FamilyAlias[EnabledNames(payload)[i]] \in Families
<1> DEFINE names == EnabledNames(payload)
           lists == payload.families
           T == Seq(STRING) \cup {Absent, Blank}
<1>1. lists \in Seq(T)
  BY ConfiguredRunnerAssumption
<1>2. \A i \in DOMAIN lists : lists[i] \in T
  BY <1>1
<1>3. \/ names = FamilyOrder
      \/ \E i \in DOMAIN lists : names = lists[i] /\ lists[i] \notin {Absent, Blank, <<>>}
  BY <1>1, FirstOutsideIs DEF EnabledNames, FirstFilled
<1>4. names \in Seq(STRING) \ {<<>>}
  BY <1>2, <1>3, RunnerConfigurationAssumption
<1>5. Range(names) \subseteq DOMAIN FamilyAlias
  BY DEF RefusedSettings
<1>6. \A i \in DOMAIN names : names[i] \in DOMAIN FamilyAlias
  BY <1>5 DEF Range
<1> QED
  BY <1>4, <1>6, RunnerConfigurationAssumption

Distinct(seq) == \A i, j \in DOMAIN seq : seq[i] = seq[j] => i = j

\* One more name enables a family that is not there yet.
LEMMA AlsoEnabledType ==
  ASSUME NEW selected \in Seq(Families), Distinct(selected), NEW name,
         FamilyAlias[name] \in Families
  PROVE  /\ AlsoEnabled(selected, name) \in Seq(Families) \ {<<>>}
         /\ Distinct(AlsoEnabled(selected, name))
<1> DEFINE f == FamilyAlias[name]
<1>1. CASE f \in Range(selected)
  BY <1>1 DEF AlsoEnabled, Range
<1>2. CASE f \notin Range(selected)
  <2>1. \A i \in 1..Len(selected) : selected[i] # f
    BY <1>2 DEF Range
  <2> HIDE DEF f
  <2>2. /\ Append(selected, f) \in Seq(Families)
        /\ DOMAIN Append(selected, f) = 1..(Len(selected) + 1) /\ Len(selected) \in Nat
        /\ \A i \in 1..Len(selected) : Append(selected, f)[i] = selected[i]
        /\ Append(selected, f)[Len(selected) + 1] = f
    BY DEF f
  <2>3. \A i \in 1..(Len(selected) + 1) : i \in 1..Len(selected) \/ i = Len(selected) + 1
    BY <2>2
  <2>4. Distinct(Append(selected, f))
    BY <2>1, <2>2, <2>3 DEF Distinct
  <2>5. Append(selected, f) # <<>>
    BY <2>2
  <2> QED
    BY <1>2, <2>2, <2>4, <2>5 DEF AlsoEnabled, f
<1> QED
  BY <1>1, <1>2

\* What is loaded if nothing raises: families, each once, and an initial year.
LEMMA ConfigType ==
  ASSUME NEW config \in Configs
  PROVE  /\ config.families \in Seq(Families) /\ config.families # <<>>
         /\ Distinct(config.families)
         /\ config.initialYear \in Nat \ {0}
<1>1. PICK payload \in Payloads : /\ RefusedSettings(payload, Absent) = {}
                                  /\ config = Configuration(payload, Environment, Absent)
  BY DEF Configs
<1> DEFINE names == EnabledNames(payload)
           n == Len(names)
<1>2. /\ names \in Seq(STRING) \ {<<>>}
      /\ \A i \in DOMAIN names : FamilyAlias[names[i]] \in Families
  BY <1>1, EnabledNamesType
<1>3. n \in Nat \ {0} /\ DOMAIN names = 1..n
  BY <1>2
<1> HIDE DEF names, n
<1>0. PICK trace : Enabled!IsTrace(trace, <<>>, names, n)
  BY <1>3, Enabled!FoldTrace
<1>4. /\ trace[0] = <<>>
      /\ \A k \in 1..n : trace[k] = AlsoEnabled(trace[k - 1], names[k])
      /\ Enabled!Fold(<<>>, names) = trace[n]
  BY <1>0 DEF Enabled!IsTrace
<1> DEFINE P == {k \in Nat : k <= n =>
                   /\ trace[k] \in Seq(Families) /\ Distinct(trace[k])
                   /\ k # 0 => trace[k] # <<>>}
<1>5. 0 \in P
  <2>1. <<>> \in Seq(Families) /\ DOMAIN <<>> = {}
    OBVIOUS
  <2>2. Distinct(<<>>)
    BY <2>1 DEF Distinct
  <2> QED
    BY <1>4, <2>1, <2>2
<1>6. ASSUME NEW k \in Nat, k \in P PROVE k + 1 \in P
  <2> SUFFICES ASSUME k + 1 <= n
               PROVE  trace[k + 1] \in Seq(Families) \ {<<>>} /\ Distinct(trace[k + 1])
    OBVIOUS
  <2>1. /\ trace[k] \in Seq(Families) /\ Distinct(trace[k])
        /\ k + 1 \in 1..n /\ (k + 1) - 1 = k
    BY <1>3, <1>6
  <2> QED
    BY <1>2, <1>3, <1>4, <2>1, AlsoEnabledType
<1> HIDE DEF P
<1>7. Nat \subseteq P
  BY <1>5, <1>6, Enabled!SetInduction
<1>8. n \in P
  BY <1>3, <1>7
<1>9. trace[n] \in Seq(Families) /\ Distinct(trace[n]) /\ trace[n] # <<>>
  BY <1>3, <1>8 DEF P
<1>10. Enabled!Fold(<<>>, names) = EnabledFamilies(payload)
  BY DEF EnabledFamilies, names, Enabled!Fold, Enabled!FoldLeft, FoldLeft, MapThenFoldSet,
         Enabled!MapThenFoldSet, Max, Enabled!Max
<1>11. InitialYear(payload) \in Nat \ {0}
  <2>1. ~Positive(InitialYear(payload)) => "initial_year" \in RefusedSettings(payload, Absent)
    BY DEF RefusedSettings
  <2> QED
    BY <1>1, <2>1 DEF Positive
<1> QED
  BY <1>1, <1>4, <1>9, <1>10, <1>11 DEF Configuration

-----------------------------------------------------------------------------
(* Statements and locks.                                                    *)

\* Conflicts are of two, and between some of the locks.
LEMMA ConflictFacts ==
  /\ \A a, b : Conflict(a, b) => Conflict(b, a)
  /\ \A a, b, c : a \subseteq c /\ Conflict(a, b) => Conflict(c, b)
  /\ \A a, b, c : Conflict(a \cup c, b) => Conflict(a, b) \/ Conflict(c, b)
  /\ \A a : ~Conflict({}, a)
BY DEF Conflict, Compatible

\* The family a process is at.
LEMMA FamilyIs ==
  ASSUME NEW process, NEW tables, ProcessIsSound(process, tables),
         process.stage \in {"next_family"} \cup Storing
  PROVE  Family(process) \in Families /\ process.config \in Configs
<1>1. /\ process.cycle.results \in Seq(ResultRecords) /\ process.config \in Configs
      /\ process.cycle.families = process.config.families
      /\ Len(process.cycle.results) <= Len(process.cycle.families)
      /\ Len(process.cycle.results) # Len(process.cycle.families)
  BY DEF ProcessIsSound, ProcessRecords, CycleRecords, CycleIsSound, InACycle, Storing, Writing
<1>2. process.config.families \in Seq(Families)
  BY <1>1, ConfigType
<1>3. Len(process.cycle.results) + 1 \in 1..Len(process.config.families)
  BY <1>1, <1>2
<1> QED
  BY <1>1, <1>2, <1>3 DEF Family

\* What the assumption says of a batch.
LEMMA BatchFacts ==
  ASSUME NEW f \in Families, NEW batch \in BatchesOf[f]
  PROVE  /\ batch.parsed \in Nat /\ Len(batch.writes) \in Nat
         /\ DOMAIN batch.writes = 1..Len(batch.writes)
         /\ \A i \in 1..Len(batch.writes) :
              /\ batch.writes[i].table \in Tables \ {YearTable}
              /\ RowOf(batch.writes[i]) \subseteq BatchRows
              /\ \A j \in 1..(i - 1) :
                   /\ Position(batch.writes[j].table) <= Position(batch.writes[i].table)
                   /\ RowOf(batch.writes[j]) \cap RowOf(batch.writes[i]) = {}
<1> DEFINE writes == batch.writes
<1>1. /\ batch.parsed \in Nat /\ writes \in Seq(Range(writes))
      /\ \A i \in DOMAIN writes :
           /\ writes[i].table \in Tables \ {YearTable}
           /\ \A j \in 1..(i - 1) :
                /\ Position(writes[j].table) <= Position(writes[i].table)
                /\ RowOf(writes[j]) \cap RowOf(writes[i]) = {}
  BY BatchesAssumption
<1>2. \A i \in DOMAIN writes : RowOf(writes[i]) \subseteq BatchRows
  <2>1. batch \in Batches
    BY DEF Batches
  <2>2. \A i \in DOMAIN writes : RowOf(writes[i]) \subseteq RowsOf(batch)
    BY DEF RowsOf
  <2>3. RowsOf(batch) \subseteq BatchRows
    BY <2>1 DEF BatchRows
  <2> QED
    BY <2>2, <2>3
<1> HIDE DEF writes
<1>3. DOMAIN writes = 1..Len(writes) /\ Len(writes) \in Nat
  BY <1>1
<1> QED
  BY <1>1, <1>2, <1>3 DEF writes

\* The batch of a process.
LEMMA BatchIs ==
  ASSUME NEW process, ProcessIsSound(process, schema), process.stage \in Storing
  PROVE  /\ Family(process) \in Families /\ process.batch \in BatchesOf[Family(process)]
         /\ process.target \in Nat
BY FamilyIs DEF ProcessIsSound, WritingIsSound, CycleIsSound

\* A process writes its rows in the order of the catalog.
LEMMA WrittenFacts ==
  ASSUME NEW process, ProcessIsSound(process, schema), process.stage \in Writing
  PROVE  /\ WriteCount(process) \in Nat
         /\ \A i \in 1..WriteCount(process) : /\ Written(process, i) \in Tables
                                            /\ RowWritten(process, i) \subseteq BatchRows
         /\ \A i, j \in 1..WriteCount(process) : i < j =>
              Position(Written(process, i)) <= Position(Written(process, j))
<1>1. CASE process.stage = "storing"
  <2> DEFINE writes == process.batch.writes
  <2>1. /\ Len(writes) \in Nat
        /\ \A i \in 1..Len(writes) :
             /\ writes[i].table \in Tables /\ RowOf(writes[i]) \subseteq BatchRows
             /\ \A j \in 1..(i - 1) : Position(writes[j].table) <= Position(writes[i].table)
    BY <1>1, BatchIs, BatchFacts DEF Storing
  <2>2. \A i, j \in 1..Len(writes) : i < j => i \in 1..(j - 1)
    BY <2>1
  <2>3. /\ WriteCount(process) = Len(writes)
        /\ \A i : Written(process, i) = writes[i].table /\ RowWritten(process, i) = RowOf(writes[i])
    BY <1>1 DEF WriteCount, Written, RowWritten
  <2> HIDE DEF writes
  <2> QED
    BY <2>1, <2>2, <2>3
<1>2. CASE process.stage = "recording"
  <2>1. /\ WriteCount(process) = 1
        /\ \A i : Written(process, i) = YearTable
        /\ \A i : RowWritten(process, i) = {<<YearTable, <<Family(process), process.target>>>>}
    BY <1>2 DEF WriteCount, Written, RowWritten
  <2>2. YearTable \in Tables /\ Position(YearTable) \in Nat
    BY ConfiguredRunnerAssumption, CatalogFacts
  <2>3. <<YearTable, <<Family(process), process.target>>>> \in BatchRows
    <3>1. Family(process) \in Families /\ process.target \in Nat
      BY <1>2, BatchIs DEF Storing
    <3>2. <<YearTable, <<Family(process), process.target>>>> \in YearRows
      BY <3>1 DEF YearRows
    <3> QED
      BY <3>2 DEF BatchRows
  <2>4. Position(YearTable) <= Position(YearTable)
    BY <2>2
  <2> QED
    BY <2>1, <2>2, <2>3, <2>4
<1>3. CASE process.stage = "history"
  <2>1. /\ WriteCount(process) = 3
        /\ \A i : Written(process, i) = HistoryTables[i] /\ RowWritten(process, i) = {}
    BY <1>3 DEF WriteCount, Written, RowWritten
  <2>2. /\ HistoryTables \in Seq(Tables) /\ DOMAIN HistoryTables = 1..3
        /\ Len(HistoryTables) = 3
    BY ConfiguredRunnerAssumption DEF HistoryTables, InCatalogOrder
  <2>3. \A i \in 1..3 : HistoryTables[i] \in Tables
    <3>1. PICK names \in Seq(Tables) : names = HistoryTables
      BY <2>2
    <3>2. \A i \in 1..Len(names) : names[i] \in Tables
      OBVIOUS
    <3> QED
      BY <2>2, <3>1, <3>2
  <2>4. \A i, j \in 1..3 : i < j => Position(HistoryTables[i]) < Position(HistoryTables[j])
    BY <2>2, ConfiguredRunnerAssumption DEF InCatalogOrder
  <2>5. \A i \in 1..3 : Position(HistoryTables[i]) \in Nat
    BY <2>3, CatalogFacts
  <2> QED
    BY <2>1, <2>3, <2>4, <2>5
<1> QED
  BY <1>1, <1>2, <1>3 DEF Writing, Storing

\* The statement a process is at, and the row it writes.
LEMMA StatementIs ==
  ASSUME NEW process, ProcessIsSound(process, schema)
  PROVE  /\ process.stage = "creating" /\ process.at <= N =>
              /\ process.at \in 1..N
              /\ Statement(process) = [kind |-> "table", table |-> Name(process.at)]
         /\ process.stage = "creating" /\ N < process.at /\ process.at <= Len(Statements) =>
              /\ process.at \in 1..Len(Statements)
              /\ Statement(process).kind = "index"
              /\ Statement(process).table = Statements[process.at].table
              /\ Statement(process).table \in Tables
         /\ process.stage \in Writing /\ process.at <= WriteCount(process) =>
              /\ process.at \in 1..WriteCount(process)
              /\ Statement(process) = [kind |-> "write", table |-> Written(process, process.at)]
              /\ Statement(process).table \in Tables
              /\ RowAt(process) = RowWritten(process, process.at)
         /\ ( \/ process.stage \notin InTransactions
              \/ process.stage = "creating" /\ process.at > Len(Statements)
              \/ process.stage \in Writing /\ process.at > WriteCount(process) )
            => Statement(process).kind = "none"
         /\ ( \/ process.stage \notin Writing
              \/ process.at > WriteCount(process) )
            => RowAt(process) = {}
<1>1. N \in Nat /\ Len(Statements) \in Nat /\ N <= Len(Statements)
  BY CatalogFacts, StatementFacts
<1>2. process.stage = "creating" => process.at \in 1..(Len(Statements) + 1)
  BY DEF ProcessIsSound, CreationIsSound
<1>3. process.stage \in Writing =>
        WriteCount(process) \in Nat /\ process.at \in 1..(WriteCount(process) + 1)
  BY WrittenFacts DEF ProcessIsSound, WritingIsSound
<1>4. CASE process.stage = "creating"
  <2>1. process.at <= Len(Statements) => Statement(process) = Statements[process.at]
    BY <1>4 DEF Statement
  <2>2. process.at > Len(Statements) => Statement(process).kind = "none"
    BY <1>1, <1>2, <1>4 DEF Statement
  <2>3. process.at <= N => process.at \in 1..N /\ process.at <= Len(Statements)
    BY <1>1, <1>2, <1>4
  <2>4. process.at <= Len(Statements) => process.at \in 1..Len(Statements)
    BY <1>1, <1>2, <1>4
  <2>5. RowAt(process) = {}
    BY <1>4 DEF RowAt
  <2> QED
    BY <1>4, <2>1, <2>2, <2>3, <2>4, <2>5, StatementFacts DEF InTransactions, Writing, Storing
<1>5. CASE process.stage \in Writing
  <2>1. process.at <= WriteCount(process) => process.at \in 1..WriteCount(process)
    BY <1>3, <1>5
  <2>2. process.at > WriteCount(process) <=> ~(process.at <= WriteCount(process))
    BY <1>3, <1>5
  <2>3. ASSUME process.at <= WriteCount(process)
        PROVE  /\ Statement(process) = [kind |-> "write", table |-> Written(process, process.at)]
               /\ RowAt(process) = RowWritten(process, process.at)
    <3>1. process.stage = "recording" => process.at = 1
      BY <1>3, <2>3, <1>5 DEF WriteCount
    <3> QED
      BY <1>5, <2>3, <3>1 DEF Statement, RowAt, WriteCount, Written, RowWritten, Writing, Storing
  <2>4. ASSUME ~(process.at <= WriteCount(process))
        PROVE  Statement(process).kind = "none" /\ RowAt(process) = {}
    <3>1. process.stage = "recording" => process.at # 1
      BY <2>4 DEF WriteCount
    <3> QED
      BY <1>5, <2>4, <3>1 DEF Statement, RowAt, WriteCount, Writing, Storing
  <2>5. Statement(process) = [kind |-> "write", table |-> Written(process, process.at)] =>
          Statement(process).table = Written(process, process.at)
    OBVIOUS
  <2> QED
    BY <1>5, <2>1, <2>2, <2>3, <2>4, <2>5, WrittenFacts DEF InTransactions, Writing, Storing
<1>6. CASE process.stage \notin InTransactions
  BY <1>6 DEF Statement, RowAt, InTransactions, Writing, Storing
<1> QED
  BY <1>4, <1>5, <1>6 DEF InTransactions, Writing, Storing

\* The locks a process wants: for a table that is new, for an index, for rows.
LEMMA WantedIs ==
  ASSUME NEW process, ProcessIsSound(process, schema)
  PROVE  /\ Wanted(process) # {} => process.stage \in InTransactions
         /\ process.stage = "creating" /\ Wanted(process) # {} =>
              \/ /\ process.at \in 1..N /\ Name(process.at) \notin schema \cup process.made
                 /\ \A w \in Wanted(process) :
                      \/ w = <<Name(process.at), "access_exclusive">>
                      \/ w[1] \in References(Name(process.at)) /\ w[2] = "share_row_exclusive"
              \/ /\ process.at \in 1..Len(Statements) /\ N < process.at
                 /\ \A w \in Wanted(process) : w = <<Statements[process.at].table, "share">>
         /\ process.stage \in Writing /\ Wanted(process) # {} =>
              /\ process.at \in 1..WriteCount(process)
              /\ \A w \in Wanted(process) : w = <<Written(process, process.at), "row_exclusive">>
         /\ Wanted(process) \subseteq Tables \X Modes
         /\ Wanted(process) \cap process.locks = {}
<1> DEFINE statement == Statement(process)
<1>1. statement.kind = "none" => Wanted(process) = {}
  BY DEF Wanted
<1>2. statement.kind # "none" =>
        Wanted(process) = LocksOf(statement, Exists(process, statement.table)) \ process.locks
  BY DEF Wanted
<1>3. process.stage \notin InTransactions => Wanted(process) = {}
  BY <1>1, StatementIs
<1>4. N \in Nat /\ Len(Statements) \in Nat /\ Wanted(process) \cap process.locks = {}
  BY <1>1, <1>2, CatalogFacts, StatementFacts
<1> HIDE DEF statement
<1>5. CASE process.stage = "creating" /\ process.at <= N
  <2>1. process.at \in 1..N /\ statement = [kind |-> "table", table |-> Name(process.at)]
    BY <1>5, StatementIs DEF statement
  <2> DEFINE t == Name(process.at)
  <2>2. t \in Tables /\ References(t) \subseteq Tables
    BY <2>1, CatalogFacts, ReferencesBefore
  <2>3. statement.kind = "table" /\ statement.table = t
    BY <2>1
  <2> HIDE DEF t
  <2>4. Wanted(process) # {} =>
          /\ ~Exists(process, t)
          /\ \A w \in Wanted(process) : \/ w = <<t, "access_exclusive">>
                                        \/ w \in References(t) \X {"share_row_exclusive"}
    BY <1>2, <2>3 DEF LocksOf
  <2>5. Wanted(process) \subseteq Tables \X Modes
    BY <2>2, <2>4 DEF Modes
  <2> QED
    BY <1>4, <1>5, <2>1, <2>4, <2>5 DEF t, Exists, InTransactions, Writing, Storing
<1>6. CASE process.stage = "creating" /\ N < process.at /\ process.at <= Len(Statements)
  <2>1. /\ process.at \in 1..Len(Statements) /\ statement.kind = "index"
        /\ statement.table = Statements[process.at].table /\ statement.table \in Tables
    BY <1>6, StatementIs DEF statement
  <2>2. \A w \in Wanted(process) : w = <<statement.table, "share">>
    BY <1>2, <2>1 DEF LocksOf
  <2> QED
    BY <1>4, <1>6, <2>1, <2>2 DEF InTransactions, Modes, Writing, Storing
<1>7. CASE process.stage \in Writing /\ process.at <= WriteCount(process)
  <2>1. /\ process.at \in 1..WriteCount(process) /\ statement.kind = "write"
        /\ statement.table = Written(process, process.at) /\ statement.table \in Tables
    BY <1>7, StatementIs DEF statement
  <2>2. \A w \in Wanted(process) : w = <<statement.table, "row_exclusive">>
    BY <1>2, <2>1 DEF LocksOf
  <2> QED
    BY <1>4, <1>7, <2>1, <2>2 DEF InTransactions, Modes, Writing, Storing
<1>8. CASE \/ process.stage = "creating" /\ process.at > Len(Statements)
           \/ process.stage \in Writing /\ process.at > WriteCount(process)
  <2>1. Wanted(process) = {}
    BY <1>1, <1>8, StatementIs DEF statement
  <2> QED
    BY <2>1
<1>9. /\ process.stage = "creating" => process.at \in Nat
      /\ process.stage \in Writing => process.at \in Nat /\ WriteCount(process) \in Nat
  BY WrittenFacts DEF ProcessIsSound, ProcessRecords
<1> QED
  BY <1>3, <1>4, <1>5, <1>6, <1>7, <1>8, <1>9 DEF InTransactions, Writing, Storing

-----------------------------------------------------------------------------
(* Waiting.                                                                 *)

\* A process that waits for another wants a lock that the other has, or writes a row that
\* the other has written.
LEMMA WaitingIs ==
  ASSUME NEW p \in Processes, NEW q \in Processes, WaitsFor(p, q)
  PROVE  \/ \E w \in Wanted(processes[p]), h \in processes[q].locks :
              w[1] = h[1] /\ ~Compatible(w[2], h[2])
         \/ \E row \in RowAt(processes[p]) : row \in processes[q].rows
BY DEF WaitsFor, Conflict

\* A process that creates tables writes no rows.
LEMMA CreatorWritesNothing ==
  ASSUME RunnerInv, NEW p \in Processes, processes[p].stage = "creating"
  PROVE  RowAt(processes[p]) = {} /\ processes[p].rows = {}
<1>1. ProcessIsSound(processes[p], schema)
  BY DEF RunnerInv
<1> QED
  BY <1>1, StatementIs DEF ProcessIsSound, Writing, Storing

\* A table is made by one process only.
LEMMA MadeApart ==
  ASSUME RunnerInv, NEW p \in Processes, NEW q \in Processes, p # q,
         NEW t \in processes[p].made
  PROVE  t \notin processes[q].made /\ t \notin schema /\ t \in Tables
<1>1. ASSUME NEW r \in Processes, t \in processes[r].made
      PROVE  <<t, "access_exclusive">> \in processes[r].locks
  BY <1>1 DEF RunnerInv, ProcessIsSound, CreationIsSound
<1>2. ~Conflict(processes[p].locks, processes[q].locks)
  BY DEF RunnerInv, LocksAgree
<1>3. t \notin schema /\ t \in Tables
  BY DEF RunnerInv, ProcessIsSound, ProcessRecords
<1>4. t \notin processes[q].made
  BY <1>1, <1>2 DEF Conflict, Compatible
<1> QED
  BY <1>3, <1>4

\* Of two processes that create tables, only the one behind waits for the other: a process
\* that another waits for has made a table, and that one is ahead of the other.
LEMMA WaitsForTheOneAhead ==
  ASSUME RunnerInv, NEW p \in Processes, NEW q \in Processes, p # q, WaitsFor(p, q),
         processes[p].stage = "creating", processes[q].stage = "creating"
  PROVE  processes[p].at < processes[q].at
<1> DEFINE x == processes[p]
           y == processes[q]
<1>1. /\ ProcessIsSound(x, schema) /\ ProcessIsSound(y, schema)
      /\ CreationIsSound(x, schema) /\ CreationIsSound(y, schema)
      /\ x.at \in Nat /\ y.at \in Nat
  BY DEF RunnerInv, ProcessIsSound, ProcessRecords
<1>2. PICK w \in Wanted(x), h \in y.locks : w[1] = h[1] /\ ~Compatible(w[2], h[2])
  BY WaitingIs, CreatorWritesNothing
<1>3. y.made # {}
  <2> SUFFICES ASSUME y.made = {} PROVE FALSE
    OBVIOUS
  <2>1. PICK j \in 1..Len(Statements) : h[2] = "share" /\ N < j /\ j < y.at
    BY <1>1, <1>2 DEF CreationIsSound
  <2>2. \A i \in 1..N : Name(i) \in schema
    <3>1. \A i \in 1..N : i < y.at
      BY <1>1, <2>1, CatalogFacts, StatementFacts
    <3> QED
      BY <1>1, <3>1 DEF CreationIsSound
  <2>3. \A v \in Wanted(x) : v[2] = "share"
    BY <1>1, <1>2, <2>2, WantedIs
  <2> QED
    BY <1>2, <2>1, <2>3 DEF Compatible
<1>4. PICK u \in y.made : TRUE
  BY <1>3
<1>5. u \notin schema \cup x.made /\ u \in Tables
  BY <1>4, MadeApart
<1>6. Position(u) < y.at /\ Position(u) \in 1..N /\ Name(Position(u)) = u
  BY <1>1, <1>4, <1>5, CatalogFacts DEF CreationIsSound
<1>7. ~(Position(u) < x.at)
  BY <1>1, <1>5, <1>6 DEF CreationIsSound
<1> QED
  BY <1>1, <1>6, <1>7, CatalogFacts

\* A process that creates tables while another writes rows has made none: both have their
\* locks in the order of the catalog.
LEMMA CreatorAndWriter ==
  ASSUME RunnerInv, NEW p \in Processes, NEW q \in Processes, p # q,
         WaitsFor(p, q), WaitsFor(q, p),
         processes[p].stage = "creating", processes[q].stage \in Writing
  PROVE  FALSE
<1> DEFINE x == processes[p]
           y == processes[q]
<1>1. /\ ProcessIsSound(x, schema) /\ ProcessIsSound(y, schema)
      /\ CreationIsSound(x, schema) /\ WritingIsSound(y)
      /\ x.made \subseteq Tables /\ x.made \cap schema = {}
      /\ y.locks \subseteq Tables \X Modes
  BY DEF RunnerInv, ProcessIsSound, ProcessRecords
<1>2. Tables \subseteq schema
  BY <1>1 DEF ProcessIsSound, InCycles, Writing, Storing
<1>3. x.made = {}
  BY <1>1, <1>2
<1>4. PICK w \in Wanted(x), h \in y.locks : w[1] = h[1]
  BY WaitingIs, CreatorWritesNothing
<1>5. PICK v \in Wanted(y), g \in x.locks : v[1] = g[1]
  BY WaitingIs, CreatorWritesNothing
<1>6. /\ x.at \in 1..Len(Statements) /\ N < x.at
      /\ w[1] = Statements[x.at].table
  BY <1>1, <1>2, <1>4, WantedIs, CatalogFacts
<1>7. PICK j \in 1..WriteCount(y) : j < y.at /\ Written(y, j) = h[1]
  BY <1>1, <1>4 DEF WritingIsSound
<1>8. y.at \in 1..WriteCount(y) /\ v = <<Written(y, y.at), "row_exclusive">> /\ v \notin y.locks
  BY <1>1, <1>5, WantedIs
<1>9. PICK k \in 1..Len(Statements) : N < k /\ k < x.at /\ Statements[k].table = g[1]
  BY <1>1, <1>3, <1>5 DEF CreationIsSound
<1>10. /\ Written(y, j) \in Tables /\ Written(y, y.at) \in Tables
       /\ Position(Written(y, j)) <= Position(Written(y, y.at))
  BY <1>1, <1>7, <1>8, WrittenFacts
<1>11. Written(y, j) # Written(y, y.at)
  <2>1. h[2] = "row_exclusive" /\ h = <<h[1], h[2]>>
    BY <1>1, <1>4 DEF WritingIsSound
  <2> QED
    BY <1>4, <1>7, <1>8, <2>1
<1>12. k <= x.at
  BY <1>6, <1>9, StatementFacts
<1>13. Position(Statements[k].table) <= Position(Statements[x.at].table)
  BY <1>6, <1>9, <1>12, StatementFacts
<1>14. v[1] = Written(y, y.at)
  BY <1>8
<1>15. Position(Written(y, y.at)) <= Position(Written(y, j))
  BY <1>4, <1>5, <1>6, <1>7, <1>9, <1>13, <1>14
<1>16. /\ Position(Written(y, j)) \in Nat /\ Position(Written(y, y.at)) \in Nat
       /\ Position(Written(y, j)) # Position(Written(y, y.at))
  BY <1>10, <1>11, CatalogFacts
<1> QED
  BY <1>10, <1>15, <1>16

\* Of two writers the first waits for a row that the second has written before where it is.
LEMMA WriterWaitsForRow ==
  ASSUME RunnerInv, NEW p \in Processes, NEW q \in Processes, WaitsFor(p, q),
         processes[p].stage \in Writing, processes[q].stage \in Writing
  PROVE  /\ processes[p].at \in 1..WriteCount(processes[p])
         /\ \E j \in 1..WriteCount(processes[q]) :
              /\ j < processes[q].at
              /\ RowWritten(processes[p], processes[p].at) \cap RowWritten(processes[q], j) # {}
<1> DEFINE x == processes[p]
           y == processes[q]
<1>1. /\ ProcessIsSound(x, schema) /\ ProcessIsSound(y, schema) /\ WritingIsSound(y)
      /\ x.at \in Nat
  BY DEF RunnerInv, ProcessIsSound, ProcessRecords
<1>2. ASSUME NEW w \in Wanted(x), NEW h \in y.locks PROVE Compatible(w[2], h[2])
  <2>1. w[2] = "row_exclusive"
    BY <1>1, <1>2, WantedIs
  <2>2. h[2] = "row_exclusive"
    BY <1>1, <1>2 DEF WritingIsSound
  <2> QED
    BY <2>1, <2>2 DEF Compatible
<1>3. PICK row \in RowAt(x) : row \in y.rows
  BY <1>2, WaitingIs
<1>4. ~(x.at > WriteCount(x)) /\ WriteCount(x) \in Nat
  BY <1>1, <1>3, StatementIs, WrittenFacts
<1>5. x.at \in 1..WriteCount(x) /\ row \in RowWritten(x, x.at)
  BY <1>1, <1>3, <1>4, StatementIs
<1>6. PICK j \in 1..WriteCount(y) : j < y.at /\ row \in RowWritten(y, j)
  BY <1>1, <1>3 DEF WritingIsSound
<1> QED
  BY <1>5, <1>6

\* Two writers that wait for each other store two batches of one family: a row that is written
\* in both is written in the same batch at the same place, and each is behind the other.
LEMMA TwoWriters ==
  ASSUME RunnerInv, NEW p \in Processes, NEW q \in Processes,
         WaitsFor(p, q), WaitsFor(q, p),
         processes[p].stage \in Writing, processes[q].stage \in Writing
  PROVE  /\ processes[p].stage = "storing" /\ processes[q].stage = "storing"
         /\ Family(processes[p]) = Family(processes[q])
         /\ processes[p].batch # processes[q].batch
<1> DEFINE x == processes[p]
           y == processes[q]
<1>1. ProcessIsSound(x, schema) /\ ProcessIsSound(y, schema) /\ x.at \in Nat /\ y.at \in Nat
  BY DEF RunnerInv, ProcessIsSound, ProcessRecords
<1>2. /\ x.at \in 1..WriteCount(x) /\ y.at \in 1..WriteCount(y)
      /\ WriteCount(x) \in Nat /\ WriteCount(y) \in Nat
  BY <1>1, WriterWaitsForRow, WrittenFacts
<1>3. PICK j \in 1..WriteCount(y) : j < y.at /\ RowWritten(x, x.at) \cap RowWritten(y, j) # {}
  BY WriterWaitsForRow
<1>4. PICK i \in 1..WriteCount(x) : i < x.at /\ RowWritten(y, y.at) \cap RowWritten(x, i) # {}
  BY WriterWaitsForRow
<1> HIDE DEF x, y
<1>5. x.stage = "storing" /\ y.stage = "storing"
  <2>1. x.stage # "recording" /\ y.stage # "recording"
    <3>1. WriteCount(x) # 1 /\ WriteCount(y) # 1
      BY <1>2, <1>3, <1>4
    <3> QED
      BY <3>1 DEF WriteCount
  <2>2. x.stage # "history" /\ y.stage # "history"
    BY <1>3, <1>4 DEF RowWritten
  <2> QED
    BY <2>1, <2>2 DEF x, y, Writing, Storing
<1>6. /\ WriteCount(x) = Len(x.batch.writes) /\ WriteCount(y) = Len(y.batch.writes)
      /\ RowWritten(x, x.at) = RowOf(x.batch.writes[x.at])
      /\ RowWritten(x, i) = RowOf(x.batch.writes[i])
      /\ RowWritten(y, y.at) = RowOf(y.batch.writes[y.at])
      /\ RowWritten(y, j) = RowOf(y.batch.writes[j])
  BY <1>5 DEF WriteCount, RowWritten
<1>7. /\ Family(x) \in Families /\ x.batch \in BatchesOf[Family(x)]
      /\ Family(y) \in Families /\ y.batch \in BatchesOf[Family(y)]
  BY <1>1, <1>5, BatchIs DEF Storing
<1>8. Family(x) = Family(y)
  <2> SUFFICES ASSUME Family(x) # Family(y) PROVE FALSE
    OBVIOUS
  <2>1. x.batch.writes[x.at] \in Range(x.batch.writes)
    BY <1>2, <1>6, <1>7, BatchFacts DEF Range
  <2>2. y.batch.writes[j] \in Range(y.batch.writes)
    BY <1>2, <1>3, <1>6, <1>7, BatchFacts DEF Range
  <2>3. RowOf(x.batch.writes[x.at]) \cap RowOf(y.batch.writes[j]) = {}
    BY <1>7, <2>1, <2>2, BatchesAssumption
  <2> QED
    BY <1>3, <1>6, <2>3
<1>9. x.batch # y.batch
  <2> SUFFICES ASSUME x.batch = y.batch PROVE FALSE
    OBVIOUS
  <2> DEFINE writes == x.batch.writes
  <2>1. \A m \in 1..Len(writes) : \A k \in 1..(m - 1) : RowOf(writes[k]) \cap RowOf(writes[m]) = {}
    BY <1>7, BatchFacts
  <2> HIDE DEF writes
  <2>2. ASSUME NEW m \in 1..Len(writes), NEW k \in 1..Len(writes),
               RowOf(writes[m]) \cap RowOf(writes[k]) # {}, Len(writes) \in Nat
        PROVE  m = k
    <3>1. k \in 1..(m - 1) \/ m \in 1..(k - 1) \/ m = k
      BY <2>2
    <3> QED
      BY <2>1, <2>2, <3>1
  <2>3. x.at = j
    BY <1>2, <1>3, <1>6, <2>2 DEF writes
  <2>4. y.at = i
    BY <1>2, <1>4, <1>6, <2>2 DEF writes
  <2> QED
    BY <1>1, <1>2, <1>3, <1>4, <2>3, <2>4
<1> QED
  BY <1>5, <1>8, <1>9 DEF x, y

\* The locks and rows the invariant speaks of let only two such writers wait for each other.
LEMMA OnlyEditionsWaitForEachOther == RunnerInv => NoCircularWait
<1> SUFFICES ASSUME RunnerInv, NEW p \in Processes, NEW q \in Processes, p # q,
                    WaitsFor(p, q), WaitsFor(q, p)
             PROVE  /\ processes[p].stage = "storing" /\ processes[q].stage = "storing"
                    /\ Family(processes[p]) = Family(processes[q])
                    /\ processes[p].batch # processes[q].batch
  BY DEF NoCircularWait
<1>1. /\ ProcessIsSound(processes[p], schema) /\ ProcessIsSound(processes[q], schema)
      /\ processes[p].at \in Nat /\ processes[q].at \in Nat
  BY DEF RunnerInv, ProcessIsSound, ProcessRecords
<1>2. ASSUME NEW u \in Processes, NEW v \in Processes, WaitsFor(u, v)
      PROVE  processes[u].stage \in InTransactions
  <2>1. ProcessIsSound(processes[u], schema)
    BY DEF RunnerInv
  <2>2. Wanted(processes[u]) # {} \/ RowAt(processes[u]) # {}
    BY <1>2, WaitingIs
  <2> QED
    BY <2>1, <2>2, WantedIs, StatementIs DEF InTransactions, Writing, Storing
<1>3. processes[p].stage \in {"creating"} \cup Writing /\ processes[q].stage \in {"creating"} \cup Writing
  BY <1>2 DEF InTransactions, Writing, Storing
<1>4. CASE processes[p].stage = "creating" /\ processes[q].stage = "creating"
  <2>1. processes[p].at < processes[q].at /\ processes[q].at < processes[p].at
    BY <1>4, WaitsForTheOneAhead
  <2> QED
    BY <1>1, <2>1
<1>5. CASE processes[p].stage = "creating" /\ processes[q].stage \in Writing
  BY <1>5, CreatorAndWriter
<1>6. CASE processes[q].stage = "creating" /\ processes[p].stage \in Writing
  BY <1>6, CreatorAndWriter
<1>7. CASE processes[p].stage \in Writing /\ processes[q].stage \in Writing
  BY <1>7, TwoWriters
<1> QED
  BY <1>3, <1>4, <1>5, <1>6, <1>7

-----------------------------------------------------------------------------
(* Steps.                                                                   *)

Unlocked(process) == process.made = {} /\ process.locks = {} /\ process.rows = {}

\* A transaction that is over leaves no locks, and no rows that are its own.
LEMMA ReleasedFields ==
  ASSUME NEW process \in ProcessRecords
  PROVE  LET released == Released(process) IN
         /\ released \in ProcessRecords /\ Unlocked(released)
         /\ released.stage = process.stage /\ released.config = process.config
         /\ released.at = process.at /\ released.cycle = process.cycle
         /\ released.report = process.report /\ released.told = process.told
         /\ released.connected = process.connected
         /\ released.batch = process.batch /\ released.target = process.target
BY DEF Released, Unlocked, ProcessRecords

\* A process that raises is sound whatever it was doing.
LEMMA RaisedIsSound ==
  ASSUME NEW process, NEW tables, ProcessIsSound(process, tables)
  PROVE  ProcessIsSound(Raised(process), tables) /\ Unlocked(Raised(process))
<1> DEFINE released == Released(process)
           raised == [released EXCEPT !.stage = "raised"]
<1>1. /\ released \in ProcessRecords /\ Unlocked(released)
      /\ released.cycle = process.cycle
  BY ReleasedFields DEF ProcessIsSound
<1> HIDE DEF released
<1>2. /\ raised \in ProcessRecords /\ raised.stage = "raised" /\ Unlocked(raised)
      /\ raised.cycle = process.cycle
  BY <1>1 DEF ProcessRecords, Stages, Unlocked
<1>3. Raised(process) = raised
  BY DEF Raised, released
<1> HIDE DEF raised
<1>4. CycleIsSound(raised)
  BY <1>2 DEF ProcessIsSound, CycleIsSound, InACycle, Writing, Storing
<1>5. ProcessIsSound(raised, tables)
  BY <1>2, <1>4 DEF ProcessIsSound, CreationIsSound, WritingIsSound, InCycles, InTransactions, Writing, Storing,
                    Unlocked
<1> QED
  BY <1>2, <1>3, <1>5

NoCycleFacts == NoCycle \in CycleRecords /\ NoCycle.results = <<>>

\* No cycle has no results.
LEMMA NoCycleType == NoCycleFacts
<1>1. <<>> \in Seq(ResultRecords) /\ <<>> \in Seq(Families)
  OBVIOUS
<1> QED
  BY <1>1 DEF NoCycleFacts, NoCycle, CycleRecords

\* A family that is done: its result is the next one, and the transaction is over.
LEMMA WithResultIsSound ==
  ASSUME NEW process, NEW tables, ProcessIsSound(process, tables),
         process.stage \in {"next_family"} \cup Storing,
         NEW result \in ResultRecords, result.family = Family(process)
  PROVE  /\ ProcessIsSound(WithResult(process, result), tables)
         /\ Unlocked(WithResult(process, result))
<1> DEFINE results == Append(process.cycle.results, result)
           released == Released(process)
           cycle == [process.cycle EXCEPT !.results = results]
           stage == IF Len(results) = Len(process.cycle.families) THEN "history"
                    ELSE "next_family"
           done == [released EXCEPT !.cycle = cycle, !.at = 1, !.latest = NoValue,
                                    !.target = NoValue, !.batch = NoBatch,
                                    !.summary = NoSummary, !.stage = stage]
<1>1. /\ process \in ProcessRecords /\ process.cycle \in CycleRecords
      /\ process.cycle.results \in Seq(ResultRecords)
      /\ process.config \in Configs
  BY DEF ProcessIsSound, ProcessRecords, CycleRecords, Storing
<1>2. /\ released \in ProcessRecords /\ Unlocked(released)
      /\ released.cycle = process.cycle /\ released.config = process.config
      /\ released.report = process.report
  BY <1>1, ReleasedFields
<1>3. /\ process.cycle.families = process.config.families
      /\ Len(process.cycle.results) < Len(process.cycle.families)
      /\ process.cycle.families \in Seq(Families)
      /\ Len(process.cycle.results) \in Nat /\ Len(process.cycle.families) \in Nat
  <2>1. process.config.families \in Seq(Families)
    BY <1>1, ConfigType
  <2>2. /\ process.cycle.families = process.config.families
        /\ Len(process.cycle.results) <= Len(process.cycle.families)
        /\ Len(process.cycle.results) # Len(process.cycle.families)
    BY DEF ProcessIsSound, CycleIsSound, InACycle, Writing, Storing
  <2> QED
    BY <1>1, <2>1, <2>2
<1>4. /\ results \in Seq(ResultRecords) /\ Len(results) = Len(process.cycle.results) + 1
      /\ DOMAIN results = 1..(Len(process.cycle.results) + 1)
      /\ \A i \in 1..Len(process.cycle.results) : results[i] = process.cycle.results[i]
      /\ results[Len(process.cycle.results) + 1] = result
  BY <1>1
<1> HIDE DEF results, released
<1>5. /\ cycle \in CycleRecords /\ cycle.results = results
      /\ cycle.families = process.cycle.families
  BY <1>1, <1>4 DEF CycleRecords
<1>6. stage \in {"history", "next_family"}
      /\ (stage = "history" <=> Len(results) = Len(process.cycle.families))
  OBVIOUS
<1> HIDE DEF cycle, stage
<1>7. /\ done \in ProcessRecords /\ done.stage = stage /\ done.cycle = cycle /\ done.at = 1
      /\ done.config = process.config /\ done.report = process.report /\ Unlocked(done)
  BY <1>2, <1>5, <1>6 DEF ProcessRecords, Stages, Unlocked, NoSummary
<1>8. WithResult(process, result) = done
  BY <1>2 DEF WithResult, results, cycle, stage, released
<1> HIDE DEF done
<1>9. CycleIsSound(done)
  <2>1. \A i \in DOMAIN process.cycle.results :
          process.cycle.results[i].family = process.cycle.families[i]
    BY DEF ProcessIsSound, CycleIsSound
  <2>2. DOMAIN process.cycle.results = 1..Len(process.cycle.results)
    BY <1>1
  <2>3. result.family = process.cycle.families[Len(process.cycle.results) + 1]
    BY <1>3 DEF Family
  <2>4. \A i \in DOMAIN results : results[i].family = process.cycle.families[i]
    BY <1>3, <1>4, <2>1, <2>2, <2>3
  <2>5. /\ done.cycle.results = results /\ done.cycle.families = process.cycle.families
        /\ done.cycle.families = done.config.families
    BY <1>3, <1>5, <1>7
  <2>6. /\ Len(results) <= Len(process.cycle.families)
        /\ done.stage = "history" <=> Len(results) = Len(process.cycle.families)
        /\ done.stage \notin Storing
    BY <1>3, <1>4, <1>6, <1>7 DEF Storing
  <2> QED
    BY <2>4, <2>5, <2>6 DEF CycleIsSound
<1>10. Tables \subseteq tables /\ process.report.missing = {}
  BY DEF ProcessIsSound, InCycles, Storing
<1>11. WritingIsSound(done)
  <2>1. done.locks = {} /\ done.rows = {} /\ done.at = 1 /\ done.stage \notin Storing
    BY <1>6, <1>7 DEF Unlocked, Storing
  <2>2. WriteCount(done) = 3
    BY <2>1 DEF WriteCount, Storing
  <2> QED
    BY <2>1, <2>2 DEF WritingIsSound
<1>12. done.made = {} /\ done.locks = {} /\ done.rows = {} /\ done.stage # "creating"
  BY <1>6, <1>7 DEF Unlocked
<1>13. ProcessIsSound(done, tables)
  BY <1>1, <1>6, <1>7, <1>9, <1>10, <1>11, <1>12
     DEF ProcessIsSound, CreationIsSound
<1> QED
  BY <1>7, <1>8, <1>13

\* A cycle that is over has told what it has to tell, and the transaction is over.
LEMMA ToldIsSound ==
  ASSUME NEW process, NEW tables, ProcessIsSound(process, tables), process.stage = "history",
         NEW answer \in {"declared", "failed"}
  PROVE  /\ ProcessIsSound(Told(process, answer), tables) /\ Unlocked(Told(process, answer))
         /\ Told(process, answer).stage = "next_cycle"
<1> DEFINE told == [run |-> process.cycle.run, history |-> answer,
                    status |-> CycleStatus(process.cycle.results)]
           released == Released(process)
           over == [released EXCEPT !.stage = "next_cycle", !.at = 1, !.cycle = NoCycle,
                                    !.told = Append(released.told, told)]
<1>1. /\ process \in ProcessRecords /\ process.cycle \in CycleRecords
      /\ process.config \in Configs
  BY DEF ProcessIsSound, ProcessRecords
<1>2. /\ released \in ProcessRecords /\ Unlocked(released)
      /\ released.config = process.config /\ released.report = process.report
  BY <1>1, ReleasedFields
<1>3. told \in ToldRecords
  BY <1>1 DEF ToldRecords, CycleRecords, CycleStatus
<1> HIDE DEF told, released
<1>4. Append(released.told, told) \in Seq(ToldRecords)
  BY <1>2, <1>3 DEF ProcessRecords
<1>5. /\ over \in ProcessRecords /\ over.stage = "next_cycle" /\ over.cycle = NoCycle
      /\ over.at = 1 /\ over.config = process.config /\ over.report = process.report
      /\ Unlocked(over)
  BY <1>2, <1>4, NoCycleType DEF NoCycleFacts, ProcessRecords, Stages, Unlocked
<1>6. Told(process, answer) = over
  BY DEF Told, told, released
<1> HIDE DEF over
<1>7. CycleIsSound(over)
  BY <1>5, NoCycleType DEF NoCycleFacts, CycleIsSound, InACycle, Writing, Storing
<1>8. Tables \subseteq tables /\ process.report.missing = {}
  BY DEF ProcessIsSound, InCycles
<1>9. ProcessIsSound(over, tables)
  BY <1>1, <1>5, <1>7, <1>8 DEF ProcessIsSound, CreationIsSound, WritingIsSound, InCycles,
                           InTransactions, Writing, Storing, Unlocked
<1> QED
  BY <1>5, <1>6, <1>9

\* A process that holds no more locks than before conflicts with nobody, and neither does one
\* that took locks nobody else has.
LEMMA LocksStay ==
  ASSUME RunnerInv, NEW p \in Processes, NEW locks, locks \subseteq processes[p].locks
  PROVE  \A q \in Processes : q # p => ~Conflict(locks, processes[q].locks)
BY ConflictFacts DEF RunnerInv, LocksAgree

\* Locks that nobody else has may be taken.
LEMMA LocksGrow ==
  ASSUME RunnerInv, NEW p \in Processes, \A q \in Others(p) : ~WaitsFor(p, q)
  PROVE  \A q \in Processes :
           q # p => ~Conflict(processes[p].locks \cup Wanted(processes[p]), processes[q].locks)
<1> TAKE q \in Processes
<1> HAVE q # p
<1>1. ~Conflict(processes[p].locks, processes[q].locks)
  BY DEF RunnerInv, LocksAgree
<1>2. ~Conflict(Wanted(processes[p]), processes[q].locks)
  BY DEF Others, WaitsFor
<1> QED
  BY <1>1, <1>2, ConflictFacts

\* A step of one process that leaves the tables alone keeps the invariant if the process is
\* sound after it and has no lock that conflicts with another's.
LEMMA OneMoves ==
  ASSUME RunnerInv, NEW p \in Processes, NEW new, Becomes(p, new), schema' = schema,
         ProcessIsSound(new, schema), YearsAreSound(years'), CountersAreSound',
         \A q \in Processes : q # p => ~Conflict(new.locks, processes[q].locks)
  PROVE  RunnerInv'
<1>1. /\ DOMAIN processes' = Processes /\ processes'[p] = new
      /\ \A q \in Processes : q # p => processes'[q] = processes[q]
  BY DEF Becomes, RunnerInv
<1>2. \A q \in Processes : ProcessIsSound(processes'[q], schema')
  BY <1>1 DEF RunnerInv
<1>3. LocksAgree(processes')
  <2> SUFFICES ASSUME NEW q \in Processes, NEW r \in Processes, q # r
               PROVE  ~Conflict(processes'[q].locks, processes'[r].locks)
    BY DEF LocksAgree
  <2>1. CASE q = p
    BY <1>1, <2>1
  <2>2. CASE r = p
    BY <1>1, <2>2, ConflictFacts
  <2>3. CASE q # p /\ r # p
    BY <1>1, <2>3 DEF RunnerInv, LocksAgree
  <2> QED
    BY <2>1, <2>2, <2>3
<1> QED
  BY <1>1, <1>2, <1>3 DEF RunnerInv

\* A step outside of a transaction, or that ends one.
LEMMA OneMovesUnlocked ==
  ASSUME RunnerInv, NEW p \in Processes, NEW new, Becomes(p, new), schema' = schema,
         ProcessIsSound(new, schema), Unlocked(new), YearsAreSound(years'), CountersAreSound'
  PROVE  RunnerInv'
<1>1. new.locks = {}
  BY DEF Unlocked
<1>2. \A q \in Processes : ~Conflict(new.locks, processes[q].locks)
  BY <1>1, ConflictFacts
<1> QED
  BY <1>2, OneMoves

\* A process outside of a transaction and of a cycle.
LEMMA SoundOutside ==
  ASSUME NEW new \in ProcessRecords, NEW tables,
         new.stage \in Stages \ (InACycle \cup {"creating"}), Unlocked(new),
         new.stage \notin {"not_started", "raised"} => new.config \in Configs,
         new.at = 1,
         \A i \in DOMAIN new.cycle.results :
           new.cycle.results[i].family = new.cycle.families[i],
         new.stage \in InCycles \cup {"reporting"} => Tables \subseteq tables,
         new.stage \in InCycles => new.report.missing = {}
  PROVE  ProcessIsSound(new, tables)
BY DEF ProcessIsSound, CycleIsSound, CreationIsSound, WritingIsSound, InACycle, Writing, Storing, InTransactions,
       Unlocked

\* What holds of a process before any step of its own.
LEMMA BeforeStep ==
  ASSUME RunnerInv, NEW p \in Processes
  PROVE  /\ ProcessIsSound(processes[p], schema) /\ processes[p] \in ProcessRecords
         /\ YearsAreSound(years) /\ CountersAreSound
         /\ \A i \in DOMAIN processes[p].cycle.results :
              processes[p].cycle.results[i].family = processes[p].cycle.families[i]
BY DEF RunnerInv, ProcessIsSound, CycleIsSound

-----------------------------------------------------------------------------
(* Startup.                                                                 *)

\* Loading the configuration raises, or answers one of the configurations.
LEMMA LoadConfigKeeps ==
  ASSUME RunnerInv, NEW p \in Processes, NEW payload \in Payloads, LoadConfig(p, payload)
  PROVE  RunnerInv'
<1> DEFINE process == processes[p]
           config == Configuration(payload, Environment, Absent)
           loaded == [process EXCEPT !.stage = "connecting", !.config = config]
<1>1. /\ ProcessIsSound(process, schema) /\ process \in ProcessRecords
      /\ process.stage = "not_started" /\ process.at = 1 /\ Unlocked(process)
      /\ YearsAreSound(years') /\ CountersAreSound' /\ schema' = schema
      /\ \A i \in DOMAIN process.cycle.results :
           process.cycle.results[i].family = process.cycle.families[i]
  BY BeforeStep DEF LoadConfig, ProcessIsSound, CountersAreSound, bounds, Unlocked, InTransactions, Writing, Storing
<1>2. CASE RefusedSettings(payload, Absent) # {}
  <2>1. Becomes(p, Raised(process))
    BY <1>2 DEF LoadConfig
  <2> QED
    BY <1>1, <2>1, RaisedIsSound, OneMovesUnlocked
<1>3. CASE RefusedSettings(payload, Absent) = {}
  <2>1. Becomes(p, loaded)
    BY <1>3 DEF LoadConfig
  <2>2. config \in Configs
    BY <1>3 DEF Configs
  <2> HIDE DEF config
  <2>3. /\ loaded \in ProcessRecords /\ loaded.stage = "connecting" /\ loaded.at = 1
        /\ loaded.config \in Configs /\ loaded.cycle = process.cycle /\ Unlocked(loaded)
    BY <1>1, <2>2 DEF ProcessRecords, Stages, Unlocked
  <2> HIDE DEF loaded, process
  <2>4. ProcessIsSound(loaded, schema)
    BY <1>1, <2>3, SoundOutside DEF InCycles, InACycle, Writing, Storing, Stages
  <2> QED
    BY <1>1, <2>1, <2>3, <2>4, OneMovesUnlocked
<1> QED
  BY <1>2, <1>3

\* Connecting.
LEMMA ConnectKeeps ==
  ASSUME RunnerInv, NEW p \in Processes, Connect(p)
  PROVE  RunnerInv'
<1> DEFINE process == processes[p]
           ready == process.config.database.ready
           connected == [process EXCEPT !.stage = "looking", !.connected = TRUE]
<1>1. /\ ProcessIsSound(process, schema) /\ process \in ProcessRecords
      /\ process.config \in Configs /\ process.at = 1 /\ Unlocked(process)
      /\ YearsAreSound(years') /\ CountersAreSound' /\ schema' = schema
      /\ \A i \in DOMAIN process.cycle.results :
           process.cycle.results[i].family = process.cycle.families[i]
      /\ Becomes(p, IF ready THEN connected ELSE Raised(process))
  BY BeforeStep DEF Connect, ProcessIsSound, CountersAreSound, bounds, Unlocked, InTransactions, Writing, Storing
<1>2. CASE ~ready
  BY <1>1, <1>2, RaisedIsSound, OneMovesUnlocked
<1>3. CASE ready
  <2>1. /\ connected \in ProcessRecords /\ connected.stage = "looking" /\ connected.at = 1
        /\ connected.config \in Configs /\ connected.cycle = process.cycle
        /\ Unlocked(connected)
    BY <1>1 DEF ProcessRecords, Stages, Unlocked
  <2>2. Becomes(p, connected)
    BY <1>1, <1>3
  <2> HIDE DEF connected, process
  <2>3. ProcessIsSound(connected, schema)
    BY <1>1, <2>1, SoundOutside DEF InCycles, InACycle, Writing, Storing, Stages
  <2> QED
    BY <1>1, <2>1, <2>2, <2>3, OneMovesUnlocked
<1> QED
  BY <1>2, <1>3

\* Looking before the bootstrap; its transaction begins without locks.
LEMMA LookBeforeKeeps ==
  ASSUME RunnerInv, NEW p \in Processes, LookBefore(p)
  PROVE  RunnerInv'
<1> DEFINE process == processes[p]
           looked == [process EXCEPT !.stage = "creating", !.before = schema]
<1>1. /\ ProcessIsSound(process, schema) /\ process \in ProcessRecords
      /\ process.config \in Configs /\ process.at = 1 /\ Unlocked(process)
      /\ YearsAreSound(years') /\ CountersAreSound' /\ schema' = schema
      /\ \A i \in DOMAIN process.cycle.results :
           process.cycle.results[i].family = process.cycle.families[i]
      /\ Becomes(p, looked) /\ schema \subseteq Tables
  BY BeforeStep DEF LookBefore, ProcessIsSound, CountersAreSound, bounds, Unlocked,
                    InTransactions, Writing, Storing, RunnerInv
<1>2. /\ looked \in ProcessRecords /\ looked.stage = "creating" /\ looked.at = 1
      /\ looked.config \in Configs /\ looked.cycle = process.cycle /\ Unlocked(looked)
  BY <1>1 DEF ProcessRecords, Stages, Unlocked
<1> HIDE DEF looked, process
<1>3. CreationIsSound(looked, schema)
  <2>1. looked.at \in 1..(Len(Statements) + 1) /\ ~\E j \in 1..N : j < looked.at
    BY <1>2, StatementFacts, CatalogFacts
  <2> QED
    BY <1>2, <2>1 DEF CreationIsSound, Unlocked
<1>4. ProcessIsSound(looked, schema)
  BY <1>1, <1>2, <1>3 DEF ProcessIsSound, CycleIsSound, WritingIsSound, InACycle, Writing, Storing, InCycles,
                          InTransactions, Unlocked
<1> QED
  BY <1>1, <1>2, <1>4, OneMovesUnlocked

\* A process that meets the creator of its table waits, with the locks it has.
LEMMA MeetsCreatorKeeps ==
  ASSUME RunnerInv, NEW p \in Processes, MeetsCreator(p)
  PROVE  RunnerInv'
<1> DEFINE process == processes[p]
           met == [process EXCEPT !.collides = TRUE]
<1>1. /\ ProcessIsSound(process, schema) /\ process \in ProcessRecords
      /\ YearsAreSound(years') /\ CountersAreSound' /\ schema' = schema /\ Becomes(p, met)
  BY BeforeStep DEF MeetsCreator, CountersAreSound, bounds
<1>2. process.stage = "creating"
  <2>1. Statement(process).kind = "table"
    BY DEF MeetsCreator
  <2>2. CASE process.stage \in Writing
    <3>1. process.at \in Nat /\ WriteCount(process) \in Nat
      BY <1>1, <2>2, WrittenFacts DEF ProcessRecords
    <3>2. process.at <= WriteCount(process) \/ process.at > WriteCount(process)
      BY <3>1
    <3>3. Statement(process).kind \in {"write", "none"}
      BY <1>1, <2>2, <3>2, StatementIs
    <3> QED
      BY <2>1, <3>3
  <2>3. CASE process.stage \notin InTransactions
    BY <1>1, <2>1, <2>3, StatementIs
  <2> QED
    BY <2>2, <2>3 DEF InTransactions, Writing, Storing
<1>3. /\ met \in ProcessRecords /\ met.stage = process.stage /\ met.at = process.at
      /\ met.config = process.config /\ met.cycle = process.cycle
      /\ met.made = process.made /\ met.locks = process.locks /\ met.rows = process.rows
  BY <1>1 DEF ProcessRecords
<1> HIDE DEF met, process
<1>4. ProcessIsSound(met, schema)
  BY <1>1, <1>2, <1>3 DEF ProcessIsSound, CycleIsSound, CreationIsSound, WritingIsSound, InACycle, Writing, Storing,
                          InCycles, InTransactions
<1>5. \A q \in Processes : q # p => ~Conflict(met.locks, processes[q].locks)
  <2>1. met.locks \subseteq processes[p].locks
    BY <1>3 DEF process
  <2> QED
    BY <2>1, LocksStay
<1> QED
  BY <1>1, <1>4, <1>5, OneMoves

\* The statement after the one that is executed, with its locks.
Executed(process) ==
  [process EXCEPT
     !.at = @ + 1, !.locks = @ \cup Wanted(process), !.collides = FALSE,
     !.made = @ \cup {t \in {Statement(process).table} :
                        Statement(process).kind = "table" /\ ~Exists(process, t)}]

\* What one more statement makes and locks.
Makes(process, wanted, more) ==
  /\ more \subseteq Tables /\ more \cap schema = {}
  /\ process.at <= N => Name(process.at) \in schema \cup process.made \cup more
  /\ \A u \in more : /\ Position(u) = process.at
                     /\ <<u, "access_exclusive">> \in process.locks \cup wanted
  /\ \A lock \in wanted :
       \/ \E u \in more : lock[1] \in {u} \cup References(u)
       \/ /\ lock[2] = "share" /\ N < process.at
          /\ Statements[process.at].table = lock[1]

\* What a statement makes, and the locks it leaves: a table that is new is made and locked,
\* one that exists is left alone, and an index locks its table.
LEMMA ExecutedIsSound ==
  ASSUME NEW process, ProcessIsSound(process, schema), process.stage = "creating",
         process.at <= Len(Statements)
  PROVE  /\ ProcessIsSound(Executed(process), schema)
         /\ Executed(process).locks = process.locks \cup Wanted(process)
<1> DEFINE new == Executed(process)
           statement == Statement(process)
           wanted == Wanted(process)
           more == {t \in {statement.table} : statement.kind = "table" /\ ~Exists(process, t)}
<1>1. /\ process \in ProcessRecords /\ CreationIsSound(process, schema)
      /\ process.at \in 1..Len(Statements) /\ process.config \in Configs
      /\ process.made \cap schema = {}
      /\ N \in Nat /\ Len(Statements) \in Nat /\ N <= Len(Statements)
      /\ \A i \in DOMAIN process.cycle.results :
           process.cycle.results[i].family = process.cycle.families[i]
  <2>1. process.at \in 1..(Len(Statements) + 1) /\ Len(Statements) \in Nat
    BY StatementFacts DEF ProcessIsSound, CreationIsSound
  <2>2. process.at \in 1..Len(Statements)
    BY <2>1
  <2> QED
    BY <2>2, StatementFacts, CatalogFacts DEF ProcessIsSound, CycleIsSound
<1>2. wanted \subseteq Tables \X Modes
  BY WantedIs
<1>3. ASSUME process.at <= N PROVE Makes(process, wanted, more)
  <2> DEFINE t == Name(process.at)
  <2>1. /\ process.at \in 1..N /\ statement = [kind |-> "table", table |-> t]
        /\ t \in Tables /\ Position(t) = process.at
    BY <1>1, <1>3, StatementIs, CatalogFacts
  <2>2. statement.kind = "table" /\ statement.table = t
    BY <2>1
  <2> HIDE DEF t, statement
  <2>3. CASE Exists(process, t)
    <3>1. more = {}
      BY <2>2, <2>3
    <3>2. wanted = {}
      BY <2>2, <2>3 DEF Wanted, LocksOf, statement
    <3>3. t \in schema \cup process.made
      BY <2>3 DEF Exists
    <3> HIDE DEF more, wanted
    <3> QED
      BY <1>3, <2>1, <3>1, <3>2, <3>3 DEF t, Makes
  <2>4. CASE ~Exists(process, t)
    <3>1. more = {t}
      BY <2>2, <2>4
    <3>2. wanted = ({<<t, "access_exclusive">>} \cup (References(t) \X {"share_row_exclusive"}))
                     \ process.locks
      BY <2>2, <2>4 DEF Wanted, LocksOf, statement
    <3>3. t \notin schema
      BY <2>4 DEF Exists
    <3>4. \A lock \in wanted : lock[1] \in {t} \cup References(t)
      BY <3>2
    <3>5. <<t, "access_exclusive">> \in process.locks \cup wanted
      BY <3>2
    <3> HIDE DEF more, wanted
    <3> QED
      BY <1>3, <2>1, <3>1, <3>3, <3>4, <3>5 DEF t, Makes
  <2> QED
    BY <2>3, <2>4
<1>4. ASSUME N < process.at PROVE Makes(process, wanted, more)
  <2>1. statement.kind = "index" /\ statement.table = Statements[process.at].table
    BY <1>1, <1>4, StatementIs
  <2>2. more = {}
    BY <2>1
  <2>3. \A lock \in wanted : lock[1] = Statements[process.at].table /\ lock[2] = "share"
    <3>1. wanted \subseteq {<<statement.table, "share">>}
      BY <2>1 DEF Wanted, LocksOf
    <3> QED
      BY <2>1, <3>1
  <2>4. ~(process.at <= N)
    BY <1>1, <1>4
  <2> HIDE DEF more, wanted
  <2> QED
    BY <1>4, <2>2, <2>3, <2>4 DEF Makes
<1>5. Makes(process, wanted, more)
  BY <1>1, <1>3, <1>4
<1> HIDE DEF more, wanted
<1>6. /\ new \in ProcessRecords /\ new.stage = "creating" /\ new.at = process.at + 1
      /\ new.config \in Configs /\ new.cycle = process.cycle
      /\ new.locks = process.locks \cup wanted /\ new.made = process.made \cup more
      /\ new.rows = process.rows
  <2> DEFINE at == process.at + 1
             locks == process.locks \cup wanted
             made == process.made \cup more
  <2>1. new = [process EXCEPT !.at = at, !.locks = locks, !.collides = FALSE, !.made = made]
    BY DEF Executed, more, wanted
  <2>2. process.at \in Nat /\ process.locks \subseteq Tables \X Modes /\ process.made \subseteq Tables
    BY <1>1 DEF ProcessRecords
  <2>3. at \in Nat /\ locks \subseteq Tables \X Modes /\ made \subseteq Tables
    BY <1>2, <1>5, <2>2 DEF Makes
  <2> HIDE DEF at, locks, made, new
  <2>4. /\ new \in ProcessRecords /\ new.stage = process.stage /\ new.at = at
        /\ new.config = process.config /\ new.cycle = process.cycle
        /\ new.locks = locks /\ new.made = made /\ new.rows = process.rows
    BY <1>1, <2>1, <2>3 DEF ProcessRecords
  <2> QED
    BY <1>1, <2>4 DEF at, locks, made
<1> HIDE DEF new
<1>7. CreationIsSound(new, schema)
  <2>1. new.at \in 1..(Len(Statements) + 1)
    BY <1>1, <1>6
  <2>2. ASSUME NEW j \in 1..N, j < new.at PROVE Name(j) \in schema \cup new.made
    <3>1. CASE j < process.at
      BY <1>1, <1>6, <3>1 DEF CreationIsSound
    <3>2. CASE j = process.at
      BY <1>5, <1>6, <3>2 DEF Makes
    <3> QED
      BY <1>1, <1>6, <2>2, <3>1, <3>2
  <2>3. ASSUME NEW u \in new.made
        PROVE  Position(u) < new.at /\ <<u, "access_exclusive">> \in new.locks
    <3>1. CASE u \in process.made
      <4>1. u \in Tables
        BY <1>1, <3>1 DEF ProcessRecords
      <4>2. Position(u) < process.at /\ <<u, "access_exclusive">> \in process.locks
        BY <1>1, <3>1 DEF CreationIsSound
      <4>3. Position(u) \in Nat
        BY <4>1, CatalogFacts
      <4> QED
        BY <1>1, <1>6, <4>2, <4>3
    <3>2. CASE u \in more
      BY <1>1, <1>5, <1>6, <3>2 DEF Makes
    <3> QED
      BY <1>6, <3>1, <3>2
  <2>4. ASSUME NEW lock \in new.locks
        PROVE  \/ \E u \in new.made : lock[1] \in {u} \cup References(u)
               \/ /\ lock[2] = "share"
                  /\ \E j \in 1..Len(Statements) :
                       N < j /\ j < new.at /\ Statements[j].table = lock[1]
    <3>1. CASE lock \in process.locks
      <4>1. \A j \in 1..Len(Statements) : j < process.at => j < new.at
        BY <1>1, <1>6
      <4>2. \/ \E u \in process.made : lock[1] \in {u} \cup References(u)
            \/ /\ lock[2] = "share"
               /\ \E j \in 1..Len(Statements) :
                    N < j /\ j < process.at /\ Statements[j].table = lock[1]
        BY <1>1, <3>1 DEF CreationIsSound
      <4> QED
        BY <1>6, <4>1, <4>2
    <3>2. CASE lock \in wanted
      <4>1. process.at < new.at
        BY <1>1, <1>6
      <4> QED
        BY <1>1, <1>5, <1>6, <3>2, <4>1 DEF Makes
    <3> QED
      BY <1>6, <3>1, <3>2
  <2> QED
    BY <2>1, <2>2, <2>3, <2>4 DEF CreationIsSound
<1>8. ProcessIsSound(new, schema)
  BY <1>1, <1>5, <1>6, <1>7 DEF Makes, ProcessIsSound, CycleIsSound, WritingIsSound, InACycle, Writing, Storing, InCycles,
                                InTransactions
<1> QED
  BY <1>6, <1>8 DEF new, wanted

\* A statement of the bootstrap.
LEMMA ExecuteDdlKeeps ==
  ASSUME RunnerInv, NEW p \in Processes, ExecuteDdl(p)
  PROVE  RunnerInv'
<1> DEFINE process == processes[p]
<1>1. /\ ProcessIsSound(process, schema) /\ process.stage = "creating"
      /\ process.at <= Len(Statements)
      /\ YearsAreSound(years') /\ CountersAreSound' /\ schema' = schema
      /\ Becomes(p, Executed(process)) /\ \A q \in Others(p) : ~WaitsFor(p, q)
  BY BeforeStep DEF ExecuteDdl, Executed, CountersAreSound, bounds
<1>2. ProcessIsSound(Executed(process), schema)
  BY <1>1, ExecutedIsSound
<1>3. Executed(process).locks = process.locks \cup Wanted(process)
  BY <1>1, ExecutedIsSound
<1>4. \A q \in Processes : q # p => ~Conflict(Executed(process).locks, processes[q].locks)
  BY <1>1, <1>3, LocksGrow
<1> HIDE DEF process
<1> QED
  BY <1>1, <1>2, <1>4, OneMoves

\* A collision raises.
LEMMA CreationCollidesKeeps ==
  ASSUME RunnerInv, NEW p \in Processes, CreationCollides(p)
  PROVE  RunnerInv'
<1> DEFINE process == processes[p]
<1>1. /\ ProcessIsSound(process, schema) /\ Becomes(p, Raised(process))
      /\ YearsAreSound(years') /\ CountersAreSound' /\ schema' = schema
  BY BeforeStep DEF CreationCollides, CountersAreSound, bounds
<1> HIDE DEF process
<1> QED
  BY <1>1, RaisedIsSound, OneMovesUnlocked

\* The tables a process made are there when it commits, and those were all that were missing;
\* what another process made meanwhile is none of them.
LEMMA CommitSchemaKeeps ==
  ASSUME RunnerInv, NEW p \in Processes, CommitSchema(p)
  PROVE  RunnerInv'
<1> DEFINE process == processes[p]
           released == Released(process)
           new == [released EXCEPT !.stage = "reporting", !.at = 1]
<1>1. /\ ProcessIsSound(process, schema) /\ process \in ProcessRecords
      /\ process.stage = "creating" /\ process.at > Len(Statements)
      /\ process.config \in Configs /\ CreationIsSound(process, schema)
      /\ YearsAreSound(years') /\ CountersAreSound' /\ schema' = schema \cup process.made
      /\ \A i \in DOMAIN process.cycle.results :
           process.cycle.results[i].family = process.cycle.families[i]
      /\ Becomes(p, new) /\ schema \subseteq Tables /\ process.made \subseteq Tables
  BY BeforeStep DEF CommitSchema, ProcessIsSound, CountersAreSound, bounds, RunnerInv,
                    ProcessRecords
<1>2. Tables \subseteq schema'
  <2>1. \A j \in 1..N : j < process.at
    BY <1>1, StatementFacts, CatalogFacts DEF CreationIsSound
  <2>2. \A j \in 1..N : Name(j) \in schema \cup process.made
    BY <1>1, <2>1 DEF CreationIsSound
  <2> HIDE DEF process
  <2> QED
    BY <1>1, <2>2, CatalogFacts
<1>3. schema' = Tables
  BY <1>1, <1>2
<1>4. IsClosed(schema')
  BY <1>3, ReferencesBefore DEF IsClosed
<1>5. /\ released \in ProcessRecords /\ Unlocked(released)
      /\ released.config = process.config /\ released.cycle = process.cycle
  BY <1>1, ReleasedFields
<1> HIDE DEF released
<1>6. /\ new \in ProcessRecords /\ new.stage = "reporting" /\ new.at = 1 /\ Unlocked(new)
      /\ new.config \in Configs /\ new.cycle = process.cycle
  BY <1>1, <1>5 DEF ProcessRecords, Stages, Unlocked
<1> HIDE DEF new
<1>7. ProcessIsSound(new, schema')
  <2> HIDE DEF process
  <2> QED
    BY <1>1, <1>2, <1>6, SoundOutside DEF InCycles, InACycle, Writing, Storing, Stages
<1>8. ASSUME NEW q \in Processes, q # p PROVE ProcessIsSound(processes[q], schema')
  <2> DEFINE other == processes[q]
  <2>1. other.made \cap process.made = {}
    BY <1>8, MadeApart
  <2>2. ProcessIsSound(other, schema)
    BY DEF RunnerInv
  <2> HIDE DEF other, process
  <2>3. CreationIsSound(other, schema')
    BY <1>1, <2>2 DEF ProcessIsSound, CreationIsSound
  <2>4. other.made \cap schema' = {}
    BY <1>1, <2>1, <2>2 DEF ProcessIsSound
  <2> QED
    BY <1>2, <2>2, <2>3, <2>4 DEF ProcessIsSound, other
<1>9. /\ DOMAIN processes' = Processes /\ processes'[p] = new
      /\ \A q \in Processes : q # p => processes'[q] = processes[q]
  BY <1>1 DEF Becomes, RunnerInv
<1>10. LocksAgree(processes')
  <2> SUFFICES ASSUME NEW q \in Processes, NEW r \in Processes, q # r
               PROVE  ~Conflict(processes'[q].locks, processes'[r].locks)
    BY DEF LocksAgree
  <2>1. new.locks = {}
    BY <1>6 DEF Unlocked
  <2>2. CASE q = p \/ r = p
    BY <1>9, <2>1, <2>2 DEF Conflict
  <2>3. CASE q # p /\ r # p
    BY <1>9, <2>3 DEF RunnerInv, LocksAgree
  <2> QED
    BY <2>2, <2>3
<1>11. \A q \in Processes : ProcessIsSound(processes'[q], schema')
  BY <1>7, <1>8, <1>9
<1> QED
  BY <1>1, <1>3, <1>4, <1>9, <1>10, <1>11 DEF RunnerInv

\* What the bootstrap reports; nothing is missing.
LEMMA LookAfterKeeps ==
  ASSUME RunnerInv, NEW p \in Processes, LookAfter(p)
  PROVE  RunnerInv'
<1> DEFINE process == processes[p]
           report == Report(process.before, schema)
           new == [process EXCEPT !.stage = "next_cycle", !.before = {}, !.report = report]
<1>1. /\ ProcessIsSound(process, schema) /\ process \in ProcessRecords
      /\ process.stage = "reporting" /\ Unlocked(process)
      /\ process.config \in Configs /\ Tables \subseteq schema
      /\ YearsAreSound(years') /\ CountersAreSound' /\ schema' = schema
      /\ \A i \in DOMAIN process.cycle.results :
           process.cycle.results[i].family = process.cycle.families[i]
      /\ Becomes(p, new)
  BY BeforeStep DEF LookAfter, ProcessIsSound, CountersAreSound, bounds, Unlocked, InTransactions, Writing, Storing
<1>2. report \in [created : SUBSET Tables, missing : SUBSET Tables] /\ report.missing = {}
  BY <1>1 DEF Report
<1> HIDE DEF report
<1>3. /\ new \in ProcessRecords /\ new.stage = "next_cycle" /\ new.report.missing = {}
      /\ new.config \in Configs /\ new.cycle = process.cycle /\ Unlocked(new)
  BY <1>1, <1>2 DEF ProcessRecords, Stages, Unlocked
<1> HIDE DEF new, process
<1>4. ProcessIsSound(new, schema)
  BY <1>1, <1>3 DEF ProcessIsSound, CycleIsSound, CreationIsSound, WritingIsSound, InCycles,
                    InACycle, Writing, Storing, InTransactions, Unlocked
<1> QED
  BY <1>1, <1>3, <1>4, OneMovesUnlocked

-----------------------------------------------------------------------------
(* A cycle.                                                                 *)

\* A cycle begins with no results and some families.
LEMMA BeginCycleKeeps ==
  ASSUME RunnerInv, NEW p \in Processes, BeginCycle(p)
  PROVE  RunnerInv'
<1> DEFINE process == processes[p]
           number == Len(process.told) + 1
           cycle == [run |-> RunId(number, clock + 1), started |-> clock + 1,
                     number |-> number, families |-> process.config.families,
                     initialYear |-> process.config.initialYear, results |-> <<>>]
           new == [process EXCEPT !.stage = "next_family", !.cycle = cycle]
<1>1. /\ ProcessIsSound(process, schema) /\ process \in ProcessRecords
      /\ process.stage = "next_cycle" /\ Unlocked(process)
      /\ process.config \in Configs /\ Tables \subseteq schema /\ process.report.missing = {}
      /\ YearsAreSound(years') /\ schema' = schema /\ clock \in Nat
      /\ Becomes(p, new)
  BY BeforeStep DEF BeginCycle, ProcessIsSound, CountersAreSound, bounds, Unlocked,
                    InTransactions, Writing, Storing, InCycles
<1>2. CountersAreSound'
  BY <1>1 DEF BeginCycle, RunnerInv, CountersAreSound, bounds
<1>3. /\ process.config.families \in Seq(Families) /\ process.config.families # <<>>
      /\ process.config.initialYear \in Nat
  BY <1>1, ConfigType
<1>4. number \in Nat /\ clock + 1 \in Nat
  BY <1>1 DEF ProcessRecords
<1>5. <<>> \in Seq(ResultRecords) /\ Len(<<>>) = 0 /\ DOMAIN <<>> = {}
  OBVIOUS
<1> HIDE DEF number
<1>6. /\ cycle \in CycleRecords /\ cycle.results = <<>>
      /\ cycle.families = process.config.families
  BY <1>3, <1>4, <1>5 DEF CycleRecords, RunId
<1> HIDE DEF cycle
<1>7. /\ new \in ProcessRecords /\ new.stage = "next_family" /\ new.cycle = cycle
      /\ new.config = process.config /\ new.report = process.report /\ Unlocked(new)
  BY <1>1, <1>6 DEF ProcessRecords, Stages, Unlocked
<1> HIDE DEF new, process
<1>8. CycleIsSound(new)
  <2>1. Len(process.config.families) \in Nat \ {0}
    BY <1>3
  <2> QED
    BY <1>5, <1>6, <1>7, <2>1 DEF CycleIsSound, Storing
<1>9. ProcessIsSound(new, schema)
  BY <1>1, <1>7, <1>8 DEF ProcessIsSound, CreationIsSound, WritingIsSound, InCycles,
                    InTransactions, Writing, Storing, Unlocked
<1> QED
  BY <1>1, <1>2, <1>7, <1>9, OneMovesUnlocked

\* Without a connection the cycle raises.
LEMMA CycleRaisesKeeps ==
  ASSUME RunnerInv, NEW p \in Processes, CycleRaises(p)
  PROVE  RunnerInv'
<1> DEFINE process == processes[p]
<1>1. /\ ProcessIsSound(process, schema) /\ Becomes(p, Raised(process))
      /\ YearsAreSound(years') /\ CountersAreSound' /\ schema' = schema
  BY BeforeStep DEF CycleRaises, CountersAreSound, bounds
<1> HIDE DEF process
<1> QED
  BY <1>1, RaisedIsSound, OneMovesUnlocked

\* A process that has run its cycles returns.
LEMMA ReturnKeeps ==
  ASSUME RunnerInv, NEW p \in Processes, Return(p)
  PROVE  RunnerInv'
<1> DEFINE process == processes[p]
           new == [process EXCEPT !.stage = "returned"]
<1>1. /\ ProcessIsSound(process, schema) /\ process \in ProcessRecords
      /\ process.stage = "next_cycle" /\ Unlocked(process)
      /\ process.config \in Configs /\ Tables \subseteq schema /\ process.report.missing = {}
      /\ YearsAreSound(years') /\ CountersAreSound' /\ schema' = schema /\ Becomes(p, new)
  BY BeforeStep DEF Return, ProcessIsSound, CountersAreSound, bounds, Unlocked,
                    InTransactions, Writing, Storing, InCycles
<1>2. /\ new \in ProcessRecords /\ new.stage = "returned" /\ new.cycle = process.cycle
      /\ new.config = process.config /\ new.report = process.report /\ Unlocked(new)
  BY <1>1 DEF ProcessRecords, Stages, Unlocked
<1> HIDE DEF new, process
<1>3. ProcessIsSound(new, schema)
  BY <1>1, <1>2 DEF ProcessIsSound, CycleIsSound, CreationIsSound, WritingIsSound, InCycles,
                    InACycle, Writing, Storing, InTransactions, Unlocked
<1> QED
  BY <1>1, <1>2, <1>3, OneMovesUnlocked

\* The latest year of a family, and the year a process is at, which is never the year zero.
LEMMA TargetIs ==
  ASSUME YearsAreSound(years), NEW process, process.config \in Configs, NEW f \in Families
  PROVE  /\ Latest(f) \in Nat \cup {NoValue}
         /\ Target(process, f) \in Nat \ {0}
<1>1. PICK n \in Nat : years[f] \subseteq 1..n
  BY DEF YearsAreSound
<1>2. Latest(f) = NoValue \/ Latest(f) \in Nat
  <2>1. CASE years[f] = {}
    BY <2>1 DEF Latest
  <2>2. CASE years[f] # {}
    <3>1. Enabled!Max(years[f]) \in years[f]
      BY <1>1, <2>2, Enabled!MaxInSet, Zenon
    <3>2. Enabled!Max(years[f]) = Max(years[f])
      BY DEF Enabled!Max, Max
    <3> QED
      BY <1>1, <2>2, <3>1, <3>2 DEF Latest
  <2> QED
    BY <2>1, <2>2
<1>3. process.config.initialYear \in Nat \ {0}
  BY ConfigType
<1> QED
  BY <1>2, <1>3 DEF Target

\* The result of a family.
LEMMA ResultType ==
  ASSUME NEW f \in Families, NEW latest \in Nat \cup {NoValue}, NEW target \in Nat,
         NEW status \in {"completed", "failed", "no_available_source_year"},
         NEW download \in {NoValue, "failed", "downloaded"}, NEW parsed \in Nat,
         NEW inserted \in Nat, NEW skipped \in Nat, NEW told \in Seq(FailureRecords)
  PROVE  LET result == [Result(f, latest, target, status) EXCEPT
                          !.download = download, !.parsed = parsed, !.inserted = inserted,
                          !.skipped = skipped, !.failures = told]
         IN result \in ResultRecords /\ result.family = f
BY DEF Result, ResultRecords

\* A step that ends with the result of a family.
LEMMA WithResultKeeps ==
  ASSUME RunnerInv, NEW p \in Processes,
         processes[p].stage \in {"next_family"} \cup Storing,
         NEW result \in ResultRecords, result.family = Family(processes[p]),
         Becomes(p, WithResult(processes[p], result)), schema' = schema,
         YearsAreSound(years'), CountersAreSound'
  PROVE  RunnerInv'
<1> DEFINE new == WithResult(processes[p], result)
<1>1. ProcessIsSound(new, schema) /\ Unlocked(new)
  BY BeforeStep, WithResultIsSound
<1> HIDE DEF new
<1>2. Becomes(p, new)
  BY DEF new
<1> QED
  BY <1>1, <1>2, OneMovesUnlocked

\* The next year is not available.
LEMMA NotAvailableKeeps ==
  ASSUME RunnerInv, NEW p \in Processes, NotAvailable(p)
  PROVE  RunnerInv'
<1> DEFINE process == processes[p]
           f == Family(process)
           result == Result(f, Latest(f), Target(process, f), "no_available_source_year")
<1>1. /\ process.stage = "next_family" /\ Becomes(p, WithResult(process, result))
      /\ YearsAreSound(years') /\ CountersAreSound' /\ schema' = schema
  BY BeforeStep DEF NotAvailable, FamilyIsNext, CountersAreSound, bounds
<1>2. f \in Families /\ process.config \in Configs
  BY <1>1, BeforeStep, FamilyIs
<1>3. Latest(f) \in Nat \cup {NoValue} /\ Target(process, f) \in Nat
  BY <1>2, BeforeStep, TargetIs
<1>4. result \in ResultRecords /\ result.family = f
  <2>1. <<>> \in Seq(FailureRecords)
    OBVIOUS
  <2> HIDE DEF f
  <2> QED
    BY <1>2, <1>3, <2>1 DEF Result, ResultRecords
<1> HIDE DEF result
<1> QED
  BY <1>1, <1>4, WithResultKeeps

\* The family fails before anything is stored.
LEMMA FamilyFailsKeeps ==
  ASSUME RunnerInv, NEW p \in Processes, FamilyFails(p)
  PROVE  RunnerInv'
<1> DEFINE process == processes[p]
           f == Family(process)
<1>1. /\ process.stage = "next_family"
      /\ YearsAreSound(years') /\ CountersAreSound' /\ schema' = schema
  BY BeforeStep DEF FamilyFails, FamilyIsNext, CountersAreSound, bounds
<1>2. PICK failed \in FailuresOf[f] :
        Becomes(p, WithResult(process,
          [Result(f, Latest(f), Target(process, f), "failed") EXCEPT
             !.download = failed.download, !.parsed = failed.parsed,
             !.failures = failed.failures]))
  BY DEF FamilyFails
<1> DEFINE result == [Result(f, Latest(f), Target(process, f), "failed") EXCEPT
                        !.download = failed.download, !.parsed = failed.parsed,
                        !.failures = failed.failures]
<1>3. f \in Families /\ process.config \in Configs
  BY <1>1, BeforeStep, FamilyIs
<1>4. Latest(f) \in Nat \cup {NoValue} /\ Target(process, f) \in Nat
  BY <1>3, BeforeStep, TargetIs
<1>5. /\ failed.download \in {NoValue, "failed", "downloaded"} /\ failed.parsed \in Nat
      /\ failed.failures \in Seq(FailureRecords)
  <2>1. failed \in [download : {NoValue, "failed", "downloaded"}, parsed : Nat,
                    failures : Seq(FailureDetails(f)) \ {<<>>}]
    BY <1>3, FailuresAssumption
  <2>2. FailureDetails(f) \subseteq FailureRecords
    BY <1>3 DEF FailureDetails, FailureRecords, Texts
  <2> HIDE DEF f
  <2>3. failed.failures \in Seq(FailureDetails(f))
    BY <2>1
  <2>4. failed.failures \in Seq(FailureRecords)
    BY <2>2, <2>3
  <2> QED
    BY <2>1, <2>4
<1>6. result \in ResultRecords /\ result.family = f
  <2> HIDE DEF f
  <2> QED
    BY <1>3, <1>4, <1>5 DEF Result, ResultRecords
<1>7. Becomes(p, WithResult(process, result))
  BY <1>2
<1> HIDE DEF result
<1> QED
  BY <1>1, <1>6, <1>7, WithResultKeeps

\* A process that begins a transaction of its cycle.
LEMMA SoundWriter ==
  ASSUME NEW new \in ProcessRecords, NEW tables, new.stage \in Storing, new.at = 1, Unlocked(new),
         new.config \in Configs, CycleIsSound(new), new.batch \in BatchesOf[Family(new)],
         Family(new) \in Families, Tables \subseteq tables, new.report.missing = {}
  PROVE  ProcessIsSound(new, tables)
<1>1. WriteCount(new) \in Nat
  BY BatchFacts DEF WriteCount
<1>2. new.at \in 1..(WriteCount(new) + 1)
  BY <1>1
<1>3. WritingIsSound(new)
  BY <1>2 DEF WritingIsSound, Unlocked
<1> QED
  BY <1>3 DEF ProcessIsSound, CreationIsSound, InCycles, InTransactions, Unlocked, Storing

\* The family's rows are going to be stored.
LEMMA BeginBatchKeeps ==
  ASSUME RunnerInv, NEW p \in Processes, BeginBatch(p)
  PROVE  RunnerInv'
<1> DEFINE process == processes[p]
           f == Family(process)
           latest == Latest(f)
           target == Target(process, f)
<1>0. PICK batch \in BatchesOf[f] :
        Becomes(p, [process EXCEPT !.stage = "storing", !.at = 1, !.latest = latest,
                                   !.target = target, !.batch = batch])
  BY DEF BeginBatch
<1> DEFINE new == [process EXCEPT !.stage = "storing", !.at = 1, !.latest = latest,
                                  !.target = target, !.batch = batch]
<1>1. /\ ProcessIsSound(process, schema) /\ process \in ProcessRecords
      /\ process.stage = "next_family" /\ Unlocked(process)
      /\ process.config \in Configs /\ Tables \subseteq schema /\ process.report.missing = {}
      /\ YearsAreSound(years') /\ CountersAreSound' /\ schema' = schema /\ Becomes(p, new)
  BY <1>0, BeforeStep DEF BeginBatch, FamilyIsNext, ProcessIsSound, CountersAreSound, bounds,
                          Unlocked, InTransactions, InCycles, Storing
<1>2. f \in Families /\ batch \in Batches
  BY <1>1, FamilyIs DEF Batches
<1>3. latest \in Nat \cup {NoValue} /\ target \in Nat \ {0}
  BY <1>1, <1>2, BeforeStep, TargetIs
<1> HIDE DEF latest, target
<1>4. /\ new \in ProcessRecords /\ new.stage = "storing" /\ new.cycle = process.cycle
      /\ new.at = 1 /\ new.target = target /\ new.batch = batch
      /\ new.config = process.config /\ new.report = process.report /\ Unlocked(new)
  BY <1>1, <1>2, <1>3 DEF ProcessRecords, Stages, Unlocked
<1> HIDE DEF new
<1>5. Family(new) = f
  BY <1>4 DEF Family
<1> HIDE DEF f, process
<1>6. CycleIsSound(new)
  <2>1. CycleIsSound(process)
    BY <1>1 DEF ProcessIsSound
  <2> QED
    BY <1>1, <1>3, <1>4, <2>1 DEF CycleIsSound, InACycle, Writing, Storing
<1>7. ProcessIsSound(new, schema)
  BY <1>1, <1>2, <1>4, <1>5, <1>6, SoundWriter DEF Storing
<1> QED
  BY <1>1, <1>4, <1>7, OneMovesUnlocked

\* A statement that writes takes the lock of its table, and its row.
LEMMA WriteTableKeeps ==
  ASSUME RunnerInv, NEW p \in Processes, NEW stage \in Writing, WriteTable(p, stage)
  PROVE  RunnerInv'
<1> DEFINE process == processes[p]
           wanted == Wanted(process)
           own == RowAt(process) \ stored
           at == process.at + 1
           locks == process.locks \cup wanted
           rows == process.rows \cup own
           new == [process EXCEPT !.at = at, !.locks = locks, !.rows = rows]
<1>1. /\ ProcessIsSound(process, schema) /\ process \in ProcessRecords
      /\ process.stage \in Writing /\ Statement(process).kind = "write"
      /\ WritingIsSound(process) /\ CycleIsSound(process)
      /\ process.config \in Configs /\ Tables \subseteq schema /\ process.report.missing = {}
      /\ process.made = {}
      /\ YearsAreSound(years') /\ CountersAreSound' /\ schema' = schema /\ Becomes(p, new)
      /\ \A q \in Others(p) : ~WaitsFor(p, q)
  BY BeforeStep DEF WriteTable, ProcessIsSound, CountersAreSound, bounds, InCycles, Writing, Storing
<1>2. /\ process.at \in 1..WriteCount(process) /\ WriteCount(process) \in Nat
      /\ RowAt(process) = RowWritten(process, process.at)
  <2> HIDE DEF process
  <2>1. WriteCount(process) \in Nat /\ process.at \in Nat
    BY <1>1, WrittenFacts DEF ProcessRecords
  <2>2. ~(process.at > WriteCount(process))
    BY <1>1, StatementIs
  <2> QED
    BY <1>1, <2>1, <2>2, StatementIs
<1>3. at \in 1..(WriteCount(process) + 1) /\ at \in Nat
  BY <1>2
<1>4. /\ wanted \subseteq Tables \X Modes
      /\ \A w \in wanted : w = <<Written(process, process.at), "row_exclusive">>
  <2> HIDE DEF process
  <2> QED
    BY <1>1, WantedIs
<1>5. \A q \in Processes : q # p => ~Conflict(locks, processes[q].locks)
  BY <1>1, LocksGrow
<1>6. \A w \in wanted : w[1] = Written(process, process.at) /\ w[2] = "row_exclusive"
  BY <1>4
<1>7. locks \subseteq Tables \X Modes
  BY <1>1, <1>4 DEF ProcessRecords
<1>8. /\ own \subseteq RowWritten(process, process.at)
      /\ process.stage \notin Storing => own = {} /\ process.rows = {}
  BY <1>1, <1>2 DEF RowWritten, ProcessIsSound, Writing, Storing
<1>9. rows \subseteq BatchRows
  <2>1. RowWritten(process, process.at) \subseteq BatchRows
    BY <1>1, <1>2, WrittenFacts
  <2> QED
    BY <1>1, <1>8, <2>1 DEF ProcessRecords
<1> HIDE DEF wanted, own, at
<1>10. ASSUME NEW lock \in locks
       PROVE  /\ lock[2] = "row_exclusive"
              /\ \E j \in 1..WriteCount(process) : j < at /\ Written(process, j) = lock[1]
  <2>1. CASE lock \in process.locks
    <3>1. PICK j \in 1..WriteCount(process) : j < process.at /\ Written(process, j) = lock[1]
      BY <1>1, <2>1 DEF WritingIsSound
    <3>2. j < at
      BY <1>2, <3>1 DEF at
    <3> QED
      BY <1>1, <2>1, <3>1, <3>2 DEF WritingIsSound
  <2>2. CASE lock \in wanted
    <3>1. process.at < at
      BY <1>2 DEF at
    <3> QED
      BY <1>2, <1>6, <2>2, <3>1
  <2> QED
    BY <2>1, <2>2
<1>11. ASSUME NEW row \in rows
       PROVE  \E j \in 1..WriteCount(process) : j < at /\ row \in RowWritten(process, j)
  <2>1. CASE row \in process.rows
    <3>1. PICK j \in 1..WriteCount(process) : j < process.at /\ row \in RowWritten(process, j)
      BY <1>1, <2>1 DEF WritingIsSound
    <3>2. j < at
      BY <1>2, <3>1 DEF at
    <3> QED
      BY <3>1, <3>2
  <2>2. CASE row \in own
    <3>1. process.at < at
      BY <1>2 DEF at
    <3> QED
      BY <1>2, <1>8, <2>2, <3>1
  <2> QED
    BY <2>1, <2>2
<1>12. process.stage \notin Storing => rows = {}
  BY <1>8
<1> HIDE DEF locks, rows
<1>13. /\ new \in ProcessRecords /\ new.stage = process.stage /\ new.cycle = process.cycle
       /\ new.at = at /\ new.locks = locks /\ new.rows = rows /\ new.made = {}
       /\ new.target = process.target /\ new.batch = process.batch
       /\ new.config = process.config /\ new.report = process.report
  BY <1>1, <1>3, <1>7, <1>9 DEF ProcessRecords
<1> HIDE DEF new
<1>14. /\ WriteCount(new) = WriteCount(process) /\ Family(new) = Family(process)
       /\ \A j : Written(new, j) = Written(process, j) /\ RowWritten(new, j) = RowWritten(process, j)
  BY <1>13 DEF WriteCount, Written, RowWritten, Family
<1> HIDE DEF process
<1>15. CycleIsSound(new)
  BY <1>1, <1>13 DEF CycleIsSound
<1>16. WritingIsSound(new)
  <2>1. new.stage \in Storing => new.batch \in BatchesOf[Family(new)]
    BY <1>1, <1>13, <1>14 DEF WritingIsSound
  <2>2. new.at \in 1..(WriteCount(new) + 1)
    BY <1>3, <1>13, <1>14
  <2>3. \A lock \in new.locks :
          /\ lock[2] = "row_exclusive"
          /\ \E j \in 1..WriteCount(new) : j < new.at /\ Written(new, j) = lock[1]
    BY <1>10, <1>13, <1>14
  <2>4. \A row \in new.rows :
          \E j \in 1..WriteCount(new) : j < new.at /\ row \in RowWritten(new, j)
    BY <1>11, <1>13, <1>14
  <2> QED
    BY <2>1, <2>2, <2>3, <2>4 DEF WritingIsSound
<1>17. ProcessIsSound(new, schema)
  BY <1>1, <1>12, <1>13, <1>15, <1>16 DEF ProcessIsSound, CreationIsSound, InTransactions, Writing,
                                          Storing
<1>18. \A q \in Processes : q # p => ~Conflict(new.locks, processes[q].locks)
  BY <1>5, <1>13
<1> QED
  BY <1>1, <1>17, <1>18, OneMoves

\* One more year is recorded.
LEMMA YearRecorded ==
  ASSUME YearsAreSound(years), NEW f \in Families, NEW target \in Nat \ {0}
  PROVE  YearsAreSound([years EXCEPT ![f] = @ \cup {target}])
<1> DEFINE recorded == [years EXCEPT ![f] = @ \cup {target}]
<1>1. /\ DOMAIN recorded = Families /\ recorded[f] = years[f] \cup {target}
      /\ \A g \in Families : g # f => recorded[g] = years[g]
  BY DEF YearsAreSound
<1>2. PICK n \in Nat : years[f] \subseteq 1..n
  BY DEF YearsAreSound
<1>3. recorded[f] \subseteq 1..(n + target)
  BY <1>1, <1>2
<1>4. n + target \in Nat
  BY <1>2
<1> HIDE DEF recorded
<1>5. \A g \in Families : \E m \in Nat : recorded[g] \subseteq 1..m
  BY <1>1, <1>3, <1>4 DEF YearsAreSound
<1> QED
  BY <1>1, <1>5 DEF YearsAreSound, recorded

\* Details are counted.
LEMMA DetailsType ==
  ASSUME NEW process, ProcessIsSound(process, schema), process.stage \in Storing, NEW inserted
  PROVE  Details(process, inserted) \in Nat
<1> DEFINE writes == process.batch.writes
           counted == {i \in DOMAIN writes : LET write == writes[i] IN
                         write.detail /\ (inserted <=> RowOf(write) \subseteq process.rows)}
<1>1. DOMAIN writes = 1..Len(writes) /\ Len(writes) \in Nat
  BY BatchIs, BatchFacts
<1> HIDE DEF writes
<1>2. IsFiniteSet(1..Len(writes))
  BY <1>1, FS_Interval
<1>3. counted \subseteq 1..Len(writes)
  BY <1>1
<1> HIDE DEF counted
<1>4. Cardinality(counted) \in Nat
  BY <1>2, <1>3, FS_Subset, FS_CardinalityType
<1> QED
  BY <1>4 DEF Details, counted, writes

\* The batch is committed; the year is next.
LEMMA CommitRowsKeeps ==
  ASSUME RunnerInv, NEW p \in Processes, CommitRows(p)
  PROVE  RunnerInv'
<1> DEFINE process == processes[p]
           released == Released(process)
           summary == [inserted |-> Details(process, TRUE), skipped |-> Details(process, FALSE)]
           new == [released EXCEPT !.stage = "recording", !.at = 1, !.summary = summary]
<1>1. /\ ProcessIsSound(process, schema) /\ process \in ProcessRecords
      /\ process.stage = "storing" /\ CycleIsSound(process)
      /\ process.config \in Configs /\ Tables \subseteq schema /\ process.report.missing = {}
      /\ YearsAreSound(years') /\ CountersAreSound' /\ schema' = schema
      /\ Becomes(p, new)
  BY BeforeStep DEF CommitRows, CountersAreSound, bounds, ProcessIsSound, InCycles
<1>2. Details(process, TRUE) \in Nat /\ Details(process, FALSE) \in Nat
  <2> HIDE DEF process
  <2> QED
    BY <1>1, DetailsType DEF Storing
<1>3. summary \in [inserted : Nat, skipped : Nat]
  BY <1>2
<1>4. Family(process) \in Families /\ process.batch \in BatchesOf[Family(process)]
  BY <1>1, BatchIs DEF Storing
<1>5. /\ released \in ProcessRecords /\ Unlocked(released) /\ released.cycle = process.cycle
      /\ released.config = process.config /\ released.report = process.report
      /\ released.batch = process.batch /\ released.target = process.target
  BY <1>1, ReleasedFields
<1> HIDE DEF released, summary
<1>6. /\ new \in ProcessRecords /\ new.stage = "recording" /\ new.at = 1 /\ Unlocked(new)
      /\ new.cycle = process.cycle /\ new.config = process.config
      /\ new.report = process.report /\ new.batch = process.batch
      /\ new.target = process.target
  BY <1>3, <1>5 DEF ProcessRecords, Stages, Unlocked
<1> HIDE DEF new
<1>7. Family(new) = Family(process)
  BY <1>6 DEF Family
<1> HIDE DEF process
<1>8. CycleIsSound(new)
  BY <1>1, <1>6 DEF CycleIsSound, InACycle, Writing, Storing
<1>9. ProcessIsSound(new, schema)
  BY <1>1, <1>4, <1>6, <1>7, <1>8, SoundWriter DEF Storing
<1> QED
  BY <1>1, <1>6, <1>9, OneMovesUnlocked

\* The year is committed, and the family is done.
LEMMA CommitYearKeeps ==
  ASSUME RunnerInv, NEW p \in Processes, CommitYear(p)
  PROVE  RunnerInv'
<1> DEFINE process == processes[p]
           f == Family(process)
           result == [Result(f, process.latest, process.target, "completed") EXCEPT
                        !.download = "downloaded", !.parsed = process.batch.parsed,
                        !.inserted = process.summary.inserted,
                        !.skipped = process.summary.skipped]
<1>1. /\ ProcessIsSound(process, schema) /\ process.stage = "recording"
      /\ process.target \in Nat \ {0} /\ process.latest \in Nat \cup {NoValue}
      /\ process.summary.inserted \in Nat /\ process.summary.skipped \in Nat
      /\ YearsAreSound(years) /\ CountersAreSound' /\ schema' = schema
      /\ years' = [years EXCEPT ![f] = @ \cup {process.target}]
      /\ Becomes(p, WithResult(process, result))
  BY BeforeStep DEF CommitYear, CountersAreSound, bounds, ProcessIsSound, CycleIsSound,
                    ProcessRecords, Storing
<1>2. f \in Families /\ process.batch.parsed \in Nat
  BY <1>1, BatchIs, BatchFacts DEF Storing
<1>3. YearsAreSound(years')
  BY <1>1, <1>2, YearRecorded
<1>4. result \in ResultRecords /\ result.family = f
  <2>1. <<>> \in Seq(FailureRecords)
    OBVIOUS
  <2> HIDE DEF f, process
  <2> QED
    BY <1>1, <1>2, <2>1 DEF Result, ResultRecords
<1> HIDE DEF result
<1> QED
  BY <1>1, <1>3, <1>4, WithResultKeeps DEF Storing

\* The failure of a batch that is not stored.
LEMMA InsertFailureType ==
  \A f \in Families : InsertFailure(f) \in FailureRecords
BY DEF InsertFailure, FailureRecords, Texts

\* A statement of the batch fails.
LEMMA RowsFailKeeps ==
  ASSUME RunnerInv, NEW p \in Processes, RowsFail(p)
  PROVE  RunnerInv'
<1> DEFINE process == processes[p]
           f == Family(process)
           result == [Result(f, process.latest, process.target, "failed") EXCEPT
                        !.download = "downloaded", !.parsed = process.batch.parsed,
                        !.failures = <<InsertFailure(f)>>]
<1>1. /\ ProcessIsSound(process, schema) /\ process.stage = "storing"
      /\ process.target \in Nat \ {0} /\ process.latest \in Nat \cup {NoValue}
      /\ YearsAreSound(years') /\ schema' = schema
      /\ failures' = failures \/ (failures < MaxFailures /\ failures' = failures + 1)
      /\ clock' = clock /\ lost' = lost /\ CountersAreSound
      /\ Becomes(p, WithResult(process, result))
  BY BeforeStep DEF RowsFail, ProcessIsSound, CycleIsSound, ProcessRecords, Storing
<1>2. CountersAreSound'
  BY <1>1, ConfiguredRunnerAssumption DEF CountersAreSound
<1>3. f \in Families /\ process.batch.parsed \in Nat
  BY <1>1, BatchIs, BatchFacts DEF Storing
<1>4. <<InsertFailure(f)>> \in Seq(FailureRecords)
  <2> HIDE DEF f
  <2>1. InsertFailure(f) \in FailureRecords
    BY <1>3, InsertFailureType
  <2> QED
    BY <2>1
<1>5. result \in ResultRecords /\ result.family = f
  <2> HIDE DEF f, process
  <2> QED
    BY <1>1, <1>3, <1>4 DEF Result, ResultRecords
<1> HIDE DEF result
<1> QED
  BY <1>1, <1>2, <1>5, WithResultKeeps DEF Storing

-----------------------------------------------------------------------------
(* The history of a cycle, a lost process, and the reader.                  *)

\* The history is committed.
LEMMA CommitHistoryKeeps ==
  ASSUME RunnerInv, NEW p \in Processes, CommitHistory(p)
  PROVE  RunnerInv'
<1> DEFINE process == processes[p]
<1>1. /\ ProcessIsSound(process, schema) /\ process.stage = "history"
      /\ Becomes(p, Told(process, "declared"))
      /\ YearsAreSound(years') /\ CountersAreSound' /\ schema' = schema
  BY BeforeStep DEF CommitHistory, CountersAreSound, bounds
<1> HIDE DEF process
<1> QED
  BY <1>1, ToldIsSound, OneMovesUnlocked

\* The command is refused, or a statement of the history fails.
LEMMA HistoryFailsKeeps ==
  ASSUME RunnerInv, NEW p \in Processes, HistoryFails(p)
  PROVE  RunnerInv'
<1> DEFINE process == processes[p]
           sound == CommandIsSound(CycleCommand(process))
<1>1. /\ ProcessIsSound(process, schema) /\ process.stage = "history"
      /\ Becomes(p, Told(process, "failed")) /\ (sound => failures < MaxFailures)
      /\ failures' = IF sound THEN failures + 1 ELSE failures
      /\ clock' = clock /\ lost' = lost /\ CountersAreSound
      /\ YearsAreSound(years') /\ schema' = schema
  BY BeforeStep DEF HistoryFails
<1> HIDE DEF process, sound
<1>2. CountersAreSound'
  BY <1>1, ConfiguredRunnerAssumption DEF CountersAreSound
<1> QED
  BY <1>1, <1>2, ToldIsSound, OneMovesUnlocked

\* The answer of the commit is lost, and the connection with it.
LEMMA HistoryAnswerLostKeeps ==
  ASSUME RunnerInv, NEW p \in Processes, HistoryAnswerLost(p)
  PROVE  RunnerInv'
<1> DEFINE process == processes[p]
           told == Told(process, "failed")
           new == [told EXCEPT !.connected = FALSE]
<1>1. /\ ProcessIsSound(process, schema) /\ process.stage = "history" /\ Becomes(p, new)
      /\ lost < MaxLost /\ lost' = lost + 1 /\ clock' = clock /\ failures' = failures
      /\ CountersAreSound /\ YearsAreSound(years') /\ schema' = schema
  BY BeforeStep DEF HistoryAnswerLost
<1>2. CountersAreSound'
  BY <1>1, ConfiguredRunnerAssumption DEF CountersAreSound
<1>3. ProcessIsSound(told, schema) /\ Unlocked(told) /\ told.stage = "next_cycle"
  BY <1>1, ToldIsSound
<1> HIDE DEF told
<1>4. /\ new \in ProcessRecords /\ new.stage = told.stage /\ new.cycle = told.cycle
      /\ new.config = told.config /\ new.report = told.report /\ Unlocked(new)
  BY <1>3 DEF ProcessIsSound, ProcessRecords, Unlocked
<1> HIDE DEF new, process
<1>5. ProcessIsSound(new, schema)
  BY <1>3, <1>4 DEF ProcessIsSound, CycleIsSound, CreationIsSound, WritingIsSound, InACycle, Writing, Storing,
                    Unlocked
<1> QED
  BY <1>1, <1>2, <1>4, <1>5, OneMovesUnlocked

\* A process is lost.
LEMMA ProcessIsLostKeeps ==
  ASSUME RunnerInv, NEW p \in Processes, ProcessIsLost(p)
  PROVE  RunnerInv'
<1> DEFINE process == processes[p]
<1>1. /\ ProcessIsSound(process, schema) /\ Becomes(p, Raised(process))
      /\ lost < MaxLost /\ lost' = lost + 1 /\ clock' = clock /\ failures' = failures
      /\ CountersAreSound /\ YearsAreSound(years') /\ schema' = schema
  BY BeforeStep DEF ProcessIsLost
<1> HIDE DEF process
<1>2. CountersAreSound'
  BY <1>1, ConfiguredRunnerAssumption DEF CountersAreSound
<1> QED
  BY <1>1, <1>2, RaisedIsSound, OneMovesUnlocked

\* Reading changes nothing the invariant is about.
LEMMA UnchangedKeeps ==
  ASSUME RunnerInv, UNCHANGED <<schema, years, clock, processes, failures, lost>>
  PROVE  RunnerInv'
BY DEF RunnerInv, CountersAreSound

-----------------------------------------------------------------------------
(* The invariant, and what it says.                                         *)

\* The invariant at the beginning, for any schema that is closed.
LEMMA RunnerInvInitially == RunnerInit => RunnerInv
<1> SUFFICES ASSUME RunnerInit PROVE RunnerInv
  OBVIOUS
<1>1. schema \subseteq Tables /\ IsClosed(schema)
  BY ConfiguredRunnerAssumption DEF RunnerInit
<1>2. YearsAreSound(years)
  BY DEF RunnerInit, YearsAreSound
<1>3. CountersAreSound
  BY ConfiguredRunnerAssumption DEF RunnerInit, CountersAreSound
<1>4. /\ NotStarted \in ProcessRecords /\ NotStarted.stage = "not_started" /\ NotStarted.at = 1
      /\ NotStarted.cycle = NoCycle /\ Unlocked(NotStarted)
  <2>1. <<>> \in Seq(ToldRecords)
    OBVIOUS
  <2> QED
    BY <2>1, NoCycleType DEF NoCycleFacts, NotStarted, ProcessRecords, Stages, NoReport, NoSummary,
                             Unlocked
<1>5. NoCycle.results = <<>> /\ DOMAIN <<>> = {}
  BY NoCycleType DEF NoCycleFacts
<1>6. ProcessIsSound(NotStarted, schema)
  BY <1>4, <1>5, SoundOutside DEF InCycles, InACycle, Writing, Storing, Stages
<1>7. \A p \in Processes : processes[p] = NotStarted
  BY DEF RunnerInit
<1>8. LocksAgree(processes)
  BY <1>4, <1>7 DEF LocksAgree, Conflict, Unlocked
<1>9. DOMAIN processes = Processes
  BY DEF RunnerInit
<1> QED
  BY <1>1, <1>2, <1>3, <1>6, <1>7, <1>8, <1>9 DEF RunnerInv

\* Every step keeps the invariant.
LEMMA RunnerInvInductive == RunnerInv /\ [RunnerNext]_runnerVars => RunnerInv'
<1> SUFFICES ASSUME RunnerInv, [RunnerNext]_runnerVars PROVE RunnerInv'
  OBVIOUS
<1>1. ASSUME NEW p \in Processes, Startup(p) PROVE RunnerInv'
  <2>1. CASE \E payload \in Payloads : LoadConfig(p, payload)
    BY <2>1, LoadConfigKeeps
  <2>2. CASE Connect(p)
    BY <2>2, ConnectKeeps
  <2>3. CASE LookBefore(p)
    BY <2>3, LookBeforeKeeps
  <2>4. CASE MeetsCreator(p)
    BY <2>4, MeetsCreatorKeeps
  <2>5. CASE CreationCollides(p)
    BY <2>5, CreationCollidesKeeps
  <2>6. CASE ExecuteDdl(p)
    BY <2>6, ExecuteDdlKeeps
  <2>7. CASE CommitSchema(p)
    BY <2>7, CommitSchemaKeeps
  <2>8. CASE LookAfter(p)
    BY <2>8, LookAfterKeeps
  <2> QED
    BY <1>1, <2>1, <2>2, <2>3, <2>4, <2>5, <2>6, <2>7, <2>8 DEF Startup
<1>2. ASSUME NEW p \in Processes, Cycle(p) PROVE RunnerInv'
  <2>1. CASE BeginCycle(p)
    BY <2>1, BeginCycleKeeps
  <2>2. CASE CycleRaises(p)
    BY <2>2, CycleRaisesKeeps
  <2>3. CASE Return(p)
    BY <2>3, ReturnKeeps
  <2>4. CASE NotAvailable(p)
    BY <2>4, NotAvailableKeeps
  <2>5. CASE FamilyFails(p)
    BY <2>5, FamilyFailsKeeps
  <2>6. CASE BeginBatch(p)
    BY <2>6, BeginBatchKeeps
  <2>7. CASE WriteRows(p)
    BY <2>7, WriteTableKeeps DEF WriteRows, Writing, Storing
  <2>8. CASE CommitRows(p)
    BY <2>8, CommitRowsKeeps
  <2>9. CASE RowsFail(p)
    BY <2>9, RowsFailKeeps
  <2>10. CASE WriteHistory(p)
    BY <2>10, WriteTableKeeps DEF WriteHistory, Writing
  <2>11. CASE CommitHistory(p)
    BY <2>11, CommitHistoryKeeps
  <2>12. CASE HistoryFails(p)
    BY <2>12, HistoryFailsKeeps
  <2>13. CASE HistoryAnswerLost(p)
    BY <2>13, HistoryAnswerLostKeeps
  <2>14. CASE WriteYear(p)
    BY <2>14, WriteTableKeeps DEF WriteYear, Writing, Storing
  <2>15. CASE CommitYear(p)
    BY <2>15, CommitYearKeeps
  <2> QED
    BY <1>2, <2>1, <2>2, <2>3, <2>4, <2>5, <2>6, <2>7, <2>8, <2>9, <2>10, <2>11, <2>12, <2>13,
       <2>14, <2>15 DEF Cycle
<1>3. ASSUME NEW p \in Processes, ProcessIsLost(p) PROVE RunnerInv'
  BY <1>3, ProcessIsLostKeeps
<1>4. CASE Read
  <2>1. UNCHANGED <<schema, years, clock, processes, failures, lost>>
    BY <1>4 DEF Read, ReadRun, ReadResults, ReadIssues, CloseDetail, Reads, bounds
  <2> QED
    BY <2>1, UnchangedKeeps
<1>5. CASE UNCHANGED runnerVars
  <2>1. UNCHANGED <<schema, years, clock, processes, failures, lost>>
    BY <1>5 DEF runnerVars
  <2> QED
    BY <2>1, UnchangedKeeps
<1> QED
  BY <1>1, <1>2, <1>3, <1>4, <1>5 DEF RunnerNext

\* The invariant always holds.
LEMMA RunnerInvHolds == RunnerSpec => []RunnerInv
BY RunnerInvInitially, RunnerInvInductive, PTL DEF RunnerSpec

\* The types; results are those of a cycle's families, in order, and locks are held only inside
\* a transaction, whatever fails or is lost (run_configured_cycle).
THEOREM TypeCorrect == RunnerSpec => []RunnerTypeOK
<1>1. RunnerInv => RunnerTypeOK
  <2> SUFFICES ASSUME RunnerInv PROVE RunnerTypeOK
    OBVIOUS
  <2>1. \A f \in Families : years[f] \subseteq Nat
    BY DEF RunnerInv, YearsAreSound
  <2>2. ASSUME NEW p \in Processes
        PROVE  /\ processes[p].stage \in Stages
               /\ processes[p].made \subseteq Tables
               /\ \A i \in DOMAIN processes[p].cycle.results :
                    processes[p].cycle.results[i].family = processes[p].cycle.families[i]
               /\ processes[p].stage \notin InTransactions =>
                    /\ processes[p].made = {} /\ processes[p].locks = {}
                    /\ processes[p].rows = {}
    BY DEF RunnerInv, ProcessIsSound, ProcessRecords, CycleIsSound, InTransactions, Writing, Storing
  <2> QED
    BY <2>1, <2>2 DEF RunnerInv, CountersAreSound, RunnerTypeOK
<1> QED
  BY <1>1, RunnerInvHolds, PTL

\* A process that runs cycles has all tables, each with the tables it refers to, and found none
\* missing, for any catalog and any number of processes that start at the same time, crash or
\* collide (bootstrap_postgresql_phase1_schema).
THEOREM TablesAreThere == RunnerSpec => []TablesBeforeCycles
<1>1. RunnerInv => TablesBeforeCycles
  BY DEF RunnerInv, ProcessIsSound, TablesBeforeCycles
<1> QED
  BY <1>1, RunnerInvHolds, PTL

\* Two transactions wait for each other only if they store two batches of one family: those of a
\* process that starts and of one that runs a cycle take their locks in the order of the catalog
\* (_idempotent_schema_statements, persist_source_family_records,
\* persist_ingestion_run_history), and of two that store the same batch only the one behind
\* waits.
THEOREM NoDeadlock == RunnerSpec => []NoCircularWait
BY OnlyEditionsWaitForEachOther, RunnerInvHolds, PTL

-----------------------------------------------------------------------------
(* The run history: the rows of a cycle tell one story, and no other cycle's  *)
(* rows ever meet them.                                                      *)

Joined == INSTANCE FoldTheorems WITH Op <- WithFailures
Kept == INSTANCE FoldTheorems WITH Op <- AlsoKept
Inserted == INSTANCE FoldTheorems WITH Op <- InsertIssue

-----------------------------------------------------------------------------
(* Sequences and sums.                                                      *)

\* The operators the instance of FoldTheorems speaks of are those of this module.
LEMMA SameOperators ==
  /\ \A S : Joined!IsFiniteSet(S) <=> IsFiniteSet(S)
  /\ \A S : Joined!Cardinality(S) = Cardinality(S)
  /\ \A fun : Joined!SumFunction(fun) = SumFunction(fun)
<1>1. \A S : Joined!IsFiniteSet(S) <=> IsFiniteSet(S)
  BY DEF IsFiniteSet, Joined!IsFiniteSet
<1>2. \A S : Joined!Cardinality(S) = Cardinality(S)
  BY DEF Cardinality, Joined!Cardinality
<1>3. \A fun : Joined!SumFunction(fun) = SumFunction(fun)
  BY DEF SumFunction, SumFunctionOnSet, FoldFunctionOnSet, MapThenFoldSet,
         Joined!SumFunction, Joined!SumFunctionOnSet, Joined!FoldFunctionOnSet,
         Joined!MapThenFoldSet
<1> QED
  BY <1>1, <1>2, <1>3

\* Two sequences one after the other.
LEMMA ConcatFacts ==
  ASSUME NEW T, NEW s \in Seq(T), NEW t \in Seq(T)
  PROVE  /\ s \o t \in Seq(T) /\ Len(s) \in Nat /\ Len(t) \in Nat
         /\ Len(s \o t) = Len(s) + Len(t)
         /\ Range(s \o t) = Range(s) \cup Range(t)
<1>1. /\ s \o t \in Seq(T) /\ Len(s) \in Nat /\ Len(t) \in Nat
      /\ Len(s \o t) = Len(s) + Len(t)
      /\ DOMAIN s = 1..Len(s) /\ DOMAIN t = 1..Len(t) /\ DOMAIN (s \o t) = 1..(Len(s) + Len(t))
  OBVIOUS
<1>2. \A i \in 1..Len(s) : (s \o t)[i] = s[i] /\ i \in 1..(Len(s) + Len(t))
  BY <1>1
<1>3. \A j \in 1..Len(t) : (s \o t)[Len(s) + j] = t[j] /\ Len(s) + j \in 1..(Len(s) + Len(t))
  BY <1>1
<1>4. \A i \in 1..(Len(s) + Len(t)) : i \in 1..Len(s) \/ \E j \in 1..Len(t) : i = Len(s) + j
  <2> TAKE i \in 1..(Len(s) + Len(t))
  <2>1. CASE i <= Len(s)
    BY <1>1, <2>1
  <2>2. CASE ~(i <= Len(s))
    <3>1. i - Len(s) \in 1..Len(t) /\ i = Len(s) + (i - Len(s))
      BY <1>1, <2>2
    <3> QED
      BY <3>1
  <2> QED
    BY <2>1, <2>2
<1> DEFINE u == s \o t
<1>5. /\ DOMAIN u = 1..(Len(s) + Len(t))
      /\ \A i \in 1..Len(s) : u[i] = s[i] /\ i \in DOMAIN u
      /\ \A j \in 1..Len(t) : u[Len(s) + j] = t[j] /\ Len(s) + j \in DOMAIN u
      /\ \A i \in DOMAIN u : i \in 1..Len(s) \/ \E j \in 1..Len(t) : i = Len(s) + j
  BY <1>1, <1>2, <1>3, <1>4
<1> HIDE DEF u
<1>6. Range(u) = Range(s) \cup Range(t)
  <2>1. ASSUME NEW i \in DOMAIN u PROVE u[i] \in Range(s) \cup Range(t)
    <3>1. CASE i \in 1..Len(s)
      BY <1>1, <1>5, <3>1 DEF Range
    <3>2. CASE \E j \in 1..Len(t) : i = Len(s) + j
      BY <1>1, <1>5, <3>2 DEF Range
    <3> QED
      BY <1>5, <3>1, <3>2
  <2>2. Range(s) \subseteq Range(u)
    BY <1>1, <1>5 DEF Range
  <2>3. Range(t) \subseteq Range(u)
    BY <1>1, <1>5 DEF Range
  <2> QED
    BY <2>1, <2>2, <2>3 DEF Range
<1> QED
  BY <1>1, <1>6 DEF u

-----------------------------------------------------------------------------
(* The failures of a cycle.                                                 *)

\* The failures of the first results.
FailuresUpTo(results, k) == UNION {Range(results[i].failures) : i \in 1..k}
Counts(results) == [i \in DOMAIN results |-> Len(results[i].failures)]
CountsUpTo(results, k) == [i \in 1..k |-> Len(results[i].failures)]

\* The failures of a cycle are those of its results, one after the other.
LEMMA AllFailuresFacts ==
  ASSUME NEW results \in Seq(ResultRecords)
  PROVE  /\ AllFailures(results) \in Seq(FailureRecords)
         /\ Range(AllFailures(results)) = FailuresUpTo(results, Len(results))
         /\ Len(AllFailures(results)) = SumFunction(Counts(results))
<1> DEFINE n == Len(results)
<1>1. n \in Nat /\ DOMAIN results = 1..n
  OBVIOUS
<1>2. \A k \in 1..n : results[k].failures \in Seq(FailureRecords)
  <2>1. \A k \in 1..n : results[k] \in ResultRecords
    OBVIOUS
  <2> QED
    BY <2>1 DEF ResultRecords
<1> HIDE DEF n
<1>0. PICK trace : Joined!IsTrace(trace, <<>>, results, n)
  BY <1>1, Joined!FoldTrace
<1>3. /\ trace[0] = <<>>
      /\ \A k \in 1..n : trace[k] = WithFailures(trace[k - 1], results[k])
      /\ Joined!Fold(<<>>, results) = trace[n]
  BY <1>0 DEF Joined!IsTrace
<1>4. \A k \in 1..n : trace[k] = trace[k - 1] \o results[k].failures
  BY <1>3 DEF WithFailures
<1> DEFINE Holds(k) == /\ trace[k] \in Seq(FailureRecords)
                       /\ Range(trace[k]) = FailuresUpTo(results, k)
                       /\ Len(trace[k]) = SumFunction(CountsUpTo(results, k))
           P == {k \in Nat : k <= n => Holds(k)}
<1>5. 0 \in P
  <2>1. /\ <<>> \in Seq(FailureRecords) /\ Len(<<>>) = 0 /\ DOMAIN <<>> = {} /\ 1..0 = {}
    OBVIOUS
  <2>2. Range(<<>>) = {} /\ FailuresUpTo(results, 0) = {}
    BY <2>1 DEF Range, FailuresUpTo
  <2>3. DOMAIN CountsUpTo(results, 0) = {}
    BY <2>1 DEF CountsUpTo
  <2>4. SumFunction(CountsUpTo(results, 0)) = 0
    BY <2>3, Joined!SumNothing, SameOperators
  <2> QED
    BY <1>3, <2>1, <2>2, <2>4
<1>6. ASSUME NEW k \in Nat, k \in P PROVE k + 1 \in P
  <2> SUFFICES ASSUME k + 1 <= n PROVE Holds(k + 1)
    OBVIOUS
  <2>1. Holds(k) /\ k + 1 \in 1..n /\ (k + 1) - 1 = k
    BY <1>1, <1>6
  <2> DEFINE more == results[k + 1].failures
  <2>2. trace[k + 1] = trace[k] \o more /\ more \in Seq(FailureRecords)
    BY <1>2, <1>4, <2>1
  <2>3. FailuresUpTo(results, k + 1) = FailuresUpTo(results, k) \cup Range(more)
    <3>1. 1..(k + 1) = (1..k) \cup {k + 1}
      OBVIOUS
    <3> QED
      BY <3>1 DEF FailuresUpTo
  <2> DEFINE before == CountsUpTo(results, k)
             after == CountsUpTo(results, k + 1)
  <2>4. /\ DOMAIN before = 1..k /\ DOMAIN after = 1..(k + 1)
        /\ after[k + 1] = Len(more) /\ Len(more) \in Nat
        /\ \A i \in 1..k : before[i] \in Nat /\ after[i] = before[i]
    <3>1. \A i \in 1..(k + 1) : i \in 1..n
      BY <1>1
    <3>2. \A i \in 1..n : Len(results[i].failures) \in Nat
      BY <1>2
    <3>3. \A i \in 1..k : i \in 1..(k + 1)
      OBVIOUS
    <3>4. k + 1 \in 1..(k + 1)
      OBVIOUS
    <3> QED
      BY <2>2, <3>1, <3>2, <3>3, <3>4 DEF CountsUpTo
  <2> HIDE DEF before, after, more
  <2>5. SumFunction(after) = SumFunction(before) + Len(more)
    <3>1. Joined!SumFunction(after) = Joined!SumFunction(before) + after[k + 1]
      BY <2>4, Joined!SumAppend
    <3> QED
      BY <2>4, <3>1, SameOperators
  <2>6. /\ trace[k] \o more \in Seq(FailureRecords)
        /\ Len(trace[k] \o more) = Len(trace[k]) + Len(more)
        /\ Range(trace[k] \o more) = Range(trace[k]) \cup Range(more)
    BY <2>1, <2>2, ConcatFacts
  <2> QED
    BY <2>1, <2>2, <2>3, <2>5, <2>6 DEF before, after
<1> HIDE DEF P
<1>7. Nat \subseteq P
  BY <1>5, <1>6, Joined!SetInduction
<1>8. Holds(n)
  <2>1. n \in P
    BY <1>1, <1>7
  <2> QED
    BY <1>1, <2>1 DEF P
<1>9. Joined!Fold(<<>>, results) = AllFailures(results)
  BY DEF AllFailures, Joined!Fold, Joined!FoldLeft, FoldLeft, MapThenFoldSet,
         Joined!MapThenFoldSet, Max, Joined!Max
<1>10. Counts(results) = CountsUpTo(results, n)
  BY <1>1 DEF Counts, CountsUpTo
<1> QED
  BY <1>3, <1>8, <1>9, <1>10 DEF n

\* What tells a failure apart from the others of its cycle.
Identities(failed) == {IssueIdentity(failure) : failure \in failed}

\* A failure is kept unless one like it is kept already.
LEMMA AlsoKeptFacts ==
  ASSUME NEW kept \in Seq(FailureRecords), NEW failure \in FailureRecords
  PROVE  /\ AlsoKept(kept, failure) \in Seq(FailureRecords)
         /\ Range(kept) \subseteq Range(AlsoKept(kept, failure))
         /\ Range(AlsoKept(kept, failure)) \subseteq Range(kept) \cup {failure}
         /\ IssueIdentity(failure) \in Identities(Range(AlsoKept(kept, failure)))
<1>1. CASE IssueIdentity(failure) \in {IssueIdentity(kept[i]) : i \in DOMAIN kept}
  <2>1. AlsoKept(kept, failure) = kept
    BY <1>1 DEF AlsoKept
  <2>2. IssueIdentity(failure) \in Identities(Range(kept))
    BY <1>1 DEF Identities, Range
  <2> QED
    BY <2>1, <2>2
<1>2. CASE IssueIdentity(failure) \notin {IssueIdentity(kept[i]) : i \in DOMAIN kept}
  <2> DEFINE one == <<failure>>
  <2>1. AlsoKept(kept, failure) = Append(kept, failure)
    BY <1>2 DEF AlsoKept
  <2>2. Append(kept, failure) = kept \o one /\ one \in Seq(FailureRecords)
    OBVIOUS
  <2>3. Range(one) = {failure}
    <3>1. DOMAIN one = {1} /\ one[1] = failure
      OBVIOUS
    <3> HIDE DEF one
    <3> QED
      BY <3>1 DEF Range
  <2> HIDE DEF one
  <2>4. kept \o one \in Seq(FailureRecords) /\ Range(kept \o one) = Range(kept) \cup {failure}
    BY <2>2, <2>3, ConcatFacts
  <2> QED
    BY <2>1, <2>2, <2>4 DEF Identities
<1> QED
  BY <1>1, <1>2

\* The failures kept are some of the cycle's, and one like each of them.
LEMMA DeduplicatedFacts ==
  ASSUME NEW results \in Seq(ResultRecords)
  PROVE  /\ Deduplicated(results) \in Seq(FailureRecords)
         /\ Range(Deduplicated(results)) \subseteq Range(AllFailures(results))
         /\ Identities(Range(AllFailures(results)))
              \subseteq Identities(Range(Deduplicated(results)))
<1> DEFINE all == AllFailures(results)
           list == all \o all
           n == Len(list)
<1>1. all \in Seq(FailureRecords)
  BY AllFailuresFacts
<1> HIDE DEF all
<1>2. list \in Seq(FailureRecords) /\ Range(list) = Range(all)
  <2>1. list \in Seq(FailureRecords) /\ Range(list) = Range(all) \cup Range(all)
    BY <1>1, ConcatFacts
  <2> QED
    BY <2>1
<1> HIDE DEF list
<1>3. n \in Nat /\ DOMAIN list = 1..n /\ \A k \in 1..n : list[k] \in FailureRecords
  BY <1>2
<1> HIDE DEF n
<1>4. PICK trace : Kept!IsTrace(trace, <<>>, list, n)
  BY <1>3, Kept!FoldTrace
<1>5. /\ trace[0] = <<>>
      /\ \A k \in 1..n : trace[k] = AlsoKept(trace[k - 1], list[k])
      /\ Kept!Fold(<<>>, list) = trace[n]
  BY <1>4 DEF Kept!IsTrace
<1> DEFINE Holds(k) ==
             /\ trace[k] \in Seq(FailureRecords)
             /\ Range(trace[k]) \subseteq Range(list)
             /\ \A i \in 1..k : IssueIdentity(list[i]) \in Identities(Range(trace[k]))
           P == {k \in Nat : k <= n => Holds(k)}
<1>6. 0 \in P
  <2>1. <<>> \in Seq(FailureRecords) /\ DOMAIN <<>> = {} /\ 1..0 = {}
    OBVIOUS
  <2>2. Range(<<>>) = {}
    BY <2>1 DEF Range
  <2> QED
    BY <1>5, <2>1, <2>2
<1>7. ASSUME NEW k \in Nat, k \in P PROVE k + 1 \in P
  <2> SUFFICES ASSUME k + 1 <= n PROVE Holds(k + 1)
    OBVIOUS
  <2>1. Holds(k) /\ k + 1 \in 1..n /\ (k + 1) - 1 = k
    BY <1>3, <1>7
  <2>2. trace[k + 1] = AlsoKept(trace[k], list[k + 1]) /\ list[k + 1] \in FailureRecords
    BY <1>3, <1>5, <2>1
  <2> DEFINE old == trace[k]
             new == trace[k + 1]
  <2>3. /\ new \in Seq(FailureRecords) /\ Range(old) \subseteq Range(new)
        /\ Range(new) \subseteq Range(old) \cup {list[k + 1]}
        /\ IssueIdentity(list[k + 1]) \in Identities(Range(new))
    BY <2>1, <2>2, AlsoKeptFacts
  <2>4. list[k + 1] \in Range(list)
    BY <1>3, <2>1 DEF Range
  <2>5. Range(old) \subseteq Range(list)
        /\ \A i \in 1..k : IssueIdentity(list[i]) \in Identities(Range(old))
    BY <2>1
  <2>6. \A i \in 1..(k + 1) : i \in 1..k \/ i = k + 1
    OBVIOUS
  <2> HIDE DEF old, new
  <2>7. Identities(Range(old)) \subseteq Identities(Range(new))
    BY <2>3 DEF Identities
  <2>8. /\ Range(new) \subseteq Range(list)
        /\ \A i \in 1..(k + 1) : IssueIdentity(list[i]) \in Identities(Range(new))
    BY <2>3, <2>4, <2>5, <2>6, <2>7
  <2> QED
    BY <2>3, <2>8 DEF new
<1> HIDE DEF P
<1>8. Nat \subseteq P
  BY <1>6, <1>7, Kept!SetInduction
<1>9. Holds(n)
  <2>1. n \in P
    BY <1>3, <1>8
  <2> QED
    BY <1>3, <2>1 DEF P
<1>10. Kept!Fold(<<>>, list) = Deduplicated(results)
  BY DEF Deduplicated, list, all, Kept!Fold, Kept!FoldLeft, FoldLeft, MapThenFoldSet,
         Kept!MapThenFoldSet, Max, Kept!Max
<1>11. Identities(Range(list)) \subseteq Identities(Range(trace[n]))
  BY <1>3, <1>9 DEF Identities, Range
<1> QED
  BY <1>2, <1>5, <1>9, <1>10, <1>11 DEF all

-----------------------------------------------------------------------------
(* The rows of a cycle.                                                     *)

IsHistory(tables) ==
  tables = [runs |-> tables.runs, results |-> tables.results, issues |-> tables.issues]
StableIds(rows) == {StableId(row) : row \in rows}

\* A row goes to the issues unless its id is there.
LEMMA InsertIssueFacts ==
  ASSUME NEW tables, IsHistory(tables), NEW row
  PROVE  LET after == InsertIssue(tables, row) IN
         /\ IsHistory(after) /\ after.runs = tables.runs /\ after.results = tables.results
         /\ tables.issues \subseteq after.issues
         /\ after.issues \subseteq tables.issues \cup {row}
         /\ StableId(row) \in StableIds(after.issues)
<1>1. CASE StableId(row) \in StableIds(tables.issues)
  BY <1>1 DEF InsertIssue, StableIds
<1>2. CASE StableId(row) \notin StableIds(tables.issues)
  <2> DEFINE after == [runs |-> tables.runs, results |-> tables.results,
                       issues |-> tables.issues \cup {row}]
  <2>1. InsertIssue(tables, row) = after
    BY <1>2 DEF InsertIssue, StableIds, IsHistory
  <2>2. StableId(row) \in StableIds(after.issues)
    BY DEF StableIds
  <2> QED
    BY <2>1, <2>2 DEF IsHistory
<1> QED
  BY <1>1, <1>2

\* The issues that are inserted are some of the rows, and one with the id of each.
LEMMA InsertIssuesFacts ==
  ASSUME NEW tables, IsHistory(tables), NEW rows, NEW n \in Nat, DOMAIN rows = 1..n
  PROVE  LET after == InsertIssues(tables, rows) IN
         /\ IsHistory(after) /\ after.runs = tables.runs /\ after.results = tables.results
         /\ tables.issues \subseteq after.issues
         /\ after.issues \subseteq tables.issues \cup Range(rows)
         /\ StableIds(Range(rows)) \subseteq StableIds(after.issues)
<1>1. PICK trace : Inserted!IsTrace(trace, tables, rows, n)
  BY Inserted!FoldTrace
<1>2. /\ trace[0] = tables
      /\ \A k \in 1..n : trace[k] = InsertIssue(trace[k - 1], rows[k])
      /\ Inserted!Fold(tables, rows) = trace[n]
  BY <1>1 DEF Inserted!IsTrace
<1> DEFINE Holds(after, k) ==
             /\ IsHistory(after) /\ after.runs = tables.runs /\ after.results = tables.results
             /\ tables.issues \subseteq after.issues
             /\ after.issues \subseteq tables.issues \cup Range(rows)
             /\ \A i \in 1..k : StableId(rows[i]) \in StableIds(after.issues)
           P == {k \in Nat : k <= n => Holds(trace[k], k)}
<1>3. 0 \in P
  BY <1>2
<1>4. ASSUME NEW k \in Nat, k \in P PROVE k + 1 \in P
  <2> SUFFICES ASSUME k + 1 <= n PROVE Holds(trace[k + 1], k + 1)
    OBVIOUS
  <2> DEFINE old == trace[k]
             new == trace[k + 1]
  <2>1. Holds(old, k) /\ k + 1 \in 1..n /\ (k + 1) - 1 = k
    BY <1>4
  <2>2. new = InsertIssue(old, rows[k + 1]) /\ rows[k + 1] \in Range(rows)
    BY <1>2, <2>1 DEF Range
  <2> HIDE DEF old, new
  <2>3. /\ IsHistory(new) /\ new.runs = old.runs /\ new.results = old.results
        /\ old.issues \subseteq new.issues
        /\ new.issues \subseteq old.issues \cup {rows[k + 1]}
        /\ StableId(rows[k + 1]) \in StableIds(new.issues)
    BY <2>1, <2>2, InsertIssueFacts
  <2>4. \A i \in 1..(k + 1) : i \in 1..k \/ i = k + 1
    OBVIOUS
  <2>5. StableIds(old.issues) \subseteq StableIds(new.issues)
    BY <2>3 DEF StableIds
  <2>6. Holds(new, k + 1)
    BY <2>1, <2>2, <2>3, <2>4, <2>5
  <2> QED
    BY <2>6 DEF new
<1> HIDE DEF P
<1>5. Nat \subseteq P
  BY <1>3, <1>4, Inserted!SetInduction
<1>6. Holds(trace[n], n)
  <2>1. n \in P
    BY <1>5
  <2> QED
    BY <2>1 DEF P
<1>7. Inserted!Fold(tables, rows) = InsertIssues(tables, rows)
  BY DEF InsertIssues, Inserted!Fold, Inserted!FoldLeft, FoldLeft, MapThenFoldSet,
         Inserted!MapThenFoldSet, Max, Inserted!Max
<1>8. StableIds(Range(rows)) \subseteq StableIds(trace[n].issues)
  BY <1>6 DEF StableIds, Range
<1> QED
  BY <1>2, <1>6, <1>7, <1>8

\* No row has the id of the run.
Fresh(run, tables) ==
  \A row \in tables.runs \cup tables.results \cup tables.issues : row.run # run

\* The failures of a family's result are the family's.
OwnFailures(result) ==
  \A i \in DOMAIN result.failures : result.failures[i].family = result.family

\* A cycle that is done: a result for each family, with failures of its own.
IsDone(cycle) ==
  /\ cycle \in CycleRecords
  /\ Distinct(cycle.families)
  /\ Len(cycle.results) = Len(cycle.families)
  /\ \A i \in DOMAIN cycle.results :
       cycle.results[i].family = cycle.families[i] /\ OwnFailures(cycle.results[i])

\* What is written of a cycle is of the cycle.
LEMMA CommandFacts ==
  ASSUME NEW cycle, IsDone(cycle)
  PROVE  /\ Len(cycle.results) \in Nat /\ DOMAIN cycle.results = 1..Len(cycle.results)
         /\ DOMAIN cycle.families = 1..Len(cycle.results)
         /\ Command(cycle).run = RunRow(cycle) /\ RunRow(cycle).run = cycle.run
         /\ Command(cycle).results =
              {ResultRow(cycle.run, cycle.results[i]) : i \in 1..Len(cycle.results)}
         /\ Range(Command(cycle).issues) =
              {IssueRow(cycle, failure) : failure \in Range(Deduplicated(cycle.results))}
         /\ \E n \in Nat : DOMAIN Command(cycle).issues = 1..n
<1>1. cycle.results \in Seq(ResultRecords) /\ cycle.families \in Seq(Families)
  BY DEF IsDone, CycleRecords
<1>2. /\ Len(cycle.results) \in Nat /\ DOMAIN cycle.results = 1..Len(cycle.results)
      /\ DOMAIN cycle.families = 1..Len(cycle.results)
  BY <1>1 DEF IsDone
<1>3. Command(cycle).run = RunRow(cycle) /\ RunRow(cycle).run = cycle.run
  BY DEF Command, RunRow
<1>4. Command(cycle).results =
        {ResultRow(cycle.run, cycle.results[i]) : i \in 1..Len(cycle.results)}
  BY <1>2 DEF Command
<1> DEFINE kept == Deduplicated(cycle.results)
<1>5. Command(cycle).issues = [i \in DOMAIN kept |-> IssueRow(cycle, kept[i])]
  BY DEF Command
<1>6. kept \in Seq(FailureRecords)
  BY <1>1, DeduplicatedFacts
<1> HIDE DEF kept
<1>7. DOMAIN kept = 1..Len(kept) /\ Len(kept) \in Nat
  BY <1>6
<1>8. Range(Command(cycle).issues) = {IssueRow(cycle, failure) : failure \in Range(kept)}
  BY <1>5 DEF Range
<1>9. \E n \in Nat : DOMAIN Command(cycle).issues = 1..n
  BY <1>5, <1>7
<1> QED
  BY <1>2, <1>3, <1>4, <1>8, <1>9 DEF kept

\* The rows of a run that is new are added, and nothing is replaced.
LEMMA PersistFacts ==
  ASSUME NEW cycle, IsDone(cycle), NEW tables, IsHistory(tables), Fresh(cycle.run, tables)
  PROVE  LET after == Persist(tables, Command(cycle)) IN
         /\ IsHistory(after)
         /\ after.runs = tables.runs \cup {RunRow(cycle)}
         /\ after.results = tables.results \cup Command(cycle).results
         /\ tables.issues \subseteq after.issues
         /\ after.issues \subseteq tables.issues \cup Range(Command(cycle).issues)
         /\ StableIds(Range(Command(cycle).issues)) \subseteq StableIds(after.issues)
<1> DEFINE row == RunRow(cycle)
           rows == Command(cycle).results
           issues == Command(cycle).issues
           first == [runs |-> tables.runs \cup {row}, results |-> tables.results,
                     issues |-> tables.issues]
           second == [runs |-> tables.runs \cup {row}, results |-> tables.results \cup rows,
                      issues |-> tables.issues]
<1>1. row.run = cycle.run /\ \A r \in rows : r.run = cycle.run
  BY CommandFacts DEF ResultRow
<1>2. PICK n \in Nat : DOMAIN issues = 1..n
  BY CommandFacts
<1>3. Persist(tables, Command(cycle)) =
        InsertIssues(UpsertResults(UpsertRun(tables, row), rows), issues)
  BY CommandFacts DEF Persist
<1> HIDE DEF row, rows, issues
<1>4. UpsertRun(tables, row) = first
  BY <1>1 DEF UpsertRun, Fresh, IsHistory
<1>5. UpsertResults(first, rows) = second
  <2>1. {r \in tables.results : \A new \in rows : ~SameResult(r, new)} = tables.results
    BY <1>1 DEF SameResult, Fresh
  <2>2. UpsertResults(first, rows) = [first EXCEPT !.results = tables.results \cup rows]
    BY <2>1 DEF UpsertResults
  <2> QED
    BY <2>2
<1>6. IsHistory(second)
  BY DEF IsHistory
<1>7. /\ second.runs = tables.runs \cup {row} /\ second.results = tables.results \cup rows
      /\ second.issues = tables.issues
  OBVIOUS
<1> HIDE DEF first, second
<1> DEFINE after == InsertIssues(second, issues)
<1>8. /\ IsHistory(after) /\ after.runs = second.runs /\ after.results = second.results
      /\ second.issues \subseteq after.issues
      /\ after.issues \subseteq second.issues \cup Range(issues)
      /\ StableIds(Range(issues)) \subseteq StableIds(after.issues)
  BY <1>2, <1>6, InsertIssuesFacts
<1>9. Persist(tables, Command(cycle)) = after
  BY <1>3, <1>4, <1>5
<1> HIDE DEF after
<1> QED
  BY <1>7, <1>8, <1>9 DEF row, rows, issues

\* What is then in the tables of the run, and of the others.
LEMMA RowsOfTheRun ==
  ASSUME NEW cycle, IsDone(cycle), NEW tables, IsHistory(tables), Fresh(cycle.run, tables)
  PROVE  LET after == Persist(tables, Command(cycle))
             issues == Range(Command(cycle).issues) IN
         /\ SourceResults(after, cycle.run) = Command(cycle).results
         /\ Issues(after, cycle.run) \subseteq issues
         /\ StableIds(issues) \subseteq StableIds(Issues(after, cycle.run))
         /\ \A run : run # cycle.run => /\ SourceResults(after, run) = SourceResults(tables, run)
                                        /\ Issues(after, run) = Issues(tables, run)
<1> DEFINE after == Persist(tables, Command(cycle))
           rows == Command(cycle).results
           issues == Range(Command(cycle).issues)
<1>1. /\ after.results = tables.results \cup rows
      /\ tables.issues \subseteq after.issues
      /\ after.issues \subseteq tables.issues \cup issues
      /\ StableIds(issues) \subseteq StableIds(after.issues)
  BY PersistFacts
<1>2. (\A r \in rows : r.run = cycle.run) /\ (\A i \in issues : i.run = cycle.run)
  BY CommandFacts DEF ResultRow, IssueRow
<1>3. \A r \in tables.results \cup tables.issues : r.run # cycle.run
  BY DEF Fresh
<1> HIDE DEF after, rows, issues
<1>4. SourceResults(after, cycle.run) = rows /\ Issues(after, cycle.run) \subseteq issues
  BY <1>1, <1>2, <1>3 DEF SourceResults, Issues
<1>5. ASSUME NEW issue \in issues
      PROVE  StableId(issue) \in StableIds(Issues(after, cycle.run))
  <2>1. PICK i \in after.issues : StableId(i) = StableId(issue)
    BY <1>1 DEF StableIds
  <2>2. i.run = cycle.run
    BY <1>2, <2>1 DEF StableId
  <2> QED
    BY <2>1, <2>2 DEF StableIds, Issues
<1>6. ASSUME NEW run, run # cycle.run
      PROVE  /\ SourceResults(after, run) = SourceResults(tables, run)
             /\ Issues(after, run) = Issues(tables, run)
  BY <1>1, <1>2, <1>6 DEF SourceResults, Issues
<1> QED
  BY <1>4, <1>5, <1>6 DEF StableIds, after, rows, issues

\* A family has one result, of the year its issues have.
LEMMA ResultOfFamily ==
  ASSUME NEW cycle, IsDone(cycle), NEW i \in DOMAIN cycle.results
  PROVE  /\ \A j \in DOMAIN cycle.results :
              cycle.results[j].family = cycle.results[i].family => j = i
         /\ TargetYear(cycle.results, cycle.results[i].family) = cycle.results[i].target
<1> DEFINE own == {j \in DOMAIN cycle.results :
                     cycle.results[j].family = cycle.results[i].family}
<1>1. \A j \in DOMAIN cycle.results :
        cycle.results[j].family = cycle.results[i].family => j = i
  BY CommandFacts DEF IsDone, Distinct
<1>2. own = {i} /\ i \in Nat
  BY <1>1, CommandFacts
<1>3. TargetYear(cycle.results, cycle.results[i].family) =
        IF own = {} THEN NoValue ELSE cycle.results[Max(own)].target
  BY DEF TargetYear
<1> HIDE DEF own
<1>4. Max({i}) = i
  BY <1>2 DEF Max
<1> QED
  BY <1>1, <1>2, <1>3, <1>4

\* A sum over the rows of a cycle is the one over its results.
LEMMA SumOverRows ==
  ASSUME NEW cycle, IsDone(cycle), NEW ofRow, NEW ofResult,
         DOMAIN ofRow = Command(cycle).results, DOMAIN ofResult = DOMAIN cycle.results,
         \A i \in DOMAIN cycle.results :
           ofResult[i] \in Nat /\ ofRow[ResultRow(cycle.run, cycle.results[i])] = ofResult[i]
  PROVE  SumFunction(ofRow) = SumFunction(ofResult)
<1> DEFINE S == DOMAIN cycle.results
           rows == Command(cycle).results
           to == [i \in S |-> ResultRow(cycle.run, cycle.results[i])]
<1>1. Joined!IsFiniteSet(S)
  BY CommandFacts, FS_Interval, SameOperators
<1>2. rows = {ResultRow(cycle.run, cycle.results[i]) : i \in S}
  BY CommandFacts
<1>3. \A i, j \in S :
        ResultRow(cycle.run, cycle.results[i]) = ResultRow(cycle.run, cycle.results[j])
          => cycle.results[i].family = cycle.results[j].family
  BY DEF ResultRow
<1>4. \A i, j \in S : cycle.results[i].family = cycle.results[j].family => i = j
  BY ResultOfFamily
<1>5. /\ \A i \in S : ofResult[i] \in Nat /\ to[i] \in rows /\ ofRow[to[i]] = ofResult[i]
      /\ \A i, j \in S : to[i] = to[j] => i = j
      /\ \A r \in rows : \E i \in S : to[i] = r
  BY <1>2, <1>3, <1>4
<1>6. DOMAIN ofRow = rows /\ DOMAIN ofResult = S
  OBVIOUS
<1> HIDE DEF S, rows, to
<1>7. Joined!Sum(ofRow, rows) = Joined!Sum(ofResult, S)
  BY <1>1, <1>5, Joined!SumMap
<1>8. Joined!SumFunction(ofRow) = Joined!SumFunction(ofResult)
  BY <1>6, <1>7 DEF Joined!SumFunction, Joined!Sum
<1> QED
  BY <1>8, SameOperators

\* The run's sums are those of its source results.
LEMMA SumsAreTheRuns ==
  ASSUME NEW cycle, IsDone(cycle)
  PROVE  LET rows == Command(cycle).results IN
         /\ SumFunction([r \in rows |-> r.parsed]) = RunRow(cycle).parsed
         /\ SumFunction([r \in rows |-> r.inserted]) = RunRow(cycle).inserted
         /\ SumFunction([r \in rows |-> r.skipped]) = RunRow(cycle).skipped
         /\ SumFunction([r \in rows |-> r.issues]) = RunRow(cycle).failures
<1> DEFINE results == cycle.results
           rows == Command(cycle).results
           row(i) == ResultRow(cycle.run, results[i])
<1>1. results \in Seq(ResultRecords)
  BY DEF IsDone, CycleRecords
<1>2. \A i \in DOMAIN results :
        /\ results[i].parsed \in Nat /\ results[i].inserted \in Nat /\ results[i].skipped \in Nat
        /\ Len(results[i].failures) \in Nat
  <2> TAKE i \in DOMAIN results
  <2>1. results[i] \in ResultRecords
    BY <1>1
  <2>2. /\ results[i].parsed \in Nat /\ results[i].inserted \in Nat
        /\ results[i].skipped \in Nat /\ results[i].failures \in Seq(FailureRecords)
    BY <2>1 DEF ResultRecords
  <2> QED
    BY <2>2
<1>3. \A i \in DOMAIN results :
        /\ row(i) \in rows
        /\ row(i).parsed = results[i].parsed /\ row(i).inserted = results[i].inserted
        /\ row(i).skipped = results[i].skipped /\ row(i).issues = Len(results[i].failures)
  BY CommandFacts DEF ResultRow
<1> HIDE DEF row
<1>4. RunRow(cycle).parsed = SumFunction([i \in DOMAIN results |-> results[i].parsed])
  BY DEF RunRow, SumOf
<1>5. RunRow(cycle).inserted = SumFunction([i \in DOMAIN results |-> results[i].inserted])
  BY DEF RunRow, SumOf
<1>6. RunRow(cycle).skipped = SumFunction([i \in DOMAIN results |-> results[i].skipped])
  BY DEF RunRow, SumOf
<1>7. RunRow(cycle).failures = SumFunction(Counts(results))
  BY <1>1, AllFailuresFacts DEF RunRow
<1>8. SumFunction([r \in rows |-> r.parsed]) = RunRow(cycle).parsed
  <2> DEFINE ofRow == [r \in rows |-> r.parsed]
             ofResult == [i \in DOMAIN results |-> results[i].parsed]
  <2>1. /\ DOMAIN ofRow = rows /\ DOMAIN ofResult = DOMAIN results
        /\ \A i \in DOMAIN results : ofResult[i] \in Nat /\ ofRow[row(i)] = ofResult[i]
    BY <1>2, <1>3
  <2> HIDE DEF ofRow, ofResult
  <2>2. SumFunction(ofRow) = SumFunction(ofResult)
    BY <2>1, SumOverRows DEF row
  <2> QED
    BY <1>4, <2>2 DEF ofRow, ofResult
<1>9. SumFunction([r \in rows |-> r.inserted]) = RunRow(cycle).inserted
  <2> DEFINE ofRow == [r \in rows |-> r.inserted]
             ofResult == [i \in DOMAIN results |-> results[i].inserted]
  <2>1. /\ DOMAIN ofRow = rows /\ DOMAIN ofResult = DOMAIN results
        /\ \A i \in DOMAIN results : ofResult[i] \in Nat /\ ofRow[row(i)] = ofResult[i]
    BY <1>2, <1>3
  <2> HIDE DEF ofRow, ofResult
  <2>2. SumFunction(ofRow) = SumFunction(ofResult)
    BY <2>1, SumOverRows DEF row
  <2> QED
    BY <1>5, <2>2 DEF ofRow, ofResult
<1>10. SumFunction([r \in rows |-> r.skipped]) = RunRow(cycle).skipped
  <2> DEFINE ofRow == [r \in rows |-> r.skipped]
             ofResult == [i \in DOMAIN results |-> results[i].skipped]
  <2>1. /\ DOMAIN ofRow = rows /\ DOMAIN ofResult = DOMAIN results
        /\ \A i \in DOMAIN results : ofResult[i] \in Nat /\ ofRow[row(i)] = ofResult[i]
    BY <1>2, <1>3
  <2> HIDE DEF ofRow, ofResult
  <2>2. SumFunction(ofRow) = SumFunction(ofResult)
    BY <2>1, SumOverRows DEF row
  <2> QED
    BY <1>6, <2>2 DEF ofRow, ofResult
<1>11. SumFunction([r \in rows |-> r.issues]) = RunRow(cycle).failures
  <2> DEFINE ofRow == [r \in rows |-> r.issues]
             ofResult == Counts(results)
  <2>1. /\ DOMAIN ofRow = rows /\ DOMAIN ofResult = DOMAIN results
        /\ \A i \in DOMAIN results : ofResult[i] \in Nat /\ ofRow[row(i)] = ofResult[i]
    BY <1>2, <1>3 DEF Counts
  <2> HIDE DEF ofRow, ofResult
  <2>2. SumFunction(ofRow) = SumFunction(ofResult)
    BY <2>1, SumOverRows DEF row
  <2> QED
    BY <1>7, <2>2 DEF ofRow, ofResult
<1> QED
  BY <1>8, <1>9, <1>10, <1>11

\* The values on a finite set are at most as many.
LEMMA ImageSmaller ==
  ASSUME NEW S, IsFiniteSet(S), NEW fun
  PROVE  /\ IsFiniteSet({fun[x] : x \in S})
         /\ Cardinality({fun[x] : x \in S}) <= Cardinality(S)
<1>1. Joined!IsFiniteSet(S)
  BY SameOperators
<1>2. Joined!IsFiniteSet({fun[x] : x \in S})
  BY <1>1, Joined!ImageFinite, Zenon
<1>3. Joined!Cardinality({fun[x] : x \in S}) <= Joined!Cardinality(S)
  BY <1>1, Joined!ImageFinite, Zenon
<1> QED
  BY <1>2, <1>3, SameOperators

\* Some of the values at the first numbers are at most as many.
LEMMA FewValues ==
  ASSUME NEW n \in Nat, NEW fun, NEW S, S \subseteq {fun[i] : i \in 1..n}
  PROVE  Cardinality(S) \in Nat /\ Cardinality(S) <= n
<1> DEFINE T == {fun[i] : i \in 1..n}
<1>1. IsFiniteSet(1..n) /\ Cardinality(1..n) = n
  BY FS_Interval
<1>2. IsFiniteSet(T) /\ Cardinality(T) <= n
  BY <1>1, ImageSmaller
<1>3. S \subseteq T
  OBVIOUS
<1> HIDE DEF T
<1>4. IsFiniteSet(S) /\ Cardinality(S) <= Cardinality(T)
  BY <1>2, <1>3, FS_Subset
<1>5. Cardinality(S) \in Nat /\ Cardinality(T) \in Nat
  BY <1>2, <1>4, FS_CardinalityType
<1> QED
  BY <1>2, <1>4, <1>5

\* The rows of a cycle tell one story.
LEMMA CycleTellsOneStory ==
  ASSUME NEW cycle, IsDone(cycle), NEW issues,
         issues \subseteq Range(Command(cycle).issues),
         StableIds(Range(Command(cycle).issues)) \subseteq StableIds(issues)
  PROVE  TellOneStory(RunRow(cycle), Command(cycle).results, issues)
<1> DEFINE results == cycle.results
           rows == Command(cycle).results
           n == Len(results)
           all == AllFailures(results)
           kept == Deduplicated(results)
           row(i) == ResultRow(cycle.run, results[i])
<1>1. results \in Seq(ResultRecords) /\ cycle.families \in Seq(Families)
  BY DEF IsDone, CycleRecords
<1>2. /\ n \in Nat /\ DOMAIN results = 1..n /\ DOMAIN cycle.families = 1..n
      /\ Len(cycle.families) = n
  BY CommandFacts DEF IsDone
<1>3. rows = {row(i) : i \in 1..n}
  BY CommandFacts
<1>4. \A i \in 1..n : /\ row(i).family = results[i].family /\ row(i).year = results[i].target
                      /\ row(i).issues = Len(results[i].failures)
                      /\ results[i].family = cycle.families[i]
                      /\ OwnFailures(results[i])
                      /\ results[i].failures \in Seq(FailureRecords)
  <2> TAKE i \in 1..n
  <2>1. results[i] \in ResultRecords
    BY <1>1, <1>2
  <2>2. results[i].failures \in Seq(FailureRecords)
    BY <2>1 DEF ResultRecords
  <2> QED
    BY <1>2, <2>2 DEF ResultRow, IsDone
<1>5. RunRow(cycle).families = cycle.families /\ RunRow(cycle).failures = Len(all)
  BY DEF RunRow
<1>6. /\ all \in Seq(FailureRecords) /\ Len(all) \in Nat /\ DOMAIN all = 1..Len(all)
      /\ Range(all) = FailuresUpTo(results, n)
  <2>1. all \in Seq(FailureRecords) /\ Range(all) = FailuresUpTo(results, n)
    BY <1>1, AllFailuresFacts
  <2> HIDE DEF all
  <2> QED
    BY <2>1
<1>7. /\ Range(kept) \subseteq Range(all)
      /\ Identities(Range(all)) \subseteq Identities(Range(kept))
  BY <1>1, DeduplicatedFacts
<1>8. Range(Command(cycle).issues) = {IssueRow(cycle, failure) : failure \in Range(kept)}
  BY CommandFacts
<1>9. \A i \in 1..n : /\ TargetYear(results, results[i].family) = results[i].target
                      /\ \A j \in 1..n : results[j].family = results[i].family => j = i
  BY <1>2, ResultOfFamily
<1> HIDE DEF results, rows, n, all, kept, row
<1>10. {r.family : r \in rows} = Range(RunRow(cycle).families)
  <2>1. {r.family : r \in rows} = {cycle.families[i] : i \in 1..n}
    BY <1>3, <1>4
  <2> QED
    BY <1>2, <1>5, <2>1 DEF Range
<1>11. Cardinality(rows) = Len(RunRow(cycle).families)
  <2> DEFINE fun == [i \in 1..n |-> row(i)]
             D == 1..n
  <2>1. \A i, j \in D : fun[i] = fun[j] => i = j
    BY <1>4, <1>9
  <2>2. rows = {fun[i] : i \in D}
    BY <1>3
  <2>3. Joined!IsFiniteSet(D) /\ Joined!Cardinality(D) = n
    BY <1>2, FS_Interval, SameOperators
  <2> HIDE DEF fun, D
  <2>4. Joined!Cardinality({fun[i] : i \in D}) = Joined!Cardinality(D)
    BY <2>1, <2>3, Joined!ImageFinite, Zenon
  <2> QED
    BY <1>2, <1>5, <2>2, <2>3, <2>4, SameOperators
<1>12. Cardinality(issues) <= RunRow(cycle).failures
  <2> DEFINE fun == [k \in 1..Len(all) |-> IssueRow(cycle, all[k])]
  <2>1. issues \subseteq {IssueRow(cycle, failure) : failure \in Range(all)}
    BY <1>7, <1>8
  <2>2. \A failure \in Range(all) : \E k \in 1..Len(all) : fun[k] = IssueRow(cycle, failure)
    BY <1>6 DEF Range
  <2> HIDE DEF fun
  <2>3. issues \subseteq {fun[k] : k \in 1..Len(all)}
    BY <2>1, <2>2
  <2> QED
    BY <1>5, <1>6, <2>3, FewValues
<1>13. ASSUME NEW i \in 1..n, row(i).issues > 0
       PROVE  \E issue \in issues : issue.family = row(i).family /\ issue.year = row(i).year
  <2> DEFINE failure == results[i].failures[1]
  <2>1. 1 \in DOMAIN results[i].failures
    BY <1>4, <1>13
  <2>2. failure \in Range(results[i].failures) /\ failure.family = results[i].family
    BY <1>4, <2>1 DEF Range, OwnFailures
  <2>3. failure \in Range(all)
    BY <1>6, <2>2 DEF FailuresUpTo
  <2> HIDE DEF failure
  <2>4. PICK other \in Range(kept) : IssueIdentity(other) = IssueIdentity(failure)
    BY <1>7, <2>3 DEF Identities
  <2>5. other.family = results[i].family
    BY <2>2, <2>4 DEF IssueIdentity
  <2>6. StableId(IssueRow(cycle, other)) \in StableIds(Range(Command(cycle).issues))
    BY <1>8 DEF StableIds
  <2>7. PICK issue \in issues : StableId(issue) = StableId(IssueRow(cycle, other))
    BY <2>6 DEF StableIds
  <2>8. /\ issue.family = IssueRow(cycle, other).family
        /\ issue.year = IssueRow(cycle, other).year
    BY <2>7 DEF StableId
  <2>9. /\ IssueRow(cycle, other).family = other.family
        /\ IssueRow(cycle, other).year = TargetYear(results, other.family)
    BY DEF IssueRow, results
  <2> QED
    BY <1>4, <1>9, <2>5, <2>8, <2>9
<1>14. ASSUME NEW i \in 1..n, NEW issue \in issues, issue.family = row(i).family
       PROVE  row(i).issues > 0
  <2>1. PICK failure \in Range(kept) : issue = IssueRow(cycle, failure)
    BY <1>8
  <2>2. issue.family = failure.family
    BY <2>1 DEF IssueRow
  <2>3. PICK j \in 1..n : failure \in Range(results[j].failures)
    BY <1>6, <1>7 DEF FailuresUpTo
  <2>4. failure.family = results[j].family
    BY <1>4, <2>3 DEF Range, OwnFailures
  <2>5. j = i
    <3>1. row(i).family = results[j].family
      BY <1>14, <2>2, <2>4
    <3>2. results[i].family = results[j].family
      BY <1>4, <3>1
    <3> QED
      BY <1>9, <3>2
  <2>6. PICK m \in DOMAIN results[i].failures : TRUE
    BY <2>3, <2>5 DEF Range
  <2> QED
    BY <1>4, <2>6
<1>15. \A r \in rows : r.issues > 0 <=> \E i \in issues : i.family = r.family /\ i.year = r.year
  BY <1>3, <1>13, <1>14
<1>16. /\ SumFunction([r \in rows |-> r.parsed]) = RunRow(cycle).parsed
       /\ SumFunction([r \in rows |-> r.inserted]) = RunRow(cycle).inserted
       /\ SumFunction([r \in rows |-> r.skipped]) = RunRow(cycle).skipped
       /\ SumFunction([r \in rows |-> r.issues]) = RunRow(cycle).failures
  BY SumsAreTheRuns DEF rows
<1>17. TellOneStory(RunRow(cycle), rows, issues)
  BY <1>10, <1>11, <1>12, <1>15, <1>16 DEF TellOneStory
<1> QED
  BY <1>17 DEF rows

-----------------------------------------------------------------------------
(* The inductive invariant of the history.  A cycle has an id of its own,   *)
(* so its rows meet none that are there: the repository's upserts insert,   *)
(* and never replace.                                                       *)

\* A cycle has an id no row has, made of when it began, and results with failures of their own.
CycleIsNew(process, tables, now) ==
  process.stage \in InACycle =>
    /\ process.cycle.run = RunId(process.cycle.number, process.cycle.started)
    /\ process.cycle.started \in 1..now
    /\ Fresh(process.cycle.run, tables)
    /\ \A i \in DOMAIN process.cycle.results : OwnFailures(process.cycle.results[i])

\* What a process was told is declared is there.
ToldIsTrue(process, tables) ==
  \A i \in DOMAIN process.told :
    process.told[i].history = "declared" =>
      \E run \in tables.runs :
        run.run = process.told[i].run /\ run.status = process.told[i].status

\* Rows are of runs that have begun, a run has one row, and its rows tell one story.
TablesTell(tables, now) ==
  /\ IsHistory(tables)
  /\ \A row \in tables.runs \cup tables.results \cup tables.issues :
       row.run \in Nat \X (1..now)
  /\ \A r, s \in tables.runs : r.run = s.run => r = s
  /\ \A run \in tables.runs :
       TellOneStory(run, SourceResults(tables, run.run), Issues(tables, run.run))

\* What the reader has read of a run is what is there.
ReaderIsSound(read, tables) ==
  /\ read = [stage |-> read.stage, run |-> read.run, results |-> read.results,
             issues |-> read.issues]
  /\ read.stage \in {"idle", "run", "results", "detail"}
  /\ read.stage # "idle" => \E run \in tables.runs : read.run = {run}
  /\ read.stage \in {"results", "detail"} =>
       \A run \in read.run : read.results = SourceResults(tables, run.run)
  /\ read.stage = "detail" =>
       \A run \in read.run : read.issues = Issues(tables, run.run)

\* Two cycles did not begin at the same time.
CyclesApart(states) ==
  \A p, q \in Processes :
    p # q /\ states[p].stage \in InACycle /\ states[q].stage \in InACycle
      => states[p].cycle.started # states[q].cycle.started

HistoryInv ==
  /\ TablesTell(history, clock)
  /\ ReaderIsSound(reader, history)
  /\ \A p \in Processes : /\ CycleIsNew(processes[p], history, clock)
                          /\ ToldIsTrue(processes[p], history)
  /\ CyclesApart(processes)

-----------------------------------------------------------------------------
(* Steps that leave the history alone.                                      *)

\* A process goes on with its cycle, or with none, and is told nothing that is declared.
Goes(old, new) ==
  /\ new.stage \in InACycle =>
       /\ old.stage \in InACycle
       /\ new.cycle.run = old.cycle.run /\ new.cycle.number = old.cycle.number
       /\ new.cycle.started = old.cycle.started
       /\ \A i \in DOMAIN new.cycle.results :
            \/ OwnFailures(new.cycle.results[i])
            \/ \E j \in DOMAIN old.cycle.results : new.cycle.results[i] = old.cycle.results[j]
  /\ \A i \in DOMAIN new.told :
       new.told[i].history = "declared" => \E j \in DOMAIN old.told : old.told[j] = new.told[i]

\* What a process keeps that goes on.
LEMMA GoesKeeps ==
  ASSUME NEW old, NEW new, Goes(old, new), NEW tables, NEW now,
         CycleIsNew(old, tables, now), ToldIsTrue(old, tables)
  PROVE  CycleIsNew(new, tables, now) /\ ToldIsTrue(new, tables)
<1>1. CycleIsNew(new, tables, now)
  BY DEF CycleIsNew, Goes
<1>2. ToldIsTrue(new, tables)
  BY DEF ToldIsTrue, Goes
<1> QED
  BY <1>1, <1>2

\* A step of one process that goes on.
LEMMA OneGoes ==
  ASSUME RunnerInv, HistoryInv, NEW p \in Processes, NEW new, Becomes(p, new),
         Goes(processes[p], new), UNCHANGED <<history, clock, reader>>
  PROVE  HistoryInv'
<1>1. /\ processes'[p] = new
      /\ \A q \in Processes : q # p => processes'[q] = processes[q]
  BY DEF Becomes, RunnerInv
<1>2. \A q \in Processes : CycleIsNew(processes[q], history, clock)
                           /\ ToldIsTrue(processes[q], history)
  BY DEF HistoryInv
<1>3. \A q \in Processes : CycleIsNew(processes'[q], history, clock)
                           /\ ToldIsTrue(processes'[q], history)
  BY <1>1, <1>2, GoesKeeps
<1>4. CyclesApart(processes')
  <2>1. \A q \in Processes :
          processes'[q].stage \in InACycle =>
            /\ processes[q].stage \in InACycle
            /\ processes'[q].cycle.started = processes[q].cycle.started
    BY <1>1 DEF Goes
  <2>2. CyclesApart(processes)
    BY DEF HistoryInv
  <2> QED
    BY <2>1, <2>2 DEF CyclesApart
<1>5. TablesTell(history, clock) /\ ReaderIsSound(reader, history)
  BY DEF HistoryInv
<1> QED
  BY <1>3, <1>4, <1>5 DEF HistoryInv

\* A process whose cycle and answers stay goes on.
LEMMA StaysGoing ==
  ASSUME NEW old, NEW new, new.cycle = old.cycle, new.told = old.told,
         new.stage \in InACycle => old.stage \in InACycle
  PROVE  Goes(old, new)
BY DEF Goes

\* A process that raises.
LEMMA RaisedGoes ==
  ASSUME NEW process \in ProcessRecords
  PROVE  Goes(process, Raised(process))
<1> DEFINE released == Released(process)
           raised == [released EXCEPT !.stage = "raised"]
<1>1. released \in ProcessRecords /\ released.told = process.told
  BY ReleasedFields
<1> HIDE DEF released
<1>2. raised.stage = "raised" /\ raised.told = process.told
  BY <1>1 DEF ProcessRecords
<1>3. Raised(process) = raised
  BY DEF Raised, released
<1> HIDE DEF raised
<1> QED
  BY <1>2, <1>3 DEF Goes, InACycle, Writing, Storing

\* A step before the cycles leaves the history alone.
LEMMA StartupGoes ==
  ASSUME RunnerInv, HistoryInv, NEW p \in Processes, Startup(p)
  PROVE  HistoryInv'
<1> DEFINE process == processes[p]
<1>1. process \in ProcessRecords
  BY BeforeStep
<1>2. UNCHANGED <<history, clock, reader>>
  BY DEF Startup, LoadConfig, Connect, LookBefore, MeetsCreator, CreationCollides, ExecuteDdl,
         CommitSchema, LookAfter
<1>3. Goes(process, Raised(process))
  BY <1>1, RaisedGoes
<1>4. ASSUME NEW payload \in Payloads, LoadConfig(p, payload) PROVE HistoryInv'
  <2> DEFINE config == Configuration(payload, Environment, Absent)
             new == [process EXCEPT !.stage = "connecting", !.config = config]
  <2>1. Becomes(p, Raised(process)) \/ Becomes(p, new)
    BY <1>4 DEF LoadConfig
  <2> HIDE DEF config
  <2>2. new.cycle = process.cycle /\ new.told = process.told /\ new.stage = "connecting"
    BY <1>1 DEF ProcessRecords
  <2> HIDE DEF new, process
  <2>3. Goes(process, new)
    BY <2>2, StaysGoing DEF InACycle, Writing, Storing
  <2> QED
    BY <1>2, <1>3, <2>1, <2>3, OneGoes DEF process
<1>5. CASE Connect(p)
  <2> DEFINE new == [process EXCEPT !.stage = "looking", !.connected = TRUE]
  <2>1. Becomes(p, Raised(process)) \/ Becomes(p, new)
    BY <1>5 DEF Connect
  <2>2. new.cycle = process.cycle /\ new.told = process.told /\ new.stage = "looking"
    BY <1>1 DEF ProcessRecords
  <2> HIDE DEF new, process
  <2>3. Goes(process, new)
    BY <2>2, StaysGoing DEF InACycle, Writing, Storing
  <2> QED
    BY <1>2, <1>3, <2>1, <2>3, OneGoes DEF process
<1>6. CASE LookBefore(p)
  <2> DEFINE new == [process EXCEPT !.stage = "creating", !.before = schema]
  <2>1. Becomes(p, new)
    BY <1>6 DEF LookBefore
  <2>2. new.cycle = process.cycle /\ new.told = process.told /\ new.stage = "creating"
    BY <1>1 DEF ProcessRecords
  <2> HIDE DEF new, process
  <2>3. Goes(process, new)
    BY <2>2, StaysGoing DEF InACycle, Writing, Storing
  <2> QED
    BY <1>2, <2>1, <2>3, OneGoes DEF process
<1>7. CASE MeetsCreator(p)
  <2> DEFINE new == [process EXCEPT !.collides = TRUE]
  <2>1. Becomes(p, new)
    BY <1>7 DEF MeetsCreator
  <2>2. new.cycle = process.cycle /\ new.told = process.told /\ new.stage = process.stage
    BY <1>1 DEF ProcessRecords
  <2> HIDE DEF new, process
  <2>3. Goes(process, new)
    BY <2>2, StaysGoing
  <2> QED
    BY <1>2, <2>1, <2>3, OneGoes DEF process
<1>8. CASE CreationCollides(p)
  BY <1>2, <1>3, <1>8, OneGoes DEF CreationCollides
<1>9. CASE ExecuteDdl(p)
  <2> DEFINE at == process.at + 1
             locks == process.locks \cup Wanted(process)
             made == process.made \cup {t \in {Statement(process).table} :
                         Statement(process).kind = "table" /\ ~Exists(process, t)}
             new == [process EXCEPT !.at = at, !.locks = locks, !.collides = FALSE, !.made = made]
  <2>1. Becomes(p, new)
    BY <1>9 DEF ExecuteDdl
  <2> HIDE DEF at, locks, made
  <2>2. new.cycle = process.cycle /\ new.told = process.told /\ new.stage = process.stage
    BY <1>1 DEF ProcessRecords
  <2> HIDE DEF new, process
  <2>3. Goes(process, new)
    BY <2>2, StaysGoing
  <2> QED
    BY <1>2, <2>1, <2>3, OneGoes DEF process
<1>10. CASE CommitSchema(p)
  <2> DEFINE released == Released(process)
             new == [released EXCEPT !.stage = "reporting", !.at = 1]
  <2>1. Becomes(p, new)
    BY <1>10 DEF CommitSchema
  <2>2. /\ released \in ProcessRecords
        /\ released.cycle = process.cycle /\ released.told = process.told
    BY <1>1, ReleasedFields
  <2> HIDE DEF released
  <2>3. new.cycle = process.cycle /\ new.told = process.told /\ new.stage = "reporting"
    BY <2>2 DEF ProcessRecords
  <2> HIDE DEF new, process
  <2>4. Goes(process, new)
    BY <2>3, StaysGoing DEF InACycle, Writing, Storing
  <2> QED
    BY <1>2, <2>1, <2>4, OneGoes DEF process
<1>11. CASE LookAfter(p)
  <2> DEFINE report == Report(process.before, schema)
             new == [process EXCEPT !.stage = "next_cycle", !.before = {}, !.report = report]
  <2>1. Becomes(p, new)
    BY <1>11 DEF LookAfter
  <2> HIDE DEF report
  <2>2. new.cycle = process.cycle /\ new.told = process.told /\ new.stage = "next_cycle"
    BY <1>1 DEF ProcessRecords
  <2> HIDE DEF new, process
  <2>3. Goes(process, new)
    BY <2>2, StaysGoing DEF InACycle, Writing, Storing
  <2> QED
    BY <1>2, <2>1, <2>3, OneGoes DEF process
<1> QED
  BY <1>4, <1>5, <1>6, <1>7, <1>8, <1>9, <1>10, <1>11 DEF Startup

\* A family that is done adds a result with failures of its own.
LEMMA WithResultGoes ==
  ASSUME NEW process \in ProcessRecords, process.stage \in InACycle,
         NEW result \in ResultRecords, OwnFailures(result)
  PROVE  Goes(process, WithResult(process, result))
<1> DEFINE results == Append(process.cycle.results, result)
           released == Released(process)
           cycle == [process.cycle EXCEPT !.results = results]
           stage == IF Len(results) = Len(process.cycle.families) THEN "history"
                    ELSE "next_family"
           done == [released EXCEPT !.cycle = cycle, !.at = 1, !.latest = NoValue,
                                    !.target = NoValue, !.batch = NoBatch,
                                    !.summary = NoSummary, !.stage = stage]
<1>1. /\ process.cycle \in CycleRecords /\ process.cycle.results \in Seq(ResultRecords)
  BY DEF ProcessRecords, CycleRecords
<1>2. /\ released \in ProcessRecords /\ released.cycle = process.cycle
      /\ released.told = process.told
  BY ReleasedFields
<1>3. \A i \in DOMAIN results : \/ results[i] = result
                                \/ \E j \in DOMAIN process.cycle.results :
                                     results[i] = process.cycle.results[j]
  BY <1>1
<1> HIDE DEF results, released
<1>4. /\ cycle.results = results /\ cycle.run = process.cycle.run
      /\ cycle.number = process.cycle.number /\ cycle.started = process.cycle.started
  BY <1>1 DEF CycleRecords
<1> HIDE DEF cycle, stage
<1>5. done.cycle = cycle /\ done.told = process.told
  BY <1>2 DEF ProcessRecords
<1>6. WithResult(process, result) = done
  BY <1>2 DEF WithResult, results, cycle, stage, released
<1> HIDE DEF done
<1> QED
  BY <1>3, <1>4, <1>5, <1>6 DEF Goes

\* A cycle whose history failed is over, and tells so.
LEMMA ToldFailedGoes ==
  ASSUME NEW process \in ProcessRecords
  PROVE  /\ Goes(process, Told(process, "failed"))
         /\ Goes(process, [Told(process, "failed") EXCEPT !.connected = FALSE])
<1> DEFINE told == [run |-> process.cycle.run, history |-> "failed",
                    status |-> CycleStatus(process.cycle.results)]
           released == Released(process)
           answers == Append(released.told, told)
           over == [released EXCEPT !.stage = "next_cycle", !.at = 1, !.cycle = NoCycle,
                                    !.told = answers]
           cut == [over EXCEPT !.connected = FALSE]
<1>1. released \in ProcessRecords /\ released.told = process.told
  BY ReleasedFields
<1>2. told.history = "failed"
  OBVIOUS
<1> HIDE DEF told, released
<1>3. \A i \in DOMAIN answers :
        answers[i] = told \/ \E j \in DOMAIN process.told : process.told[j] = answers[i]
  BY <1>1 DEF ProcessRecords
<1> HIDE DEF answers
<1>4. /\ over.stage = "next_cycle" /\ over.told = answers
      /\ cut.stage = "next_cycle" /\ cut.told = answers
  BY <1>1 DEF ProcessRecords
<1>5. Told(process, "failed") = over
  BY DEF Told, over, answers, told, released
<1> HIDE DEF over
<1>6. [Told(process, "failed") EXCEPT !.connected = FALSE] = cut
  BY <1>5
<1> HIDE DEF cut
<1>7. Goes(process, over) /\ Goes(process, cut)
  BY <1>2, <1>3, <1>4 DEF Goes, InACycle, Writing, Storing
<1> QED
  BY <1>5, <1>6, <1>7

-----------------------------------------------------------------------------
(* A cycle.                                                                 *)

\* A cycle that begins has an id no row and no other cycle has.
LEMMA BeginCycleIsNew ==
  ASSUME RunnerInv, HistoryInv, NEW p \in Processes, BeginCycle(p)
  PROVE  HistoryInv'
<1> DEFINE process == processes[p]
           number == Len(process.told) + 1
           cycle == [run |-> RunId(number, clock + 1), started |-> clock + 1,
                     number |-> number, families |-> process.config.families,
                     initialYear |-> process.config.initialYear, results |-> <<>>]
           new == [process EXCEPT !.stage = "next_family", !.cycle = cycle]
<1>1. /\ process \in ProcessRecords /\ Becomes(p, new) /\ clock' = clock + 1 /\ clock \in Nat
      /\ history' = history /\ reader' = reader
  BY BeforeStep DEF BeginCycle, CountersAreSound
<1>2. /\ cycle.run = RunId(cycle.number, cycle.started) /\ cycle.started = clock + 1
      /\ cycle.results = <<>>
  OBVIOUS
<1> HIDE DEF cycle
<1>3. new.stage = "next_family" /\ new.cycle = cycle /\ new.told = process.told
  BY <1>1 DEF ProcessRecords
<1> HIDE DEF new
<1>4. /\ processes'[p] = new
      /\ \A q \in Processes : q # p => processes'[q] = processes[q]
  BY <1>1 DEF Becomes, RunnerInv
<1>5. TablesTell(history, clock) /\ ReaderIsSound(reader, history)
  BY DEF HistoryInv
<1>6. TablesTell(history, clock')
  <2>1. \A run : run \in Nat \X (1..clock) => run \in Nat \X (1..clock')
    <3>1. 1..clock \subseteq 1..clock'
      BY <1>1
    <3> QED
      BY <3>1
  <2>2. \A row \in history.runs \cup history.results \cup history.issues :
          row.run \in Nat \X (1..clock')
    BY <1>5, <2>1 DEF TablesTell
  <2> QED
    BY <1>5, <2>2 DEF TablesTell
<1>7. Fresh(cycle.run, history)
  <2>1. \A row \in history.runs \cup history.results \cup history.issues :
          row.run[2] \in 1..clock
    BY <1>5 DEF TablesTell
  <2>2. cycle.run[2] = clock + 1
    BY <1>2 DEF RunId
  <2>3. clock + 1 \notin 1..clock
    BY <1>1
  <2> QED
    BY <2>1, <2>2, <2>3 DEF Fresh
<1>8. CycleIsNew(new, history, clock') /\ ToldIsTrue(new, history)
  <2>1. cycle.started \in 1..clock'
    BY <1>1, <1>2
  <2>2. DOMAIN cycle.results = {}
    BY <1>2
  <2>3. ToldIsTrue(process, history)
    BY DEF HistoryInv
  <2> QED
    BY <1>2, <1>3, <1>7, <2>1, <2>2, <2>3 DEF CycleIsNew, ToldIsTrue
<1>9. ASSUME NEW q \in Processes, q # p
      PROVE  /\ CycleIsNew(processes[q], history, clock') /\ ToldIsTrue(processes[q], history)
             /\ processes[q].stage \in InACycle => processes[q].cycle.started # cycle.started
  <2>1. CycleIsNew(processes[q], history, clock) /\ ToldIsTrue(processes[q], history)
    BY DEF HistoryInv
  <2>2. processes[q].stage \in InACycle =>
          processes[q].cycle.started \in 1..clock' /\ processes[q].cycle.started # clock + 1
    BY <1>1, <2>1 DEF CycleIsNew
  <2> QED
    BY <1>2, <2>1, <2>2 DEF CycleIsNew
<1>10. CyclesApart(processes')
  <2>1. CyclesApart(processes)
    BY DEF HistoryInv
  <2> QED
    BY <1>3, <1>4, <1>9, <2>1 DEF CyclesApart
<1>11. \A q \in Processes : CycleIsNew(processes'[q], history, clock')
                            /\ ToldIsTrue(processes'[q], history)
  BY <1>4, <1>8, <1>9
<1> QED
  BY <1>1, <1>5, <1>6, <1>10, <1>11 DEF HistoryInv

\* A family that fails says why: with failures of its own.
LEMMA FamilyFailsGoes ==
  ASSUME RunnerInv, HistoryInv, NEW p \in Processes, FamilyFails(p)
  PROVE  HistoryInv'
<1> DEFINE process == processes[p]
           f == Family(process)
<1>1. /\ process.stage = "next_family" /\ process \in ProcessRecords
      /\ UNCHANGED <<history, clock, reader>>
  BY BeforeStep DEF FamilyFails, FamilyIsNext
<1>2. PICK failed \in FailuresOf[f] :
        Becomes(p, WithResult(process,
          [Result(f, Latest(f), Target(process, f), "failed") EXCEPT
             !.download = failed.download, !.parsed = failed.parsed,
             !.failures = failed.failures]))
  BY DEF FamilyFails
<1> DEFINE result == [Result(f, Latest(f), Target(process, f), "failed") EXCEPT
                        !.download = failed.download, !.parsed = failed.parsed,
                        !.failures = failed.failures]
<1>3. f \in Families /\ process.config \in Configs
  BY <1>1, BeforeStep, FamilyIs
<1>4. Latest(f) \in Nat \cup {NoValue} /\ Target(process, f) \in Nat
  BY <1>3, BeforeStep, TargetIs
<1>5. /\ failed.download \in {NoValue, "failed", "downloaded"} /\ failed.parsed \in Nat
      /\ failed.failures \in Seq(FailureDetails(f))
      /\ failed.failures \in Seq(FailureRecords)
      /\ \A i \in DOMAIN failed.failures : failed.failures[i].family = f
  <2>1. failed \in [download : {NoValue, "failed", "downloaded"}, parsed : Nat,
                    failures : Seq(FailureDetails(f)) \ {<<>>}]
    BY <1>3, FailuresAssumption
  <2>2. FailureDetails(f) \subseteq FailureRecords
    BY <1>3 DEF FailureDetails, FailureRecords, Texts
  <2> HIDE DEF f
  <2>3. failed.failures \in Seq(FailureDetails(f))
    BY <2>1
  <2>4. failed.failures \in Seq(FailureRecords)
    BY <2>2, <2>3
  <2>5. \A i \in DOMAIN failed.failures : failed.failures[i] \in FailureDetails(f)
    BY <2>3
  <2> QED
    BY <2>1, <2>3, <2>4, <2>5 DEF FailureDetails
<1>6. /\ result \in ResultRecords /\ result.family = f
      /\ result.failures = failed.failures
  <2> HIDE DEF f
  <2> QED
    BY <1>3, <1>4, <1>5 DEF Result, ResultRecords
<1>7. Becomes(p, WithResult(process, result))
  BY <1>2
<1> HIDE DEF result, f
<1>8. OwnFailures(result)
  BY <1>5, <1>6 DEF OwnFailures
<1>9. Goes(process, WithResult(process, result))
  BY <1>1, <1>6, <1>8, WithResultGoes DEF InACycle, Writing, Storing
<1> QED
  BY <1>1, <1>7, <1>9, OneGoes

\* A result without failures has those of its own.
LEMMA NoFailures == \A result : result.failures = <<>> => OwnFailures(result)
BY DEF OwnFailures

\* The next year is not available.
LEMMA NotAvailableGoes ==
  ASSUME RunnerInv, HistoryInv, NEW p \in Processes, NotAvailable(p)
  PROVE  HistoryInv'
<1> DEFINE process == processes[p]
           f == Family(process)
           result == Result(f, Latest(f), Target(process, f), "no_available_source_year")
<1>1. /\ process.stage = "next_family" /\ Becomes(p, WithResult(process, result))
      /\ process \in ProcessRecords /\ UNCHANGED <<history, clock, reader>>
  BY BeforeStep DEF NotAvailable, FamilyIsNext
<1>2. f \in Families /\ process.config \in Configs
  BY <1>1, BeforeStep, FamilyIs
<1>3. Latest(f) \in Nat \cup {NoValue} /\ Target(process, f) \in Nat
  BY <1>2, BeforeStep, TargetIs
<1>4. result \in ResultRecords /\ OwnFailures(result)
  <2>1. <<>> \in Seq(FailureRecords)
    OBVIOUS
  <2> HIDE DEF f
  <2> QED
    BY <1>2, <1>3, <2>1, NoFailures DEF Result, ResultRecords
<1> HIDE DEF result
<1>5. Goes(process, WithResult(process, result))
  BY <1>1, <1>4, WithResultGoes DEF InACycle, Writing, Storing
<1> QED
  BY <1>1, <1>5, OneGoes

\* The batch is committed.
LEMMA CommitRowsGoes ==
  ASSUME RunnerInv, HistoryInv, NEW p \in Processes, CommitRows(p)
  PROVE  HistoryInv'
<1> DEFINE process == processes[p]
           released == Released(process)
           summary == [inserted |-> Details(process, TRUE), skipped |-> Details(process, FALSE)]
           new == [released EXCEPT !.stage = "recording", !.at = 1, !.summary = summary]
<1>1. /\ process \in ProcessRecords /\ process.stage = "storing" /\ Becomes(p, new)
      /\ UNCHANGED <<history, clock, reader>>
  BY BeforeStep DEF CommitRows
<1>2. /\ released \in ProcessRecords /\ released.cycle = process.cycle
      /\ released.told = process.told
  BY <1>1, ReleasedFields
<1> HIDE DEF released, summary
<1>3. new.cycle = process.cycle /\ new.told = process.told
  BY <1>2 DEF ProcessRecords
<1> HIDE DEF new, process
<1>4. Goes(process, new)
  BY <1>1, <1>3, StaysGoing DEF InACycle, Writing, Storing
<1> QED
  BY <1>1, <1>4, OneGoes DEF process

\* The year is committed, and the family is completed.
LEMMA CommitYearGoes ==
  ASSUME RunnerInv, HistoryInv, NEW p \in Processes, CommitYear(p)
  PROVE  HistoryInv'
<1> DEFINE process == processes[p]
           f == Family(process)
           result == [Result(f, process.latest, process.target, "completed") EXCEPT
                        !.download = "downloaded", !.parsed = process.batch.parsed,
                        !.inserted = process.summary.inserted,
                        !.skipped = process.summary.skipped]
<1>1. /\ ProcessIsSound(process, schema) /\ process.stage = "recording"
      /\ process \in ProcessRecords
      /\ process.target \in Nat \ {0} /\ process.latest \in Nat \cup {NoValue}
      /\ process.summary.inserted \in Nat /\ process.summary.skipped \in Nat
      /\ UNCHANGED <<history, clock, reader>>
      /\ Becomes(p, WithResult(process, result))
  BY BeforeStep DEF CommitYear, ProcessIsSound, CycleIsSound, ProcessRecords, Storing
<1>2. f \in Families /\ process.batch.parsed \in Nat
  <2> HIDE DEF process
  <2> QED
    BY <1>1, BatchIs, BatchFacts DEF Storing
<1>3. result \in ResultRecords /\ OwnFailures(result)
  <2>1. <<>> \in Seq(FailureRecords)
    OBVIOUS
  <2> HIDE DEF f, process
  <2>2. result \in ResultRecords /\ result.failures = <<>>
    BY <1>1, <1>2, <2>1 DEF Result, ResultRecords
  <2> QED
    BY <2>2, NoFailures
<1> HIDE DEF result
<1>4. Goes(process, WithResult(process, result))
  BY <1>1, <1>3, WithResultGoes DEF InACycle, Writing, Storing
<1> QED
  BY <1>1, <1>4, OneGoes

\* A statement of the batch fails, which is a failure of the family.
LEMMA RowsFailGoes ==
  ASSUME RunnerInv, HistoryInv, NEW p \in Processes, RowsFail(p)
  PROVE  HistoryInv'
<1> DEFINE process == processes[p]
           f == Family(process)
           told == <<InsertFailure(f)>>
           result == [Result(f, process.latest, process.target, "failed") EXCEPT
                        !.download = "downloaded", !.parsed = process.batch.parsed,
                        !.failures = told]
<1>1. /\ ProcessIsSound(process, schema) /\ process.stage = "storing"
      /\ process \in ProcessRecords
      /\ process.target \in Nat \ {0} /\ process.latest \in Nat \cup {NoValue}
      /\ UNCHANGED <<history, clock, reader>>
      /\ Becomes(p, WithResult(process, result))
  BY BeforeStep DEF RowsFail, ProcessIsSound, CycleIsSound, ProcessRecords, Storing
<1>2. f \in Families /\ process.batch.parsed \in Nat
  <2> HIDE DEF process
  <2> QED
    BY <1>1, BatchIs, BatchFacts DEF Storing
<1>3. told \in Seq(FailureRecords) /\ \A i \in DOMAIN told : told[i].family = f
  <2> HIDE DEF f
  <2>1. InsertFailure(f) \in FailureRecords /\ InsertFailure(f).family = f
    BY <1>2, InsertFailureType DEF InsertFailure
  <2> QED
    BY <2>1
<1> HIDE DEF told
<1>4. result \in ResultRecords /\ result.family = f /\ result.failures = told
  <2> HIDE DEF f, process
  <2> QED
    BY <1>1, <1>2, <1>3 DEF Result, ResultRecords
<1> HIDE DEF result
<1>5. OwnFailures(result)
  BY <1>3, <1>4 DEF OwnFailures
<1>6. Goes(process, WithResult(process, result))
  BY <1>1, <1>4, <1>5, WithResultGoes DEF InACycle, Writing, Storing
<1> QED
  BY <1>1, <1>6, OneGoes

\* A statement that writes to a table.
LEMMA WriteTableGoes ==
  ASSUME RunnerInv, HistoryInv, NEW p \in Processes, NEW stage, WriteTable(p, stage),
         history' = history
  PROVE  HistoryInv'
<1> DEFINE process == processes[p]
           at == process.at + 1
           locks == process.locks \cup Wanted(process)
           rows == process.rows \cup (RowAt(process) \ stored)
           new == [process EXCEPT !.at = at, !.locks = locks, !.rows = rows]
<1>1. /\ process \in ProcessRecords /\ Becomes(p, new) /\ UNCHANGED <<history, clock, reader>>
  BY BeforeStep DEF WriteTable
<1> HIDE DEF at, locks, rows
<1>2. new.cycle = process.cycle /\ new.told = process.told /\ new.stage = process.stage
  BY <1>1 DEF ProcessRecords
<1> HIDE DEF new, process
<1>3. Goes(process, new)
  BY <1>2, StaysGoing
<1> QED
  BY <1>1, <1>3, OneGoes DEF process

\* A batch begins, or the process returns.
LEMMA BeginBatchOrReturnGoes ==
  ASSUME RunnerInv, HistoryInv, NEW p \in Processes, BeginBatch(p) \/ Return(p)
  PROVE  HistoryInv'
<1> DEFINE process == processes[p]
<1>1. /\ process \in ProcessRecords /\ UNCHANGED <<history, clock, reader>>
  BY BeforeStep DEF BeginBatch, Return
<1>2. CASE BeginBatch(p)
  <2> DEFINE latest == Latest(Family(process))
             target == Target(process, Family(process))
  <2>1. process.stage \in InACycle
    BY <1>2 DEF BeginBatch, FamilyIsNext, InACycle
  <2>2. PICK batch \in BatchesOf[Family(process)] :
          Becomes(p, [process EXCEPT !.stage = "storing", !.at = 1, !.latest = latest,
                                     !.target = target, !.batch = batch])
    BY <1>2 DEF BeginBatch
  <2> DEFINE new == [process EXCEPT !.stage = "storing", !.at = 1, !.latest = latest,
                                    !.target = target, !.batch = batch]
  <2>3. Becomes(p, new)
    BY <2>2
  <2> HIDE DEF latest, target
  <2>4. new.cycle = process.cycle /\ new.told = process.told
    BY <1>1 DEF ProcessRecords
  <2> HIDE DEF new, process
  <2>5. Goes(process, new)
    BY <2>1, <2>4, StaysGoing
  <2> QED
    BY <1>1, <2>3, <2>5, OneGoes DEF process
<1>3. CASE Return(p)
  <2> DEFINE new == [process EXCEPT !.stage = "returned"]
  <2>1. Becomes(p, new)
    BY <1>3 DEF Return
  <2>2. new.cycle = process.cycle /\ new.told = process.told /\ new.stage = "returned"
    BY <1>1 DEF ProcessRecords
  <2> HIDE DEF new, process
  <2>3. Goes(process, new)
    BY <2>2, StaysGoing DEF InACycle, Writing, Storing
  <2> QED
    BY <1>1, <2>1, <2>3, OneGoes DEF process
<1> QED
  BY <1>2, <1>3

\* A cycle raises, or its process is lost.
LEMMA RaisingGoes ==
  ASSUME RunnerInv, HistoryInv, NEW p \in Processes, CycleRaises(p) \/ ProcessIsLost(p)
  PROVE  HistoryInv'
<1> DEFINE process == processes[p]
<1>1. /\ process \in ProcessRecords /\ UNCHANGED <<history, clock, reader>>
      /\ Becomes(p, Raised(process))
  BY BeforeStep DEF CycleRaises, ProcessIsLost
<1> HIDE DEF process
<1>2. Goes(process, Raised(process))
  BY <1>1, RaisedGoes
<1> QED
  BY <1>1, <1>2, OneGoes DEF process

\* The history of a cycle fails.
LEMMA HistoryFailsGoes ==
  ASSUME RunnerInv, HistoryInv, NEW p \in Processes, HistoryFails(p)
  PROVE  HistoryInv'
<1> DEFINE process == processes[p]
<1>1. /\ process \in ProcessRecords /\ UNCHANGED <<history, clock, reader>>
      /\ Becomes(p, Told(process, "failed"))
  BY BeforeStep DEF HistoryFails
<1> HIDE DEF process
<1>2. Goes(process, Told(process, "failed"))
  BY <1>1, ToldFailedGoes
<1> QED
  BY <1>1, <1>2, OneGoes DEF process

-----------------------------------------------------------------------------
(* The history of a cycle.                                                  *)

\* A cycle whose history is written is done, and its id is new.
LEMMA CycleIsDone ==
  ASSUME RunnerInv, HistoryInv, NEW p \in Processes, processes[p].stage = "history"
  PROVE  LET cycle == processes[p].cycle IN
         /\ IsDone(cycle) /\ Fresh(cycle.run, history)
         /\ cycle.run = <<cycle.number, cycle.started>>
         /\ cycle.number \in Nat /\ cycle.started \in 1..clock
<1> DEFINE process == processes[p]
           cycle == process.cycle
<1>1. /\ process \in ProcessRecords /\ process.config \in Configs
      /\ process.stage = "history" /\ CycleIsSound(process)
  BY DEF RunnerInv, ProcessIsSound
<1>2. cycle \in CycleRecords /\ cycle.number \in Nat
  BY <1>1 DEF ProcessRecords, CycleRecords
<1>3. CycleIsNew(process, history, clock)
  BY DEF HistoryInv
<1> HIDE DEF process
<1>4. /\ cycle.families = process.config.families
      /\ Len(cycle.results) = Len(cycle.families)
      /\ \A i \in DOMAIN cycle.results : cycle.results[i].family = cycle.families[i]
  BY <1>1 DEF CycleIsSound, InACycle, Writing, Storing
<1>5. Distinct(cycle.families)
  BY <1>1, <1>4, ConfigType
<1>6. /\ cycle.run = <<cycle.number, cycle.started>> /\ cycle.started \in 1..clock
      /\ Fresh(cycle.run, history)
      /\ \A i \in DOMAIN cycle.results : OwnFailures(cycle.results[i])
  BY <1>1, <1>3 DEF CycleIsNew, InACycle, Writing, Storing, RunId
<1> HIDE DEF cycle
<1>7. IsDone(cycle)
  BY <1>2, <1>4, <1>5, <1>6 DEF IsDone
<1> QED
  BY <1>2, <1>6, <1>7 DEF cycle, process

\* The tables after the rows of a cycle that is done have been added.
LEMMA TablesTellMore ==
  ASSUME NEW tables, NEW now, TablesTell(tables, now), NEW cycle, IsDone(cycle),
         Fresh(cycle.run, tables), cycle.run \in Nat \X (1..now)
  PROVE  TablesTell(Persist(tables, Command(cycle)), now)
<1> DEFINE after == Persist(tables, Command(cycle))
           row == RunRow(cycle)
           rows == Command(cycle).results
           issues == Range(Command(cycle).issues)
<1>1. /\ IsHistory(after) /\ after.runs = tables.runs \cup {row}
      /\ after.results = tables.results \cup rows
      /\ after.issues \subseteq tables.issues \cup issues
  BY PersistFacts DEF TablesTell
<1>2. /\ row.run = cycle.run
      /\ \A r \in rows : r.run = cycle.run
      /\ \A i \in issues : i.run = cycle.run
  BY CommandFacts DEF ResultRow, IssueRow
<1>3. TellOneStory(row, SourceResults(after, cycle.run), Issues(after, cycle.run))
  <2>1. /\ SourceResults(after, cycle.run) = rows
        /\ Issues(after, cycle.run) \subseteq issues
        /\ StableIds(issues) \subseteq StableIds(Issues(after, cycle.run))
    BY RowsOfTheRun DEF TablesTell
  <2> HIDE DEF after
  <2> QED
    BY <2>1, CycleTellsOneStory
<1>4. \A run : run # cycle.run => /\ SourceResults(after, run) = SourceResults(tables, run)
                                  /\ Issues(after, run) = Issues(tables, run)
  BY RowsOfTheRun DEF TablesTell
<1> HIDE DEF after, row, rows, issues
<1>5. \A r \in after.runs \cup after.results \cup after.issues : r.run \in Nat \X (1..now)
  BY <1>1, <1>2 DEF TablesTell
<1>6. \A r \in tables.runs : r.run # cycle.run
  BY DEF Fresh
<1>7. \A r, s \in after.runs : r.run = s.run => r = s
  BY <1>1, <1>2, <1>6 DEF TablesTell
<1>8. \A run \in after.runs :
        TellOneStory(run, SourceResults(after, run.run), Issues(after, run.run))
  BY <1>1, <1>2, <1>3, <1>4, <1>6 DEF TablesTell
<1>9. TablesTell(after, now)
  BY <1>1, <1>5, <1>7, <1>8 DEF TablesTell
<1> QED
  BY <1>9 DEF after

\* A step that adds the rows of a cycle, and ends it.
LEMMA OneDeclares ==
  ASSUME RunnerInv, HistoryInv, NEW p \in Processes, processes[p].stage = "history",
         NEW new, Becomes(p, new), new.stage \notin InACycle,
         \A i \in DOMAIN new.told :
           \/ new.told[i].history # "declared"
           \/ \E j \in DOMAIN processes[p].told : processes[p].told[j] = new.told[i]
           \/ /\ new.told[i].run = processes[p].cycle.run
              /\ new.told[i].status = CycleStatus(processes[p].cycle.results),
         history' = Persist(history, CycleCommand(processes[p])), UNCHANGED <<clock, reader>>
  PROVE  HistoryInv'
<1> DEFINE process == processes[p]
           cycle == process.cycle
           after == Persist(history, Command(cycle))
<1>1. /\ IsDone(cycle) /\ Fresh(cycle.run, history)
      /\ cycle.run = <<cycle.number, cycle.started>>
      /\ cycle.number \in Nat /\ cycle.started \in 1..clock
  BY CycleIsDone
<1>2. history' = after
  BY DEF CycleCommand
<1>3. TablesTell(history, clock) /\ ReaderIsSound(reader, history) /\ IsHistory(history)
  BY DEF HistoryInv, TablesTell
<1>4. cycle.run \in Nat \X (1..clock)
  BY <1>1
<1>5. /\ processes'[p] = new
      /\ \A q \in Processes : q # p => processes'[q] = processes[q]
  BY DEF Becomes, RunnerInv
<1>6. /\ after.runs = history.runs \cup {RunRow(cycle)}
      /\ after.results = history.results \cup Command(cycle).results
      /\ after.issues \subseteq history.issues \cup Range(Command(cycle).issues)
  BY <1>1, <1>3, PersistFacts
<1>7. /\ RunRow(cycle).run = cycle.run /\ RunRow(cycle).status = CycleStatus(cycle.results)
      /\ \A r \in Command(cycle).results : r.run = cycle.run
      /\ \A i \in Range(Command(cycle).issues) : i.run = cycle.run
  <2> HIDE DEF cycle
  <2>1. RunRow(cycle).run = cycle.run /\ RunRow(cycle).status = CycleStatus(cycle.results)
    BY DEF RunRow
  <2>2. /\ \A r \in Command(cycle).results : r.run = cycle.run
        /\ \A i \in Range(Command(cycle).issues) : i.run = cycle.run
    BY <1>1, CommandFacts DEF ResultRow, IssueRow
  <2> QED
    BY <2>1, <2>2
<1>8. \A run : run # cycle.run => /\ SourceResults(after, run) = SourceResults(history, run)
                                  /\ Issues(after, run) = Issues(history, run)
  BY <1>1, <1>3, RowsOfTheRun
<1>9. \A r \in history.runs : r.run # cycle.run
  BY <1>1 DEF Fresh
<1>10. TablesTell(after, clock)
  <2> HIDE DEF cycle
  <2> QED
    BY <1>1, <1>3, <1>4, TablesTellMore
<1> HIDE DEF after
<1>11. ReaderIsSound(reader, after)
  <2>1. reader.stage # "idle" =>
          /\ \E run \in after.runs : reader.run = {run}
          /\ \A run \in reader.run : run.run # cycle.run
    BY <1>3, <1>6, <1>9 DEF ReaderIsSound
  <2> QED
    BY <1>3, <1>8, <2>1 DEF ReaderIsSound
<1>12. ASSUME NEW q \in Processes, q # p
       PROVE  CycleIsNew(processes[q], after, clock) /\ ToldIsTrue(processes[q], after)
  <2>1. CycleIsNew(processes[q], history, clock) /\ ToldIsTrue(processes[q], history)
    BY DEF HistoryInv
  <2>2. ToldIsTrue(processes[q], after)
    BY <1>6, <2>1 DEF ToldIsTrue
  <2>3. processes[q].stage \in InACycle =>
          /\ processes[q].cycle.run # cycle.run
          /\ Fresh(processes[q].cycle.run, history)
    <3>1. SUFFICES ASSUME processes[q].stage \in InACycle
                   PROVE  processes[q].cycle.run # cycle.run
      BY <2>1 DEF CycleIsNew
    <3>2. processes[q].cycle.started # cycle.started
      BY <1>12, <3>1 DEF HistoryInv, CyclesApart, InACycle, Writing, Storing
    <3>3. processes[q].cycle.run = <<processes[q].cycle.number, processes[q].cycle.started>>
      BY <2>1, <3>1 DEF CycleIsNew, RunId
    <3> QED
      BY <1>1, <3>2, <3>3
  <2>4. processes[q].stage \in InACycle => Fresh(processes[q].cycle.run, after)
    BY <1>6, <1>7, <2>3 DEF Fresh
  <2> QED
    BY <2>1, <2>2, <2>4 DEF CycleIsNew
<1>13. CycleIsNew(new, after, clock) /\ ToldIsTrue(new, after)
  <2>1. ToldIsTrue(process, history)
    BY DEF HistoryInv
  <2>2. \A i \in DOMAIN new.told :
          new.told[i].history = "declared" =>
            \/ \E j \in DOMAIN process.told : process.told[j] = new.told[i]
            \/ RunRow(cycle).run = new.told[i].run /\ RunRow(cycle).status = new.told[i].status
    BY <1>7
  <2> HIDE DEF process, cycle
  <2>3. ToldIsTrue(new, after)
    BY <1>6, <2>1, <2>2 DEF ToldIsTrue
  <2> QED
    BY <2>3 DEF CycleIsNew
<1>14. CyclesApart(processes')
  BY <1>5 DEF HistoryInv, CyclesApart
<1>15. \A q \in Processes : CycleIsNew(processes'[q], after, clock)
                            /\ ToldIsTrue(processes'[q], after)
  BY <1>5, <1>12, <1>13
<1> QED
  BY <1>2, <1>10, <1>11, <1>14, <1>15 DEF HistoryInv

\* What a process is told at the end of a cycle.
LEMMA ToldFields ==
  ASSUME NEW process \in ProcessRecords, NEW answer
  PROVE  /\ Told(process, answer).stage \notin InACycle
         /\ \A i \in DOMAIN Told(process, answer).told :
              \/ \E j \in DOMAIN process.told : process.told[j] = Told(process, answer).told[i]
              \/ Told(process, answer).told[i] =
                   [run |-> process.cycle.run, history |-> answer,
                    status |-> CycleStatus(process.cycle.results)]
<1> DEFINE told == [run |-> process.cycle.run, history |-> answer,
                    status |-> CycleStatus(process.cycle.results)]
           released == Released(process)
           answers == Append(released.told, told)
           over == [released EXCEPT !.stage = "next_cycle", !.at = 1, !.cycle = NoCycle,
                                    !.told = answers]
<1>1. released \in ProcessRecords /\ released.told = process.told
  BY ReleasedFields
<1>2. Told(process, answer) = over
  BY DEF Told
<1> HIDE DEF told, released
<1>3. \A i \in DOMAIN answers :
        answers[i] = told \/ \E j \in DOMAIN process.told : process.told[j] = answers[i]
  BY <1>1 DEF ProcessRecords
<1> HIDE DEF answers
<1>4. over.stage = "next_cycle" /\ over.told = answers
  BY <1>1 DEF ProcessRecords
<1> HIDE DEF over
<1> QED
  BY <1>2, <1>3, <1>4 DEF told, InACycle, Writing, Storing

\* The history is committed, and the cycle says so.
LEMMA CommitHistoryTells ==
  ASSUME RunnerInv, HistoryInv, NEW p \in Processes, CommitHistory(p)
  PROVE  HistoryInv'
<1> DEFINE process == processes[p]
           new == Told(process, "declared")
<1>1. /\ process \in ProcessRecords /\ process.stage = "history" /\ Becomes(p, new)
      /\ history' = Persist(history, CycleCommand(process)) /\ UNCHANGED <<clock, reader>>
  BY BeforeStep DEF CommitHistory
<1>2. /\ new.stage \notin InACycle
      /\ \A i \in DOMAIN new.told :
           \/ \E j \in DOMAIN process.told : process.told[j] = new.told[i]
           \/ new.told[i] = [run |-> process.cycle.run, history |-> "declared",
                             status |-> CycleStatus(process.cycle.results)]
  BY <1>1, ToldFields
<1> HIDE DEF new
<1>3. \A i \in DOMAIN new.told :
        \/ \E j \in DOMAIN process.told : process.told[j] = new.told[i]
        \/ /\ new.told[i].run = process.cycle.run
           /\ new.told[i].status = CycleStatus(process.cycle.results)
  BY <1>2
<1> QED
  BY <1>1, <1>2, <1>3, OneDeclares

\* The answer of the commit is lost, and the rows are there or not.
LEMMA HistoryAnswerLostTells ==
  ASSUME RunnerInv, HistoryInv, NEW p \in Processes, HistoryAnswerLost(p)
  PROVE  HistoryInv'
<1> DEFINE process == processes[p]
           new == [Told(process, "failed") EXCEPT !.connected = FALSE]
<1>1. /\ process \in ProcessRecords /\ process.stage = "history" /\ Becomes(p, new)
      /\ history' \in {history, Persist(history, CycleCommand(process))}
      /\ UNCHANGED <<clock, reader>>
  BY BeforeStep DEF HistoryAnswerLost
<1>2. Goes(process, new)
  BY <1>1, ToldFailedGoes
<1>3. CASE history' = history
  <2> HIDE DEF new
  <2> QED
    BY <1>1, <1>2, <1>3, OneGoes
<1>4. CASE history' = Persist(history, CycleCommand(process))
  <2>1. new.stage \notin InACycle
    <3> DEFINE told == Told(process, "failed")
    <3>1. told.stage \notin InACycle
      BY <1>1, ToldFields
    <3> HIDE DEF told
    <3>2. [told EXCEPT !.connected = FALSE].stage = told.stage
      OBVIOUS
    <3> QED
      BY <3>1, <3>2 DEF told
  <2> HIDE DEF new
  <2>2. \A i \in DOMAIN new.told :
          \/ new.told[i].history # "declared"
          \/ \E j \in DOMAIN process.told : process.told[j] = new.told[i]
    BY <1>2 DEF Goes
  <2> QED
    BY <1>1, <1>4, <2>1, <2>2, OneDeclares
<1> QED
  BY <1>1, <1>3, <1>4

-----------------------------------------------------------------------------
(* The reader, and the invariant.                                           *)

\* What is read is there, and what was read before still is.
LEMMA ReadTells ==
  ASSUME RunnerInv, HistoryInv, Read
  PROVE  HistoryInv'
<1>1. UNCHANGED <<history, clock, processes>>
  BY DEF Read, ReadRun, ReadResults, ReadIssues, CloseDetail, Reads
<1>2. TablesTell(history, clock) /\ ReaderIsSound(reader, history)
  BY DEF HistoryInv
<1>3. ASSUME \E limit \in Limits : ReadRun(limit)
      PROVE ReaderIsSound(reader', history)
  <2>1. PICK listed \in history.runs :
          reader' = [NothingRead EXCEPT !.stage = "run", !.run = RunById(history, listed.run)]
    BY <1>3 DEF ReadRun, Reads, RecentRuns
  <2>2. listed \in history.runs
    OBVIOUS
  <2>3. RunById(history, listed.run) = {listed}
    BY <1>2, <2>2 DEF RunById, TablesTell
  <2>4. reader' = [stage |-> "run", run |-> {listed}, results |-> {}, issues |-> {}]
    BY <2>1, <2>3 DEF NothingRead
  <2> QED
    BY <2>2, <2>4 DEF ReaderIsSound
<1>4. ASSUME ReadResults PROVE ReaderIsSound(reader', history)
  <2>1. PICK row \in reader.run :
          reader' = [reader EXCEPT !.stage = "results",
                                   !.results = SourceResults(history, row.run)]
    BY <1>4 DEF ReadResults, Reads
  <2>2. reader.stage = "run"
    BY <1>4 DEF ReadResults
  <2>3. reader' = [stage |-> "results", run |-> reader.run,
                   results |-> SourceResults(history, row.run), issues |-> reader.issues]
    BY <1>2, <2>1 DEF ReaderIsSound
  <2>4. reader.run = {row} /\ row \in history.runs
    BY <1>2, <2>2 DEF ReaderIsSound
  <2> QED
    BY <2>3, <2>4 DEF ReaderIsSound
<1>5. ASSUME ReadIssues PROVE ReaderIsSound(reader', history)
  <2>1. PICK row \in reader.run :
          reader' = [reader EXCEPT !.stage = "detail", !.issues = Issues(history, row.run)]
    BY <1>5 DEF ReadIssues, Reads
  <2>2. reader.stage = "results"
    BY <1>5 DEF ReadIssues
  <2>3. reader' = [stage |-> "detail", run |-> reader.run, results |-> reader.results,
                   issues |-> Issues(history, row.run)]
    BY <1>2, <2>1 DEF ReaderIsSound
  <2>4. /\ reader.run = {row} /\ row \in history.runs
        /\ reader.results = SourceResults(history, row.run)
    BY <1>2, <2>2 DEF ReaderIsSound
  <2> QED
    BY <2>3, <2>4 DEF ReaderIsSound
<1>6. ASSUME CloseDetail PROVE ReaderIsSound(reader', history)
  BY <1>6 DEF CloseDetail, Reads, NothingRead, ReaderIsSound
<1>7. ReaderIsSound(reader', history)
  BY <1>1, <1>3, <1>4, <1>5, <1>6 DEF Read
<1> QED
  BY <1>1, <1>7 DEF HistoryInv

\* Nothing is in the tables at first, and no process is in a cycle.
LEMMA HistoryInvInitially == RunnerInit => HistoryInv
<1> SUFFICES ASSUME RunnerInit PROVE HistoryInv
  OBVIOUS
<1>1. /\ history = EmptyHistory /\ clock = 0 /\ reader = NothingRead
      /\ \A p \in Processes : processes[p] = NotStarted
  BY DEF RunnerInit
<1>2. TablesTell(history, clock)
  BY <1>1 DEF EmptyHistory, TablesTell, IsHistory
<1>3. ReaderIsSound(reader, history)
  BY <1>1 DEF NothingRead, ReaderIsSound
<1>4. NotStarted.stage \notin InACycle /\ DOMAIN NotStarted.told = {}
  BY DEF NotStarted, InACycle, Writing, Storing
<1>5. \A p \in Processes : /\ CycleIsNew(processes[p], history, clock)
                           /\ ToldIsTrue(processes[p], history)
  BY <1>1, <1>4 DEF CycleIsNew, ToldIsTrue
<1>6. CyclesApart(processes)
  BY <1>1, <1>4 DEF CyclesApart
<1> QED
  BY <1>2, <1>3, <1>5, <1>6 DEF HistoryInv

\* Every step keeps the invariant of the history.
LEMMA HistoryInvInductive == RunnerInv /\ HistoryInv /\ [RunnerNext]_runnerVars => HistoryInv'
<1> SUFFICES ASSUME RunnerInv, HistoryInv, [RunnerNext]_runnerVars PROVE HistoryInv'
  OBVIOUS
<1>1. ASSUME NEW p \in Processes, Cycle(p) PROVE HistoryInv'
  <2>1. CASE BeginCycle(p)
    BY <2>1, BeginCycleIsNew
  <2>2. CASE CycleRaises(p)
    BY <2>2, RaisingGoes
  <2>3. CASE Return(p)
    BY <2>3, BeginBatchOrReturnGoes
  <2>4. CASE NotAvailable(p)
    BY <2>4, NotAvailableGoes
  <2>5. CASE FamilyFails(p)
    BY <2>5, FamilyFailsGoes
  <2>6. CASE BeginBatch(p)
    BY <2>6, BeginBatchOrReturnGoes
  <2>7. CASE WriteRows(p)
    BY <2>7, WriteTableGoes DEF WriteRows
  <2>8. CASE CommitRows(p)
    BY <2>8, CommitRowsGoes
  <2>9. CASE RowsFail(p)
    BY <2>9, RowsFailGoes
  <2>10. CASE WriteHistory(p)
    BY <2>10, WriteTableGoes DEF WriteHistory
  <2>11. CASE CommitHistory(p)
    BY <2>11, CommitHistoryTells
  <2>12. CASE HistoryFails(p)
    BY <2>12, HistoryFailsGoes
  <2>13. CASE HistoryAnswerLost(p)
    BY <2>13, HistoryAnswerLostTells
  <2>14. CASE WriteYear(p)
    BY <2>14, WriteTableGoes DEF WriteYear
  <2>15. CASE CommitYear(p)
    BY <2>15, CommitYearGoes
  <2> QED
    BY <1>1, <2>1, <2>2, <2>3, <2>4, <2>5, <2>6, <2>7, <2>8, <2>9, <2>10, <2>11, <2>12, <2>13,
       <2>14, <2>15 DEF Cycle
<1>2. ASSUME NEW p \in Processes, Startup(p) PROVE HistoryInv'
  BY <1>2, StartupGoes
<1>3. ASSUME NEW p \in Processes, ProcessIsLost(p) PROVE HistoryInv'
  BY <1>3, RaisingGoes
<1>4. CASE Read
  BY <1>4, ReadTells
<1>5. CASE UNCHANGED runnerVars
  BY <1>5 DEF runnerVars, HistoryInv
<1> QED
  BY <1>1, <1>2, <1>3, <1>4, <1>5 DEF RunnerNext

\* Both invariants always hold.
LEMMA HistoryInvHolds == RunnerSpec => []HistoryInv
<1>1. RunnerInit => HistoryInv
  BY HistoryInvInitially
<1>2. RunnerInv /\ HistoryInv /\ [RunnerNext]_runnerVars => HistoryInv'
  BY HistoryInvInductive
<1>3. RunnerSpec => []RunnerInv
  BY RunnerInvHolds
<1> QED
  BY <1>1, <1>2, <1>3, PTL DEF RunnerSpec

\* The history tells one story of every run, and a cycle that was told its history is declared
\* has one, for any number of processes, families and cycles, whatever fails and whichever
\* answers are lost (persist_ingestion_run_history).
THEOREM HistoryStaysWhole == RunnerSpec => []HistoryIsWhole
<1>1. HistoryInv => HistoryIsWhole
  BY DEF HistoryInv, TablesTell, ToldIsTrue, HistoryIsWhole
<1> QED
  BY <1>1, HistoryInvHolds, PTL

\* What a reader puts together from three statements is one run as it was written, whatever is
\* written between them (get_ingestion_run_by_id): rows of a run are never changed or added.
THEOREM DetailStaysWhole == RunnerSpec => []DetailIsWhole
<1>1. HistoryInv => DetailIsWhole
  <2> SUFFICES ASSUME HistoryInv, reader.stage = "detail"
               PROVE  \E run \in reader.run : TellOneStory(run, reader.results, reader.issues)
    BY DEF DetailIsWhole
  <2>1. TablesTell(history, clock) /\ ReaderIsSound(reader, history)
    BY DEF HistoryInv
  <2>2. PICK run \in history.runs : reader.run = {run}
    BY <2>1 DEF ReaderIsSound
  <2>3. /\ reader.results = SourceResults(history, run.run)
        /\ reader.issues = Issues(history, run.run)
    BY <2>1, <2>2 DEF ReaderIsSound
  <2>4. TellOneStory(run, reader.results, reader.issues)
    BY <2>1, <2>3 DEF TablesTell
  <2> QED
    BY <2>2, <2>4
<1> QED
  BY <1>1, HistoryInvHolds, PTL
===============================================================================
