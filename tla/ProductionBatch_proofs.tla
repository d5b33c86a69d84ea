------------------------- MODULE ProductionBatch_proofs -------------------------
(***************************************************************************)
(* Proofs about ProductionBatch, for any files, families and number of     *)
(* years.                                                                  *)
(***************************************************************************)
EXTENDS ProductionBatch, FiniteSetTheorems, TLAPS

GhgReads == INSTANCE FoldTheorems WITH Op <- GhgRead
IpccReads == INSTANCE FoldTheorems WITH Op <- IpccRead
Fills == INSTANCE FoldTheorems WITH Op <- DefraFilled
Inserts == INSTANCE FoldTheorems WITH Op <- WithRecord

-----------------------------------------------------------------------------
(* What a loop keeps of a sequence.                                         *)

\* A sequence without elements is empty.
LEMMA NothingInRange ==
  ASSUME NEW T, NEW s \in Seq(T), Range(s) = {}
  PROVE  s = <<>>
<1>1. DOMAIN s = {}
  BY DEF Range
<1> QED
  BY <1>1

Chosen(seq, n, chosen) == {seq[k] : k \in (1..n) \cap chosen}

Selects(trace, seq, n, chosen) ==
  /\ trace[0] = <<>>
  /\ \A k \in 1..n : trace[k] = IF k \in chosen THEN Append(trace[k - 1], seq[k])
                               ELSE trace[k - 1]

\* A loop that appends the elements at some positions ends with these elements.
LEMMA Selection ==
  ASSUME NEW seq, NEW n \in Nat, NEW chosen, NEW trace, Selects(trace, seq, n, chosen)
  PROVE  /\ trace[n] \in Seq(Range(trace[n]))
         /\ Range(trace[n]) = Chosen(seq, n, chosen)
<1> USE DEF Selects
<1> DEFINE Kept(k) == {seq[j] : j \in (1..k) \cap chosen}
           P == {k \in Nat : k <= n => trace[k] \in Seq(Kept(k)) /\ Range(trace[k]) = Kept(k)}
<1>1. 0 \in P
  <2>1. Kept(0) = {}
    OBVIOUS
  <2>2. <<>> \in Seq(Kept(0)) /\ DOMAIN <<>> = {}
    OBVIOUS
  <2>3. Range(<<>>) = {}
    BY <2>2 DEF Range
  <2> QED
    BY <2>1, <2>2, <2>3
<1>2. ASSUME NEW k \in Nat, k \in P PROVE k + 1 \in P
  <2> SUFFICES ASSUME k + 1 <= n
               PROVE  trace[k + 1] \in Seq(Kept(k + 1)) /\ Range(trace[k + 1]) = Kept(k + 1)
    OBVIOUS
  <2>1. /\ trace[k] \in Seq(Kept(k)) /\ Range(trace[k]) = Kept(k)
        /\ k + 1 \in 1..n /\ (k + 1) - 1 = k
    BY <1>2
  <2>2. \A j \in 1..(k + 1) : j \in 1..k \/ j = k + 1
    OBVIOUS
  <2>3. (1..k) \subseteq 1..(k + 1) /\ k + 1 \in 1..(k + 1)
    OBVIOUS
  <2>4. CASE k + 1 \in chosen
    <3>1. Kept(k + 1) = Kept(k) \cup {seq[k + 1]}
      BY <2>2, <2>3, <2>4
    <3>2. trace[k + 1] = Append(trace[k], seq[k + 1])
      BY <2>1, <2>4
    <3> DEFINE old == trace[k]
               new == Append(old, seq[k + 1])
               T == Kept(k + 1)
    <3>3. old \in Seq(T) /\ seq[k + 1] \in T
      <4>1. old \in Seq(Kept(k)) /\ Kept(k) \subseteq T /\ seq[k + 1] \in T
        BY <2>1, <3>1
      <4> HIDE DEF Kept, T, old
      <4> QED
        BY <4>1
    <3> HIDE DEF T, old
    <3>4. /\ new \in Seq(T) /\ Len(old) \in Nat /\ DOMAIN old = 1..Len(old)
          /\ DOMAIN new = 1..(Len(old) + 1)
          /\ new[Len(old) + 1] = seq[k + 1]
          /\ \A i \in 1..Len(old) : new[i] = old[i]
      BY <3>3
    <3>5. \A i \in 1..(Len(old) + 1) : i \in 1..Len(old) \/ i = Len(old) + 1
      BY <3>4
    <3>6. (1..Len(old)) \subseteq 1..(Len(old) + 1) /\ Len(old) + 1 \in 1..(Len(old) + 1)
      BY <3>4
    <3> HIDE DEF new
    <3>7. Range(new) = Range(old) \cup {seq[k + 1]}
      BY <3>4, <3>5, <3>6 DEF Range
    <3> USE DEF T, old
    <3> QED
      BY <2>1, <3>1, <3>2, <3>4, <3>7 DEF new
  <2>5. CASE k + 1 \notin chosen
    <3>1. Kept(k + 1) = Kept(k)
      BY <2>2, <2>3, <2>5
    <3> QED
      BY <2>1, <2>5, <3>1
  <2> QED
    BY <2>4, <2>5
<1> HIDE DEF P
<1>3. Nat \subseteq P
  BY <1>1, <1>2, Inserts!SetInduction
<1>4. trace[n] \in Seq(Kept(n)) /\ Range(trace[n]) = Kept(n)
  <2>1. n \in P
    BY <1>3
  <2> QED
    BY <2>1 DEF P
<1>5. Kept(n) = Chosen(seq, n, chosen)
  BY DEF Chosen
<1> HIDE DEF Kept
<1> QED
  BY <1>4, <1>5, Zenon

\* The records of the lines that are read, under their numbers.
Read(lines, Reads(_)) == {[number |-> i + 1, line |-> lines[i]] : i \in {j \in DOMAIN lines : Reads(lines[j])}}

GhgReadable(line) == IsFactor(line) /\ GhgRowIssues(line) = {}
IpccReadable(line) == IsFactor(line) /\ IpccRowIssues(line) = {}

\* The records of parse_rows are those of the lines it can read, in order.
LEMMA GhgRecords ==
  ASSUME NEW lines, lines \in Seq(Range(lines))
  PROVE  LET kept == FoldLeft(GhgRead, <<>>, Numbered(lines)) IN
         /\ kept \in Seq(Range(kept))
         /\ Range(kept) = Read(lines, GhgReadable)
<1> DEFINE n == Len(lines)
           seq == Numbered(lines)
           chosen == {k \in 1..n : GhgReadable(lines[k])}
<1>1. n \in Nat /\ DOMAIN lines = 1..n
  OBVIOUS
<1>2. DOMAIN seq = 1..n /\ \A k \in 1..n : seq[k] = [number |-> k + 1, line |-> lines[k]]
  BY <1>1 DEF Numbered
<1> HIDE DEF n, seq
<1>3. PICK trace : GhgReads!IsTrace(trace, <<>>, seq, n)
  BY <1>1, <1>2, GhgReads!FoldTrace
<1>4. /\ trace[0] = <<>>
      /\ \A k \in 1..n : trace[k] = GhgRead(trace[k - 1], seq[k])
      /\ GhgReads!Fold(<<>>, seq) = trace[n]
  BY <1>3 DEF GhgReads!IsTrace
<1>5. Selects(trace, seq, n, chosen)
  <2> SUFFICES ASSUME NEW k \in 1..n
               PROVE  trace[k] = IF k \in chosen THEN Append(trace[k - 1], seq[k])
                                 ELSE trace[k - 1]
    BY <1>4 DEF Selects
  <2>1. seq[k].line = lines[k]
    BY <1>2
  <2> QED
    BY <1>4, <2>1 DEF GhgRead, GhgReadable
<1> HIDE DEF chosen
<1>6. /\ trace[n] \in Seq(Range(trace[n]))
      /\ Range(trace[n]) = Chosen(seq, n, chosen)
  BY <1>1, <1>5, Selection
<1>7. GhgReads!Fold(<<>>, seq) = FoldLeft(GhgRead, <<>>, Numbered(lines))
  BY DEF seq, GhgReads!Fold, GhgReads!FoldLeft, FoldLeft, MapThenFoldSet,
         GhgReads!MapThenFoldSet, Max, GhgReads!Max
<1>8. Chosen(seq, n, chosen) = Read(lines, GhgReadable)
  BY <1>1, <1>2 DEF chosen, Read, Chosen
<1> QED
  BY <1>4, <1>6, <1>7, <1>8

\* The same of the parser of the emission factor database.
LEMMA IpccRecords ==
  ASSUME NEW lines, lines \in Seq(Range(lines))
  PROVE  LET kept == FoldLeft(IpccRead, <<>>, Numbered(lines)) IN
         /\ kept \in Seq(Range(kept))
         /\ Range(kept) = Read(lines, IpccReadable)
<1> DEFINE n == Len(lines)
           seq == Numbered(lines)
           chosen == {k \in 1..n : IpccReadable(lines[k])}
<1>1. n \in Nat /\ DOMAIN lines = 1..n
  OBVIOUS
<1>2. DOMAIN seq = 1..n /\ \A k \in 1..n : seq[k] = [number |-> k + 1, line |-> lines[k]]
  BY <1>1 DEF Numbered
<1> HIDE DEF n, seq
<1>3. PICK trace : IpccReads!IsTrace(trace, <<>>, seq, n)
  BY <1>1, <1>2, IpccReads!FoldTrace
<1>4. /\ trace[0] = <<>>
      /\ \A k \in 1..n : trace[k] = IpccRead(trace[k - 1], seq[k])
      /\ IpccReads!Fold(<<>>, seq) = trace[n]
  BY <1>3 DEF IpccReads!IsTrace
<1>5. Selects(trace, seq, n, chosen)
  <2> SUFFICES ASSUME NEW k \in 1..n
               PROVE  trace[k] = IF k \in chosen THEN Append(trace[k - 1], seq[k])
                                 ELSE trace[k - 1]
    BY <1>4 DEF Selects
  <2>1. seq[k].line = lines[k]
    BY <1>2
  <2> QED
    BY <1>4, <2>1 DEF IpccRead, IpccReadable
<1> HIDE DEF chosen
<1>6. /\ trace[n] \in Seq(Range(trace[n]))
      /\ Range(trace[n]) = Chosen(seq, n, chosen)
  BY <1>1, <1>5, Selection
<1>7. IpccReads!Fold(<<>>, seq) = FoldLeft(IpccRead, <<>>, Numbered(lines))
  BY DEF seq, IpccReads!Fold, IpccReads!FoldLeft, FoldLeft, MapThenFoldSet,
         IpccReads!MapThenFoldSet, Max, IpccReads!Max
<1>8. Chosen(seq, n, chosen) = Read(lines, IpccReadable)
  BY <1>1, <1>2 DEF chosen, Read, Chosen
<1> QED
  BY <1>4, <1>6, <1>7, <1>8

DefraReadable(line) == ~IsBlank(line) \/ line.extra

\* The lines the reader of the workbook keeps are those whose columns are filled.
LEMMA DefraFilledLines ==
  ASSUME NEW lines, lines \in Seq(Range(lines))
  PROVE  LET filled == FoldLeft(DefraFilled, <<>>, lines) IN
         /\ filled \in Seq(Range(filled))
         /\ Range(filled) = {lines[i] : i \in {j \in DOMAIN lines : DefraReadable(lines[j])}}
<1> DEFINE n == Len(lines)
           chosen == {k \in 1..n : DefraReadable(lines[k])}
<1>1. n \in Nat /\ DOMAIN lines = 1..n
  OBVIOUS
<1> HIDE DEF n
<1>3. PICK trace : Fills!IsTrace(trace, <<>>, lines, n)
  BY <1>1, Fills!FoldTrace
<1>4. /\ trace[0] = <<>>
      /\ \A k \in 1..n : trace[k] = DefraFilled(trace[k - 1], lines[k])
      /\ Fills!Fold(<<>>, lines) = trace[n]
  BY <1>3 DEF Fills!IsTrace
<1>5. Selects(trace, lines, n, chosen)
  BY <1>4 DEF Selects, DefraFilled, DefraReadable
<1> HIDE DEF chosen
<1>6. /\ trace[n] \in Seq(Range(trace[n]))
      /\ Range(trace[n]) = Chosen(lines, n, chosen)
  BY <1>1, <1>5, Selection
<1>7. Fills!Fold(<<>>, lines) = FoldLeft(DefraFilled, <<>>, lines)
  BY DEF Fills!Fold, Fills!FoldLeft, FoldLeft, MapThenFoldSet,
         Fills!MapThenFoldSet, Max, Fills!Max
<1>8. Chosen(lines, n, chosen) = {lines[i] : i \in {j \in DOMAIN lines : DefraReadable(lines[j])}}
  BY <1>1 DEF chosen, Chosen
<1> QED
  BY <1>4, <1>6, <1>7, <1>8
-----------------------------------------------------------------------------
(* The rows of an artifact.                                                 *)

\* An artifact of a family as it is archived.
IsArtifact(a, f) ==
  /\ f \in Families /\ a.year \in Nat /\ a.file \in FilesOf[f]
  /\ \E where \in Places : a.uri = <<where, f, a.year>>
  /\ a = [family |-> f, year |-> a.year, file |-> a.file, uri |-> a.uri, label |-> LabelOf[f]]

\* What the version, the year and the factor of a row are made of.
IsOfLine(a, line, r) ==
  IF a.family \in PerFactor
  THEN r.factor = line.factor /\ r.year = line.year /\ r.version = line.version
  ELSE r.factor = DefraFactor(a, line) /\ r.year = a.year /\ r.version = DefraVersion(a)

\* A row is of the i-th line of an artifact.
IsRow(a, i, r) ==
  LET line == a.file.lines[i] IN
  /\ i \in DOMAIN a.file.lines /\ Counts(a, line)
  /\ r.family = a.family /\ r.uri = a.uri /\ r.sum = a.file
  /\ r.family # Absent /\ r.year # Absent /\ r.version # Absent
  /\ r.versionYear = r.version.year
  /\ IsOfLine(a, line, r)
  /\ r.unit = Unit(line)
  /\ r.value # Absent /\ line.value # Absent /\ r.value.number = line.value.number

\* The rows of an artifact are those of the lines that count.
AreRows(a, rows) ==
  /\ rows \in Seq(Range(rows))
  /\ \A r \in Range(rows) : \E i \in DOMAIN a.file.lines : IsRow(a, i, r)
  /\ \A i \in DOMAIN a.file.lines :
       Counts(a, a.file.lines[i]) => \E r \in Range(rows) : IsRow(a, i, r)

\* What is known of an artifact of family f.
LEMMA ArtifactFacts ==
  ASSUME NEW f, NEW a, IsArtifact(a, f)
  PROVE  /\ f \in Families /\ f # Absent /\ a.family = f /\ a.year \in Nat /\ a.year # Absent
         /\ a.label = LabelOf[f] /\ \E where \in Places : a.uri = <<where, f, a.year>>
         /\ a.file.lines \in Seq(Range(a.file.lines))
         /\ \A i \in DOMAIN a.file.lines : Columns \subseteq DOMAIN a.file.lines[i]
<1>1. a.file \in FilesOf[f] /\ f \in Families /\ a.year \in Nat
  BY DEF IsArtifact
<1>2. /\ a.family = f /\ a.label = LabelOf[f]
      /\ \E where \in Places : a.uri = <<where, f, a.year>>
  BY DEF IsArtifact
<1>3. /\ a.file.lines \in Seq(Range(a.file.lines))
      /\ \A line \in Range(a.file.lines) : Columns \subseteq DOMAIN line
  BY <1>1, FilesAssumption
<1>4. f # Absent /\ a.year # Absent
  BY <1>1, AbsentAssumption
<1> QED
  BY <1>1, <1>2, <1>3, <1>4 DEF Range

\* A parser succeeds when no issue is an error, and with some record.
LEMMA OutcomeFacts ==
  ASSUME NEW issues, NEW found, NEW partial, Outcome(issues, found, partial).status = "success"
  PROVE  /\ \A issue \in issues : issue.code = "row_skipped"
         /\ found # <<>> /\ Outcome(issues, found, partial).records = found
BY DEF Outcome, Result

\* A line whose only issues are skipped rows has none of its own.
LEMMA NoRowIssue ==
  ASSUME NEW line, NEW required, NEW number, NEW issues,
         issues = Missing(line, required) \cup Unreadable(line, number),
         \A issue \in issues : issue.code = "row_skipped"
  PROVE  issues = {}
BY DEF Missing, Unreadable, Issue

\* No column that is required is empty, and the year and the value are read.
LEMMA NoIssueFacts ==
  ASSUME NEW line, NEW required, NEW number,
         Missing(line, required) \cup Unreadable(line, number) = {}
  PROVE  /\ \A c \in required : line[c] # Absent
         /\ line.year \notin {Absent, 0} /\ number # Absent
<1>1. \A c \in required : line[c] # Absent
  BY DEF Missing
<1>2. /\ Issue("invalid_source_year", "year") \notin Unreadable(line, number)
      /\ Issue("invalid_factor_value", "value") \notin Unreadable(line, number)
  OBVIOUS
<1>3. line.year \notin {Absent, 0} /\ number # Absent
  BY <1>2 DEF Unreadable, Issue
<1> QED
  BY <1>1, <1>3

\* A number that passes the check of its form is the number that was written.
LEMMA UnlessFacts ==
  ASSUME NEW forms, NEW value, Unless(forms, value) # Absent
  PROVE  value # Absent /\ Unless(forms, value).number = value.number
BY DEF Unless, Number

\* A row of a line of the parsers' own CSV format.
LEMMA CsvRowFacts ==
  ASSUME NEW f \in PerFactor, NEW a, IsArtifact(a, f), NEW i \in DOMAIN a.file.lines,
         IsFactor(a.file.lines[i]),
         NEW required, GhgRequired \subseteq required, NEW forms,
         Missing(a.file.lines[i], required)
           \cup Unreadable(a.file.lines[i], Unless(forms, a.file.lines[i].value)) = {},
         NEW qualifiers, NEW provenance
  PROVE  IsRow(a, i, CsvRow(a, [number |-> i + 1, line |-> a.file.lines[i]],
                            Unless(forms, a.file.lines[i].value), qualifiers, provenance))
<1> DEFINE line == a.file.lines[i]
           value == Unless(forms, line.value)
           r == CsvRow(a, [number |-> i + 1, line |-> line], value, qualifiers, provenance)
<1>1. /\ \A c \in required : line[c] # Absent
      /\ line.year \notin {Absent, 0} /\ value # Absent
  BY NoIssueFacts
<1>2. line.unit # Absent /\ line.version # Absent
  BY <1>1 DEF GhgRequired
<1>3. line.value # Absent /\ value.number = line.value.number
  BY <1>1, UnlessFacts
<1>4. a.family = f /\ f # Absent
  BY ArtifactFacts
<1> HIDE DEF value
<1>5. /\ r.family = a.family /\ r.uri = a.uri /\ r.sum = a.file /\ r.year = line.year
      /\ r.version = line.version /\ r.versionYear = line.version.year
      /\ r.factor = line.factor /\ r.unit = line.unit /\ r.value = value
  BY DEF CsvRow
<1>6. Counts(a, line) /\ Unit(line) = line.unit
  BY <1>2, <1>4 DEF Counts, Unit, Default
<1> HIDE DEF line, r
<1>7. IsOfLine(a, line, r)
  BY <1>4, <1>5 DEF IsOfLine
<1>8. IsRow(a, i, r)
  BY <1>1, <1>2, <1>3, <1>4, <1>5, <1>6, <1>7 DEF IsRow, line
<1> QED
  BY <1>8 DEF r, line, value
\* The rows of a parsed file of the GHG Protocol are rows of its lines.
LEMMA GhgRows ==
  ASSUME NEW a, IsArtifact(a, "ghg_protocol"), ~GhgBatch(a).raised
  PROVE  AreRows(a, GhgBatch(a).rows)
<1> DEFINE lines == a.file.lines
           found == FoldLeft(GhgRead, <<>>, Numbered(lines))
           issues == UNION {LineIssues(lines[i], GhgRowIssues(lines[i])) : i \in DOMAIN lines}
           rows == [k \in DOMAIN found |-> GhgRow(a, found[k])]
<1>0. "ghg_protocol" \in PerFactor
  BY ParsersAssumption
<1>1. a.family = "ghg_protocol" /\ lines \in Seq(Range(lines))
  BY ArtifactFacts
<1>2. /\ GhgParse(a.file).status = "success"
      /\ GhgBatch(a).rows = [k \in DOMAIN GhgParse(a.file).records |->
                               GhgRow(a, GhgParse(a.file).records[k])]
  BY DEF GhgBatch, Raised, Batch
<1>3. GhgParse(a.file) = Outcome(issues, found, <<>>)
  BY <1>2 DEF GhgParse, GhgCsv, GhgLines, Refused, Result
<1> HIDE DEF issues, found
<1>4. /\ \A issue \in issues : issue.code = "row_skipped"
      /\ GhgParse(a.file).records = found
  BY <1>2, <1>3, OutcomeFacts
<1>5. GhgBatch(a).rows = rows
  BY <1>2, <1>4
<1>6. found \in Seq(Range(found)) /\ Range(found) = Read(lines, GhgReadable)
  BY <1>1, GhgRecords DEF found
<1>7. ASSUME NEW i \in DOMAIN lines, IsFactor(lines[i]) PROVE GhgRowIssues(lines[i]) = {}
  <2>1. LineIssues(lines[i], GhgRowIssues(lines[i])) = GhgRowIssues(lines[i])
    BY <1>7 DEF LineIssues, IsFactor
  <2>2. \A issue \in GhgRowIssues(lines[i]) : issue.code = "row_skipped"
    BY <1>4, <2>1 DEF issues
  <2> QED
    BY <2>2, NoRowIssue DEF GhgRowIssues
<1> DEFINE rec(i) == [number |-> i + 1, line |-> lines[i]]
<1>8. ASSUME NEW i \in DOMAIN lines, IsFactor(lines[i]) PROVE IsRow(a, i, GhgRow(a, rec(i)))
  <2>1. GhgRowIssues(lines[i]) = {}
    BY <1>7, <1>8
  <2>2. rec(i).line = lines[i]
    OBVIOUS
  <2> QED
    BY <1>0, <1>8, <2>1, <2>2, CsvRowFacts DEF GhgRow, GhgRowIssues, GhgNumber
<1>9. rows \in Seq(Range(rows)) /\ Range(rows) = {GhgRow(a, x) : x \in Range(found)}
  <2>1. /\ Len(found) \in Nat /\ DOMAIN found = 1..Len(found)
    BY <1>6
  <2> QED
    BY <2>1 DEF Range
<1> HIDE DEF rows
<1>10. ASSUME NEW r \in Range(rows) PROVE \E i \in DOMAIN lines : IsRow(a, i, r)
  <2>1. PICK x \in Range(found) : r = GhgRow(a, x)
    BY <1>9
  <2>2. PICK i \in DOMAIN lines : GhgReadable(lines[i]) /\ x = rec(i)
    BY <1>6 DEF Read
  <2> QED
    BY <1>8, <2>1, <2>2 DEF GhgReadable
<1>11. ASSUME NEW i \in DOMAIN lines, Counts(a, lines[i])
       PROVE  \E r \in Range(rows) : IsRow(a, i, r)
  <2>1. IsFactor(lines[i])
    BY <1>0, <1>1, <1>11 DEF Counts
  <2>2. GhgReadable(lines[i])
    BY <1>7, <2>1 DEF GhgReadable
  <2>3. rec(i) \in Range(found)
    BY <1>6, <2>2 DEF Read
  <2> QED
    BY <1>8, <1>9, <2>1, <2>3
<1> QED
  BY <1>5, <1>9, <1>10, <1>11 DEF AreRows

\* The same of a file of the emission factor database.
LEMMA IpccRows ==
  ASSUME NEW a, IsArtifact(a, "ipcc_efdb"), ~IpccBatch(a).raised
  PROVE  AreRows(a, IpccBatch(a).rows)
<1> DEFINE lines == a.file.lines
           found == FoldLeft(IpccRead, <<>>, Numbered(lines))
           issues == UNION {LineIssues(lines[i], IpccRowIssues(lines[i])) : i \in DOMAIN lines}
           rows == [k \in DOMAIN found |-> IpccRow(a, found[k])]
<1>0. "ipcc_efdb" \in PerFactor
  BY ParsersAssumption
<1>1. a.family = "ipcc_efdb" /\ lines \in Seq(Range(lines))
  BY ArtifactFacts
<1>2. /\ IpccParse(a.file).status = "success"
      /\ IpccBatch(a).rows = [k \in DOMAIN IpccParse(a.file).records |->
                               IpccRow(a, IpccParse(a.file).records[k])]
  BY DEF IpccBatch, Raised, Batch
<1>3. IpccParse(a.file) = Outcome(issues, found, found)
  BY <1>2 DEF IpccParse, IpccCsv, IpccLines, Refused, Result
<1> HIDE DEF issues, found
<1>4. /\ \A issue \in issues : issue.code = "row_skipped"
      /\ IpccParse(a.file).records = found
  BY <1>2, <1>3, OutcomeFacts
<1>5. IpccBatch(a).rows = rows
  BY <1>2, <1>4
<1>6. found \in Seq(Range(found)) /\ Range(found) = Read(lines, IpccReadable)
  BY <1>1, IpccRecords DEF found
<1>7. ASSUME NEW i \in DOMAIN lines, IsFactor(lines[i]) PROVE IpccRowIssues(lines[i]) = {}
  <2>1. LineIssues(lines[i], IpccRowIssues(lines[i])) = IpccRowIssues(lines[i])
    BY <1>7 DEF LineIssues, IsFactor
  <2>2. \A issue \in IpccRowIssues(lines[i]) : issue.code = "row_skipped"
    BY <1>4, <2>1 DEF issues
  <2> QED
    BY <2>2, NoRowIssue DEF IpccRowIssues
<1> DEFINE rec(i) == [number |-> i + 1, line |-> lines[i]]
<1>8. ASSUME NEW i \in DOMAIN lines, IsFactor(lines[i]) PROVE IsRow(a, i, IpccRow(a, rec(i)))
  <2>1. IpccRowIssues(lines[i]) = {}
    BY <1>7, <1>8
  <2>2. rec(i).line = lines[i]
    OBVIOUS
  <2>3. GhgRequired \subseteq IpccRequired
    BY DEF IpccRequired
  <2> QED
    BY <1>0, <1>8, <2>1, <2>2, <2>3, CsvRowFacts DEF IpccRow, IpccRowIssues, IpccNumber
<1>9. rows \in Seq(Range(rows)) /\ Range(rows) = {IpccRow(a, x) : x \in Range(found)}
  <2>1. /\ Len(found) \in Nat /\ DOMAIN found = 1..Len(found)
    BY <1>6
  <2> QED
    BY <2>1 DEF Range
<1> HIDE DEF rows
<1>10. ASSUME NEW r \in Range(rows) PROVE \E i \in DOMAIN lines : IsRow(a, i, r)
  <2>1. PICK x \in Range(found) : r = IpccRow(a, x)
    BY <1>9
  <2>2. PICK i \in DOMAIN lines : IpccReadable(lines[i]) /\ x = rec(i)
    BY <1>6 DEF Read
  <2> QED
    BY <1>8, <2>1, <2>2 DEF IpccReadable
<1>11. ASSUME NEW i \in DOMAIN lines, Counts(a, lines[i])
       PROVE  \E r \in Range(rows) : IsRow(a, i, r)
  <2>1. IsFactor(lines[i])
    BY <1>0, <1>1, <1>11 DEF Counts
  <2>2. IpccReadable(lines[i])
    BY <1>7, <2>1 DEF IpccReadable
  <2>3. rec(i) \in Range(found)
    BY <1>6, <2>2 DEF Read
  <2> QED
    BY <1>8, <1>9, <2>1, <2>3
<1> QED
  BY <1>5, <1>9, <1>10, <1>11 DEF AreRows
\* The same of the workbook, under the units the normalizer knows.
LEMMA DefraRows ==
  ASSUME NEW a, IsArtifact(a, "defra_desnz"), ~DefraBatch(a).raised
  PROVE  AreRows(a, DefraBatch(a).rows)
<1> DEFINE lines == a.file.lines
           filled == FoldLeft(DefraFilled, <<>>, lines)
           known == DefraLines(a.file)
           rows == [k \in DOMAIN known |-> DefraRow(a, known[k])]
<1>0. "defra_desnz" \notin PerFactor
  BY ParsersAssumption
<1>1. /\ a.family = "defra_desnz" /\ a.family # Absent /\ a.year \in Nat /\ a.year # Absent
      /\ lines \in Seq(Range(lines))
      /\ \A i \in DOMAIN lines : Columns \subseteq DOMAIN lines[i]
  BY ArtifactFacts
<1>2. /\ \A k \in DOMAIN known : DefraNumber(known[k].value) # Absent
      /\ DefraBatch(a).rows = rows
  BY DEF DefraBatch, Raised, Batch
<1>3. /\ filled \in Seq(Range(filled))
      /\ Range(filled) = {lines[i] : i \in {j \in DOMAIN lines : DefraReadable(lines[j])}}
  BY <1>1, DefraFilledLines
<1> HIDE DEF filled
\* Without the columns that it knows the reader finds no value, and a line raises.
<1>4. known = filled
  <2>1. CASE a.file.header = "normalized"
    BY <2>1 DEF DefraLines, filled
  <2>2. CASE a.file.header # "normalized"
    <3>1. known = [k \in DOMAIN filled |-> [column \in DOMAIN filled[k] |->
                    IF column \in Columns THEN Absent ELSE filled[k][column]]]
      BY <2>2 DEF DefraLines, filled
    <3>2. ASSUME NEW k \in DOMAIN filled PROVE FALSE
      <4>1. Columns \subseteq DOMAIN filled[k]
        BY <1>1, <1>3, <3>2 DEF Range
      <4>2. "value" \in Columns
        BY DEF Columns
      <4>3. known[k].value = Absent /\ k \in DOMAIN known
        BY <3>1, <4>1, <4>2
      <4> QED
        BY <1>2, <4>3 DEF DefraNumber, Unless
    <3>3. filled = <<>> /\ DOMAIN known = {}
      <4>1. DOMAIN filled = {}
        BY <3>2
      <4> QED
        BY <1>3, <3>1, <4>1
    <3>4. known = <<>>
      BY <3>1, <3>3
    <3> QED
      BY <3>3, <3>4
  <2> QED
    BY <2>1, <2>2
<1> HIDE DEF known
<1>5. ASSUME NEW i \in DOMAIN lines, DefraReadable(lines[i])
      PROVE  IsRow(a, i, DefraRow(a, lines[i])) /\ Counts(a, lines[i])
  <2> DEFINE line == lines[i]
             version == DefraVersion(a)
             r == DefraRow(a, line)
  <2>1. PICK k \in DOMAIN filled : line = filled[k]
    BY <1>3, <1>5 DEF Range
  <2>2. DefraNumber(line.value) # Absent
    BY <1>2, <1>4, <2>1
  <2>3. line.value # Absent /\ DefraNumber(line.value).number = line.value.number
    BY <2>2, UnlessFacts DEF DefraNumber
  <2>4. Counts(a, line)
    <3>1. "value" \in Columns
      BY DEF Columns
    <3> QED
      BY <1>0, <1>1, <2>3, <3>1 DEF Counts, IsBlank
  <2>5. version # Absent
    <3>1. [name |-> "conversion-factors", year |-> a.year]
            \in [name : {"conversion-factors"}, year : Nat]
      BY <1>1
    <3>2. [name |-> "conversion-factors", year |-> a.year] # Absent
      BY <3>1, AbsentAssumption
    <3> QED
      BY <3>2 DEF DefraVersion
  <2>6. /\ r.family = a.family /\ r.uri = a.uri /\ r.sum = a.file /\ r.year = a.year
        /\ r.version = version /\ r.versionYear = version.year
        /\ r.factor = DefraFactor(a, line) /\ r.unit = DefraUnit(line)
        /\ r.value = DefraNumber(line.value)
    BY DEF DefraRow
  <2>7. DefraUnit(line) = Unit(line)
    BY DEF DefraUnit, Unit
  <2> HIDE DEF line, r
  <2>8. IsOfLine(a, line, r)
    BY <1>0, <1>1, <2>6 DEF IsOfLine, version
  <2> HIDE DEF version
  <2>9. IsRow(a, i, r)
    BY <1>1, <2>2, <2>3, <2>4, <2>5, <2>6, <2>7, <2>8 DEF IsRow, line
  <2> QED
    BY <2>4, <2>9 DEF line, r
<1>6. rows \in Seq(Range(rows)) /\ Range(rows) = {DefraRow(a, x) : x \in Range(filled)}
  <2>1. Len(filled) \in Nat /\ DOMAIN filled = 1..Len(filled)
    BY <1>3
  <2> QED
    BY <1>4, <2>1 DEF Range
<1> HIDE DEF rows
<1>7. ASSUME NEW r \in Range(rows) PROVE \E i \in DOMAIN lines : IsRow(a, i, r)
  BY <1>3, <1>5, <1>6
<1>8. ASSUME NEW i \in DOMAIN lines, Counts(a, lines[i])
      PROVE  \E r \in Range(rows) : IsRow(a, i, r)
  <2>1. DefraReadable(lines[i])
    BY <1>0, <1>1, <1>8 DEF Counts, DefraReadable
  <2> QED
    BY <1>3, <1>5, <1>6, <2>1
<1> QED
  BY <1>2, <1>6, <1>7, <1>8 DEF AreRows

\* Whatever the family is, the rows of an artifact that is parsed are those of the lines
\* that count.
LEMMA ParsedRows ==
  ASSUME NEW f, NEW a, IsArtifact(a, f), ~ParseArtifact(a).raised
  PROVE  AreRows(a, ParseArtifact(a).rows)
<1>1. a.family = f /\ f \in {"ghg_protocol", "ipcc_efdb", "defra_desnz"}
  BY ArtifactFacts, ParsersAssumption
<1>2. CASE f = "ghg_protocol"
  <2>1. ParseArtifact(a) = GhgBatch(a)
    BY <1>1, <1>2 DEF ParseArtifact
  <2> QED
    BY <1>2, <2>1, GhgRows
<1>3. CASE f = "ipcc_efdb"
  <2>1. ParseArtifact(a) = IpccBatch(a)
    BY <1>1, <1>3 DEF ParseArtifact
  <2> QED
    BY <1>3, <2>1, IpccRows
<1>4. CASE f = "defra_desnz"
  <2>1. ParseArtifact(a) = DefraBatch(a)
    BY <1>1, <1>4 DEF ParseArtifact
  <2> QED
    BY <1>4, <2>1, DefraRows
<1> QED
  BY <1>1, <1>2, <1>3, <1>4
-----------------------------------------------------------------------------
(* What validation asks of a batch.                                         *)

\* Every row has a factor, a value and a unit, and no two share their identity.
Valid(rows) ==
  /\ \A r \in rows : r.factor # Absent /\ r.value # Absent /\ r.unit # Absent
  /\ \A r, s \in rows : Quality!SameIdentity(r, s) => r = s

\* Validated rows have their required fields and differ in their identity.
LEMMA ValidatedRows ==
  ASSUME NEW rows, rows \in Seq(Range(rows)), Quality!Validation(rows).validated
  PROVE  Valid(Range(rows))
<1>1. DOMAIN rows = 1..Len(rows) /\ Len(rows) \in Nat
  OBVIOUS
<1>2. \A d \in Quality!Diagnostics(rows) :
        d.code # "missing_required_field" /\ d.code # "duplicate_identity"
  BY DEF Quality!Validation, Quality!Blocking
<1>3. ASSUME NEW i \in DOMAIN rows, NEW g \in {"factor", "value", "unit"}
      PROVE  rows[i][g] # Absent
  <2>1. \A d \in Quality!MissingFields(rows[i], i) : d.code # "missing_required_field"
    BY <1>2 DEF Quality!Diagnostics
  <2>2. SUFFICES ASSUME rows[i][g] = Absent PROVE FALSE
    OBVIOUS
  <2>3. g \in Quality!RequiredFields
    BY DEF Quality!RequiredFields
  <2>4. Quality!Diagnostic("missing_required_field", g, i) \in Quality!MissingFields(rows[i], i)
    BY <2>2, <2>3 DEF Quality!MissingFields
  <2> QED
    BY <2>1, <2>4 DEF Quality!Diagnostic
<1>4. ASSUME NEW i \in DOMAIN rows, NEW j \in 1..(i - 1) PROVE ~Quality!SameIdentity(rows[j], rows[i])
  <2>1. SUFFICES ASSUME Quality!SameIdentity(rows[j], rows[i]) PROVE FALSE
    OBVIOUS
  <2>2. Quality!Diagnostic("duplicate_identity", "factor", i) \in Quality!DuplicateIdentity(rows, i)
    BY <2>1 DEF Quality!DuplicateIdentity
  <2>3. Quality!Diagnostic("duplicate_identity", "factor", i) \in Quality!Diagnostics(rows)
    BY <2>2 DEF Quality!Diagnostics
  <2> QED
    BY <1>2, <2>3 DEF Quality!Diagnostic
<1>5. \A r, s : Quality!SameIdentity(r, s) => Quality!SameIdentity(s, r)
  BY DEF Quality!SameIdentity
<1>6. ASSUME NEW i \in DOMAIN rows, NEW j \in DOMAIN rows, Quality!SameIdentity(rows[i], rows[j])
      PROVE  i = j
  <2>1. i \in Nat /\ j \in Nat /\ i >= 1 /\ j >= 1
    BY <1>1
  <2>2. ~(j \in 1..(i - 1)) /\ ~(i \in 1..(j - 1))
    BY <1>4, <1>5, <1>6
  <2> QED
    BY <2>1, <2>2
<1>7. \A r \in Range(rows) : r.factor # Absent /\ r.value # Absent /\ r.unit # Absent
  BY <1>3 DEF Range
<1>8. \A r, s \in Range(rows) : Quality!SameIdentity(r, s) => r = s
  BY <1>6 DEF Range
<1> QED
  BY <1>7, <1>8 DEF Valid

\* Rows of one artifact that are alike in what is stored under one key are one row.
LEMMA OneRow ==
  ASSUME NEW a, NEW rows, AreRows(a, rows), Valid(Range(rows)),
         NEW r \in Range(rows), NEW s \in Range(rows),
         r.year = s.year, r.version = s.version, r.factor = s.factor, r.unit = s.unit
  PROVE  r = s
<1>1. /\ r.family = a.family /\ s.family = a.family /\ a.family # Absent
      /\ r.year # Absent /\ r.version # Absent /\ r.factor # Absent /\ r.unit # Absent
  BY DEF AreRows, IsRow, Valid
<1>2. \A g \in Quality!IdentityFields : r[g] = s[g] /\ r[g] # Absent
  BY <1>1 DEF Quality!IdentityFields
<1>3. Quality!SameIdentity(r, s)
  BY <1>2 DEF Quality!SameIdentity, Quality!HasAll, Quality!Identity
<1> QED
  BY <1>3 DEF Valid

-----------------------------------------------------------------------------
(* Identities.                                                              *)

MasterId(r) == <<r.family, ExternalKey(r)>>

\* The document of an artifact.
DocumentRow(a) ==
  [id |-> <<a.family, DocumentId(a)>>, family |-> a.family, uri |-> a.uri, sum |-> a.file]

Master(a, r) == MasterOf(r, DocumentId(a))
Detail(a, r) == DetailOf(r, DocumentId(a))

\* What the master and the detail of a row hold of it.
LEMMA RecordFacts ==
  ASSUME NEW a, NEW i, NEW r, IsRow(a, i, r)
  PROVE  /\ Master(a, r).id = MasterId(r) /\ Master(a, r).family = a.family
         /\ Master(a, r).year = MasterYear(r) /\ Master(a, r).version = r.version
         /\ Master(a, r).key = ExternalKey(r) /\ Master(a, r).document = DocumentId(a)
         /\ Master(a, r).uri = a.uri /\ Master(a, r).sum = a.file
         /\ DocumentOf(Master(a, r)) = DocumentRow(a)
         /\ Detail(a, r).id = DetailId(r, MasterId(r)) /\ Detail(a, r).master = MasterId(r)
         /\ Detail(a, r).key = DetailKey(r) /\ Detail(a, r).value = r.value
         /\ Detail(a, r).number = r.number
         /\ MasterYear(r) # Absent
BY DEF Master, Detail, MasterOf, DetailOf, DocumentOf, DocumentRow, MasterId, IsRow, MasterYear

\* Rows of one master share its year and its version, and so its natural key.
LEMMA SameMasterId ==
  ASSUME NEW f, NEW a, NEW b, NEW i, NEW j, NEW r, NEW s, a.family = f, b.family = f,
         IsRow(a, i, r), IsRow(b, j, s), MasterId(r) = MasterId(s)
  PROVE  /\ SameMaster(Master(a, r), Master(b, s))
         /\ r.version = s.version /\ MasterYear(r) = MasterYear(s)
         /\ f \in PerFactor => r.year = s.year /\ r.factor = s.factor
         /\ f \notin PerFactor => a.uri = b.uri /\ a.file = b.file
<1>1. /\ r.family = f /\ s.family = f /\ r.uri = a.uri /\ s.uri = b.uri
      /\ r.sum = a.file /\ s.sum = b.file
      /\ r.versionYear = r.version.year /\ s.versionYear = s.version.year
  BY DEF IsRow
<1>2. ExternalKey(r) = ExternalKey(s)
  BY DEF MasterId
<1>3. CASE f \in PerFactor
  <2>1. <<r.year, r.version, r.factor>> = <<s.year, s.version, s.factor>>
    BY <1>1, <1>2, <1>3 DEF ExternalKey
  <2>2. r.year = s.year /\ r.version = s.version /\ r.factor = s.factor
    BY <2>1
  <2>3. MasterYear(r) = MasterYear(s)
    BY <1>1, <2>2 DEF MasterYear
  <2> QED
    BY <1>1, <1>2, <1>3, <2>2, <2>3, RecordFacts DEF SameMaster
<1>4. CASE f \notin PerFactor
  <2>1. <<MasterYear(r), r.version, r.uri, r.sum>> = <<MasterYear(s), s.version, s.uri, s.sum>>
    BY <1>1, <1>2, <1>4 DEF ExternalKey
  <2>2. MasterYear(r) = MasterYear(s) /\ r.version = s.version /\ r.uri = s.uri /\ r.sum = s.sum
    BY <2>1
  <2> QED
    BY <1>1, <1>2, <1>4, <2>2, RecordFacts DEF SameMaster
<1> QED
  BY <1>3, <1>4

\* The identity of a detail: its master for a family of factors, and its key elsewhere.
LEMMA SameDetailId ==
  ASSUME NEW f, NEW a, NEW b, NEW i, NEW j, NEW r, NEW s, a.family = f, b.family = f,
         IsRow(a, i, r), IsRow(b, j, s)
  PROVE  /\ f \in PerFactor => (Detail(a, r).id = Detail(b, s).id <=> MasterId(r) = MasterId(s))
         /\ f \notin PerFactor => (Detail(a, r).id = Detail(b, s).id <=>
                                     SameDetail(Detail(a, r), Detail(b, s)))
<1>1. r.family = f /\ s.family = f
  BY DEF IsRow
<1>2. /\ Detail(a, r).id = DetailId(r, MasterId(r)) /\ Detail(b, s).id = DetailId(s, MasterId(s))
      /\ Detail(a, r).master = MasterId(r) /\ Detail(b, s).master = MasterId(s)
      /\ Detail(a, r).key = DetailKey(r) /\ Detail(b, s).key = DetailKey(s)
  BY RecordFacts
<1>3. CASE f \in PerFactor
  <2>1. /\ DetailId(r, MasterId(r)) = <<f, r.year, r.version, r.factor>>
        /\ DetailId(s, MasterId(s)) = <<f, s.year, s.version, s.factor>>
    BY <1>1, <1>3 DEF DetailId
  <2>2. /\ MasterId(r) = <<f, <<r.year, r.version, r.factor>>>>
        /\ MasterId(s) = <<f, <<s.year, s.version, s.factor>>>>
    BY <1>1, <1>3 DEF MasterId, ExternalKey
  <2> QED
    BY <1>2, <1>3, <2>1, <2>2
<1>4. CASE f \notin PerFactor
  <2>1. /\ DetailId(r, MasterId(r)) = <<f, MasterId(r), DetailKey(r)>>
        /\ DetailId(s, MasterId(s)) = <<f, MasterId(s), DetailKey(s)>>
    BY <1>1, <1>4 DEF DetailId
  <2> QED
    BY <1>2, <1>4, <2>1 DEF SameDetail
<1> QED
  BY <1>3, <1>4
-----------------------------------------------------------------------------
(* The tables of a source family.                                           *)

\* Artifacts of a family that were parsed.
Arts(f, done) == \A a \in done : IsArtifact(a, f) /\ ~ParseArtifact(a).raised

\* Whatever is stored is of a row of an artifact that was committed; a detail is under a
\* master of its artifact's file, and the families of factors have no master without one.
StoreInv(f, st, done) ==
  /\ \A e \in st.documents : \E a \in done : e = DocumentRow(a)
  /\ \A m \in st.masters : \E a \in done : \E r \in RowsOf(a) : m = Master(a, r)
  /\ \A d \in st.details : \E a \in done : \E r \in RowsOf(a) :
       d = Detail(a, r) /\ \E m \in st.masters : m.id = d.master /\ m.sum = a.file
  /\ f \in PerFactor => \A m \in st.masters : \E d \in st.details : d.master = m.id
  /\ KeysHold(st)

\* The rows of committed artifacts have their place.
RowsStored(st, done) ==
  \A a \in done : \A r \in RowsOf(a) :
    \E d \in st.details, m \in st.masters :
      d.master = MasterId(r) /\ d.key = DetailKey(r) /\ m.id = MasterId(r)

BatchCommand(a) == Command(RowsOf(a), DocumentId(a))

\* The rows of a parsed artifact are rows of its lines.
LEMMA RowsFacts ==
  ASSUME NEW f, NEW a, IsArtifact(a, f), ~ParseArtifact(a).raised
  PROVE  /\ a.family = f
         /\ \A r \in RowsOf(a) : \E i : IsRow(a, i, r)
         /\ AreRows(a, ParseArtifact(a).rows)
<1>1. AreRows(a, ParseArtifact(a).rows)
  BY ParsedRows
<1> QED
  BY <1>1, ArtifactFacts DEF AreRows, RowsOf

\* A command without issues has a master and a detail of every row.
LEMMA CommandFacts ==
  ASSUME NEW a, BatchCommand(a).issues = {}
  PROVE  /\ RowsOf(a) # {}
         /\ BatchCommand(a).masters = {Master(a, r) : r \in RowsOf(a)}
         /\ BatchCommand(a).details = {Detail(a, r) : r \in RowsOf(a)}
<1> DEFINE rows == RowsOf(a)
<1>1. CommandIssues(rows, DocumentId(a)) = {}
  BY DEF BatchCommand, Command
<1> HIDE DEF rows
<1>2. rows # {}
  BY <1>1 DEF CommandIssues, NoRecords
<1>3. \A r \in rows : Complete(r)
  BY <1>1, <1>2 DEF CommandIssues
<1>4. {r \in rows : Complete(r)} = rows
  BY <1>3
<1>5. /\ Command(rows, DocumentId(a)).masters = {MasterOf(r, DocumentId(a)) : r \in rows}
      /\ Command(rows, DocumentId(a)).details = {DetailOf(r, DocumentId(a)) : r \in rows}
  BY <1>4 DEF Command
<1> QED
  BY <1>2, <1>5 DEF BatchCommand, Master, Detail, rows

\* A record of a command has its natural key in the tables after the insert, in a record of
\* the same identity.
LEMMA InsertedMaster ==
  ASSUME NEW f, NEW st, NEW done, NEW a, Arts(f, done), StoreInv(f, st, done),
         IsArtifact(a, f), ~ParseArtifact(a).raised, BatchCommand(a).issues = {},
         NEW r \in RowsOf(a)
  PROVE  \/ Master(a, r) \in After(st, BatchCommand(a)).masters
         \/ \E n \in st.masters : SameMaster(Master(a, r), n) /\ n.id = MasterId(r)
<1> DEFINE m == Master(a, r)
<1>1. m \in BatchCommand(a).masters
  BY CommandFacts
<1>2. PICK i : IsRow(a, i, r)
  BY RowsFacts
<1>3. m.id = MasterId(r) /\ m.family = a.family /\ m.key = ExternalKey(r) /\ r.family = a.family
  BY <1>2, RecordFacts DEF IsRow
<1> HIDE DEF m
<1>4. CASE \A n \in st.masters : ~SameMaster(m, n)
  BY <1>1, <1>4 DEF After, NewMasters, m
<1>5. ASSUME NEW n \in st.masters, SameMaster(m, n) PROVE n.id = MasterId(r)
  <2>0. PICK b \in done : \E s \in RowsOf(b) : n = Master(b, s)
    BY DEF StoreInv
  <2>1. PICK s \in RowsOf(b) : n = Master(b, s)
    BY <2>0
  <2>2. PICK j : IsRow(b, j, s)
    BY RowsFacts DEF Arts
  <2>3. n.id = MasterId(s) /\ n.family = b.family /\ n.key = ExternalKey(s) /\ s.family = b.family
    BY <2>1, <2>2, RecordFacts DEF IsRow
  <2> QED
    BY <1>3, <1>5, <2>3 DEF SameMaster, MasterId
<1> QED
  BY <1>4, <1>5 DEF m
\* After an insert everything stored is of a committed artifact, the one that was inserted
\* among them, and its rows have their place.
LEMMA InsertKeeps ==
  ASSUME NEW f, NEW st, NEW done, NEW a, Arts(f, done), StoreInv(f, st, done),
         IsArtifact(a, f), ~ParseArtifact(a).raised, BatchCommand(a).issues = {},
         Accepts(st, BatchCommand(a))
  PROVE  /\ StoreInv(f, After(st, BatchCommand(a)), done \cup {a})
         /\ RowsStored(After(st, BatchCommand(a)), {a})
         /\ st.masters \subseteq After(st, BatchCommand(a)).masters
         /\ st.details \subseteq After(st, BatchCommand(a)).details
<1> DEFINE c == BatchCommand(a)
           new == After(st, c)
<1>1. KeysHold(new)
  BY DEF Accepts
<1>2. /\ c.masters = {Master(a, r) : r \in RowsOf(a)}
      /\ c.details = {Detail(a, r) : r \in RowsOf(a)}
  BY CommandFacts
<1>3. /\ a.family = f
      /\ \A r \in RowsOf(a) : \E i : IsRow(a, i, r)
  BY RowsFacts
<1> HIDE DEF c
<1>4. /\ new.documents = st.documents \cup NewDocuments(st, c.masters)
      /\ new.masters = st.masters \cup NewMasters(st, c.masters)
      /\ new.details = st.details \cup NewDetails(st, c.details)
  BY DEF After
<1>5. \A r \in RowsOf(a) : \/ Master(a, r) \in new.masters
                           \/ \E n \in st.masters : SameMaster(Master(a, r), n) /\ n.id = MasterId(r)
  BY InsertedMaster DEF c
<1> HIDE DEF new
<1>6. ASSUME NEW e \in new.documents PROVE \E b \in done \cup {a} : e = DocumentRow(b)
  <2>1. CASE e \in st.documents
    BY <2>1 DEF StoreInv
  <2>2. CASE e \in NewDocuments(st, c.masters)
    <3>1. PICK r \in RowsOf(a) : e = DocumentOf(Master(a, r))
      BY <1>2, <2>2 DEF NewDocuments
    <3> QED
      BY <1>3, <3>1, RecordFacts
  <2> QED
    BY <1>4, <2>1, <2>2
<1>7. ASSUME NEW m \in new.masters
      PROVE  m \in st.masters \/ \E r \in RowsOf(a) : m = Master(a, r)
  BY <1>2, <1>4 DEF NewMasters
<1>8. ASSUME NEW d \in new.details
      PROVE  \/ d \in st.details
             \/ /\ \E r \in RowsOf(a) : d = Detail(a, r)
                /\ \A e \in st.details : ~SameDetail(d, e)
  BY <1>2, <1>4 DEF NewDetails
<1>9. ASSUME NEW r \in RowsOf(a)
      PROVE  \E m \in new.masters : m.id = MasterId(r)
  <2>1. Master(a, r).id = MasterId(r)
    BY <1>3, RecordFacts
  <2> QED
    BY <1>4, <1>5, <2>1
<1>10. ASSUME NEW r \in RowsOf(a)
       PROVE  \E d \in new.details : d.master = MasterId(r) /\ d.key = DetailKey(r)
  <2>1. Detail(a, r).master = MasterId(r) /\ Detail(a, r).key = DetailKey(r)
    BY <1>3, RecordFacts
  <2>2. CASE \A e \in st.details : ~SameDetail(Detail(a, r), e)
    <3>1. Detail(a, r) \in new.details
      BY <1>2, <1>4, <2>2 DEF NewDetails
    <3> QED
      BY <2>1, <3>1
  <2>3. ASSUME NEW e \in st.details, SameDetail(Detail(a, r), e)
        PROVE  e \in new.details /\ e.master = MasterId(r) /\ e.key = DetailKey(r)
    BY <1>4, <2>1, <2>3 DEF SameDetail
  <2> QED
    BY <2>2, <2>3
\* A detail that is new is not under a master that another file brought.
<1>11. ASSUME NEW r \in RowsOf(a), Detail(a, r) \in new.details,
              \A e \in st.details : ~SameDetail(Detail(a, r), e)
       PROVE  \E m \in new.masters : m.id = MasterId(r) /\ m.sum = a.file
  <2>1. PICK i : IsRow(a, i, r)
    BY <1>3
  <2>2. CASE Master(a, r) \in new.masters
    BY <2>1, <2>2, RecordFacts
  <2>3. ASSUME NEW n \in st.masters, n.id = MasterId(r)
        PROVE  \E m \in new.masters : m.id = MasterId(r) /\ m.sum = a.file
    <3>1. CASE f \in PerFactor
      <4>1. PICK e \in st.details : e.master = n.id
        BY <3>1 DEF StoreInv
      <4>2. PICK b \in done : \E s \in RowsOf(b) : e = Detail(b, s)
        BY DEF StoreInv
      <4>3. PICK s \in RowsOf(b) : e = Detail(b, s)
        BY <4>2
      <4>4. b.family = f /\ \E j : IsRow(b, j, s)
        BY RowsFacts DEF Arts
      <4>5. PICK j : IsRow(b, j, s)
        BY <4>4
      <4>6. MasterId(r) = MasterId(s)
        BY <2>3, <4>1, <4>3, <4>5, RecordFacts
      <4>7. Detail(a, r).id = e.id
        BY <1>3, <2>1, <3>1, <4>3, <4>4, <4>5, <4>6, SameDetailId
      <4>8. e \in new.details
        BY <1>4
      <4>9. Detail(a, r) = e
        BY <1>1, <1>11, <4>7, <4>8 DEF KeysHold, UniqueIds
      <4> QED
        BY <1>11, <4>9 DEF SameDetail
    <3>2. CASE f \notin PerFactor
      <4>1. PICK b \in done : \E s \in RowsOf(b) : n = Master(b, s)
        BY DEF StoreInv
      <4>2. PICK s \in RowsOf(b) : n = Master(b, s)
        BY <4>1
      <4>3. b.family = f /\ \E j : IsRow(b, j, s)
        BY RowsFacts DEF Arts
      <4>4. PICK j : IsRow(b, j, s)
        BY <4>3
      <4>5. n.id = MasterId(s) /\ n.sum = b.file
        BY <4>2, <4>4, RecordFacts
      <4>6. MasterId(r) = MasterId(s)
        BY <2>3, <4>5
      <4>7. a.file = b.file
        <5>1. a.family = f /\ b.family = f
          BY <1>3, <4>3
        <5>2. f \notin PerFactor => a.file = b.file
          BY <2>1, <4>4, <4>6, <5>1, SameMasterId
        <5> QED
          BY <3>2, <5>2
      <4> QED
        BY <1>4, <2>3, <4>5, <4>7
    <3> QED
      BY <3>1, <3>2
  <2> QED
    BY <1>5, <2>2, <2>3
<1>12. ASSUME NEW d \in new.details
       PROVE  \E b \in done \cup {a} : \E r \in RowsOf(b) :
                d = Detail(b, r) /\ \E m \in new.masters : m.id = d.master /\ m.sum = b.file
  <2>1. CASE d \in st.details
    <3>1. PICK b \in done : \E r \in RowsOf(b) :
            d = Detail(b, r) /\ \E m \in st.masters : m.id = d.master /\ m.sum = b.file
      BY <2>1 DEF StoreInv
    <3> QED
      BY <1>4, <3>1
  <2>2. CASE d \notin st.details
    <3>1. PICK r \in RowsOf(a) : d = Detail(a, r)
      BY <1>8, <2>2
    <3>2. \A e \in st.details : ~SameDetail(d, e)
      BY <1>8, <2>2
    <3>3. \E m \in new.masters : m.id = MasterId(r) /\ m.sum = a.file
      BY <1>11, <3>1, <3>2
    <3>4. d.master = MasterId(r)
      BY <1>3, <3>1, RecordFacts
    <3> QED
      BY <3>1, <3>3, <3>4
  <2> QED
    BY <2>1, <2>2
<1>13. ASSUME f \in PerFactor, NEW m \in new.masters PROVE \E d \in new.details : d.master = m.id
  <2>1. CASE m \in st.masters
    BY <1>4, <1>13, <2>1 DEF StoreInv
  <2>2. ASSUME NEW r \in RowsOf(a), m = Master(a, r) PROVE \E d \in new.details : d.master = m.id
    BY <1>3, <1>10, <2>2, RecordFacts
  <2> QED
    BY <1>7, <2>1, <2>2
<1>14. \A m \in new.masters : \E b \in done \cup {a} : \E r \in RowsOf(b) : m = Master(b, r)
  BY <1>7 DEF StoreInv
<1>15. StoreInv(f, new, done \cup {a})
  BY <1>1, <1>6, <1>12, <1>13, <1>14 DEF StoreInv
<1>16. RowsStored(new, {a})
  BY <1>9, <1>10 DEF RowsStored
<1> QED
  BY <1>4, <1>15, <1>16 DEF new, c
Clashes(a, done) ==
  \E r \in RowsOf(a) : \E s \in RowsOf(a) \cup UNION {RowsOf(b) : b \in done} : Clash(r, s)

\* Details of one identity have one key, unless their rows clash.
LEMMA NoClash ==
  ASSUME NEW f, NEW a, NEW b, NEW i, NEW j, NEW r, NEW s, a.family = f, b.family = f,
         IsRow(a, i, r), IsRow(b, j, s), ~Clash(r, s), Detail(a, r).id = Detail(b, s).id
  PROVE  SameDetail(Detail(a, r), Detail(b, s))
<1>1. CASE f \in PerFactor
  <2>1. MasterId(r) = MasterId(s)
    BY <1>1, SameDetailId
  <2>2. r.year = s.year /\ r.version = s.version /\ r.factor = s.factor
    BY <1>1, <2>1, SameMasterId
  <2>3. r.family = f
    BY DEF IsRow
  <2>4. DetailKey(r) = DetailKey(s)
    BY <1>1, <2>2, <2>3 DEF Clash
  <2> QED
    BY <2>1, <2>4, RecordFacts DEF SameDetail
<1>2. CASE f \notin PerFactor
  BY <1>2, SameDetailId
<1> QED
  BY <1>1, <1>2

\* One artifact has one row under the natural key of a detail.
LEMMA OneDetail ==
  ASSUME NEW f, NEW a, IsArtifact(a, f), ~ParseArtifact(a).raised, Valid(RowsOf(a)),
         NEW r \in RowsOf(a), NEW s \in RowsOf(a), SameDetail(Detail(a, r), Detail(a, s))
  PROVE  r = s
<1>1. PICK i : IsRow(a, i, r)
  BY RowsFacts
<1>2. PICK j : IsRow(a, j, s)
  BY RowsFacts
<1>3. a.family = f /\ AreRows(a, ParseArtifact(a).rows)
  BY RowsFacts
<1>4. MasterId(r) = MasterId(s) /\ DetailKey(r) = DetailKey(s)
  BY <1>1, <1>2, RecordFacts DEF SameDetail
<1>5. r.factor = s.factor /\ r.unit = s.unit
  BY <1>4 DEF DetailKey
<1>6. r.version = s.version /\ (f \in PerFactor => r.year = s.year)
  BY <1>1, <1>2, <1>3, <1>4, SameMasterId
<1>7. f \notin PerFactor => r.year = s.year
  BY <1>1, <1>2, <1>3 DEF IsRow, IsOfLine
<1> QED
  BY <1>3, <1>5, <1>6, <1>7, OneRow DEF RowsOf

\* One artifact has one record for a master.
LEMMA OneMaster ==
  ASSUME NEW f, NEW a, IsArtifact(a, f), ~ParseArtifact(a).raised,
         NEW r \in RowsOf(a), NEW s \in RowsOf(a), Master(a, r).id = Master(a, s).id
  PROVE  Master(a, r) = Master(a, s)
<1>1. PICK i : IsRow(a, i, r)
  BY RowsFacts
<1>2. PICK j : IsRow(a, j, s)
  BY RowsFacts
<1>3. a.family = f
  BY RowsFacts
<1>4. MasterId(r) = MasterId(s)
  BY <1>1, <1>2, RecordFacts
<1>5. r.version = s.version /\ MasterYear(r) = MasterYear(s)
  BY <1>1, <1>2, <1>3, <1>4, SameMasterId
<1>6. r.family = s.family /\ r.uri = s.uri /\ r.sum = s.sum /\ ExternalKey(r) = ExternalKey(s)
  BY <1>1, <1>2, <1>4 DEF IsRow, MasterId
<1> QED
  BY <1>5, <1>6 DEF Master, MasterOf

\* A batch that was validated has no issue, whatever the tables hold.
LEMMA ValidatedHasNoIssue ==
  ASSUME NEW f, NEW a, IsArtifact(a, f), ~ParseArtifact(a).raised, Valid(RowsOf(a)),
         RowsOf(a) # {}
  PROVE  BatchCommand(a).issues = {}
<1> DEFINE rows == RowsOf(a)
           masters == {MasterOf(r, DocumentId(a)) : r \in rows}
           details == {DetailOf(r, DocumentId(a)) : r \in rows}
<1>1. \A r \in rows : Complete(r)
  <2> TAKE r \in rows
  <2>1. PICK i : IsRow(a, i, r)
    BY RowsFacts
  <2> QED
    BY <2>1, RecordFacts DEF Complete, Valid
<1>2. \A m, n \in masters : m.id = n.id => m = n
  BY OneMaster DEF Master
<1>3. \A d, e \in details : d.master = e.master /\ d.key = e.key => d = e
  <2> SUFFICES ASSUME NEW r \in rows, NEW s \in rows,
                      SameDetail(DetailOf(r, DocumentId(a)), DetailOf(s, DocumentId(a)))
               PROVE  DetailOf(r, DocumentId(a)) = DetailOf(s, DocumentId(a))
    BY DEF SameDetail
  <2>1. r = s
    BY OneDetail DEF Detail
  <2> QED
    BY <2>1
<1>4. BatchCommand(a).issues = CommandIssues(rows, DocumentId(a))
  BY DEF BatchCommand, Command
<1> HIDE DEF rows, masters, details
<1>5. CommandIssues(rows, DocumentId(a)) =
        {issue \in {"missing_required_field", "master_conflict", "detail_conflict"} :
           CASE issue = "missing_required_field" -> \E r \in rows : ~Complete(r)
             [] issue = "master_conflict" -> \E m, n \in masters : m.id = n.id /\ m # n
             [] issue = "detail_conflict" ->
                  \E d, e \in details : d.master = e.master /\ d.key = e.key /\ d # e}
  BY DEF CommandIssues, masters, details, rows
<1>6. \A issue \in CommandIssues(rows, DocumentId(a)) : FALSE
  BY <1>1, <1>2, <1>3, <1>5
<1> QED
  BY <1>4, <1>6
MovedFrom(a, done) == \E b \in done : DocumentId(b) = DocumentId(a) /\ b.uri # a.uri

\* A batch that was validated violates no key, unless rows clash or its file was committed
\* under another path.
LEMMA ValidatedIsAccepted ==
  ASSUME NEW f, NEW st, NEW done, NEW a, Arts(f, done), StoreInv(f, st, done),
         IsArtifact(a, f), ~ParseArtifact(a).raised, Valid(RowsOf(a)), RowsOf(a) # {},
         ~Clashes(a, done), ~MovedFrom(a, done)
  PROVE  Accepts(st, BatchCommand(a))
<1> DEFINE c == BatchCommand(a)
           new == After(st, c)
<1>1. c.issues = {}
  BY ValidatedHasNoIssue
<1>2. /\ c.masters = {Master(a, r) : r \in RowsOf(a)}
      /\ c.details = {Detail(a, r) : r \in RowsOf(a)}
  BY <1>1, CommandFacts
<1>3. /\ a.family = f /\ \A r \in RowsOf(a) : \E i : IsRow(a, i, r)
      /\ \E where \in Places : a.uri = <<where, f, a.year>>
  BY RowsFacts, ArtifactFacts
<1>4. ASSUME NEW r \in RowsOf(a)
      PROVE  \/ Master(a, r) \in new.masters
             \/ \E n \in st.masters : SameMaster(Master(a, r), n) /\ n.id = MasterId(r)
  BY <1>1, InsertedMaster
<1> HIDE DEF c
<1>5. /\ new.documents = st.documents \cup NewDocuments(st, c.masters)
      /\ new.masters = st.masters \cup NewMasters(st, c.masters)
      /\ new.details = st.details \cup NewDetails(st, c.details)
  BY DEF After
<1> HIDE DEF new
<1>6. RepositoryIssues(c) = {}
  <2> SUFFICES ASSUME NEW r \in RowsOf(a) PROVE Master(a, r).id = Detail(a, r).master
    BY <1>2 DEF RepositoryIssues
  <2> QED
    BY <1>3, RecordFacts
<1>7. KeysHold(st)
  BY DEF StoreInv
<1>8. UniqueIds(new.documents)
  <2>1. ASSUME NEW d \in NewDocuments(st, c.masters) PROVE d = DocumentRow(a)
    <3>1. PICK r \in RowsOf(a) : d = DocumentOf(Master(a, r))
      BY <1>2 DEF NewDocuments
    <3> QED
      BY <1>3, <3>1, RecordFacts
  <2>2. ASSUME NEW e \in st.documents, e.id = DocumentRow(a).id PROVE e = DocumentRow(a)
    <3>1. PICK b \in done : e = DocumentRow(b)
      BY DEF StoreInv
    <3>2. b.family = f
      BY ArtifactFacts DEF Arts
    <3>3. <<b.family, DocumentId(b)>> = <<a.family, DocumentId(a)>>
      BY <2>2, <3>1 DEF DocumentRow
    <3>4. DocumentId(b) = DocumentId(a)
      BY <3>3
    <3>5. b.uri = a.uri /\ b.file = a.file
      BY <3>4 DEF MovedFrom, DocumentId
    <3> QED
      BY <1>3, <3>1, <3>2, <3>4, <3>5 DEF DocumentRow
  <2>3. ASSUME NEW d \in new.documents, NEW e \in new.documents, d.id = e.id PROVE d = e
    <3>1. CASE d \in st.documents /\ e \in st.documents
      BY <1>7, <2>3, <3>1 DEF KeysHold, UniqueIds
    <3> QED
      BY <1>5, <2>1, <2>2, <2>3, <3>1
  <2> QED
    BY <2>3 DEF UniqueIds
<1>9. UniqueIds(new.masters)
  <2>1. ASSUME NEW r \in RowsOf(a), NEW n \in st.masters,
               Master(a, r) \in NewMasters(st, c.masters), Master(a, r).id = n.id
        PROVE  FALSE
    <3>1. PICK b \in done : \E s \in RowsOf(b) : n = Master(b, s)
      BY DEF StoreInv
    <3>2. PICK s \in RowsOf(b) : n = Master(b, s)
      BY <3>1
    <3>3. b.family = f /\ \E j : IsRow(b, j, s)
      BY RowsFacts DEF Arts
    <3>4. PICK j : IsRow(b, j, s)
      BY <3>3
    <3>5. PICK i : IsRow(a, i, r)
      BY <1>3
    <3>6. MasterId(r) = MasterId(s)
      BY <2>1, <3>2, <3>4, <3>5, RecordFacts
    <3>7. a.family = f /\ b.family = f
      BY <1>3, <3>3
    <3>8. SameMaster(Master(a, r), n)
      BY <3>2, <3>4, <3>5, <3>6, <3>7, SameMasterId
    <3> QED
      BY <2>1, <3>8 DEF NewMasters
  <2>2. ASSUME NEW m \in NewMasters(st, c.masters)
        PROVE  \E r \in RowsOf(a) : m = Master(a, r)
    BY <1>2 DEF NewMasters
  <2>3. ASSUME NEW m \in new.masters, NEW n \in new.masters, m.id = n.id PROVE m = n
    <3>1. CASE m \in st.masters /\ n \in st.masters
      BY <1>7, <2>3, <3>1 DEF KeysHold, UniqueIds
    <3>2. CASE m \in NewMasters(st, c.masters) /\ n \in st.masters
      BY <2>1, <2>2, <2>3, <3>2
    <3>3. CASE n \in NewMasters(st, c.masters) /\ m \in st.masters
      BY <2>1, <2>2, <2>3, <3>3
    <3>4. CASE m \in NewMasters(st, c.masters) /\ n \in NewMasters(st, c.masters)
      BY <2>2, <2>3, <3>4, OneMaster
    <3> QED
      BY <1>5, <3>1, <3>2, <3>3, <3>4
  <2> QED
    BY <2>3 DEF UniqueIds
<1>10. UniqueIds(new.details)
  <2>1. ASSUME NEW r \in RowsOf(a), NEW e \in st.details,
               Detail(a, r) \in NewDetails(st, c.details), Detail(a, r).id = e.id
        PROVE  FALSE
    <3>1. PICK b \in done : \E s \in RowsOf(b) : e = Detail(b, s)
      BY DEF StoreInv
    <3>2. PICK s \in RowsOf(b) : e = Detail(b, s)
      BY <3>1
    <3>3. b.family = f /\ \E j : IsRow(b, j, s)
      BY RowsFacts DEF Arts
    <3>4. PICK j : IsRow(b, j, s)
      BY <3>3
    <3>5. PICK i : IsRow(a, i, r)
      BY <1>3
    <3>6. ~Clash(r, s)
      BY DEF Clashes
    <3>7. a.family = f /\ b.family = f
      BY <1>3, <3>3
    <3>8. SameDetail(Detail(a, r), e)
      BY <2>1, <3>2, <3>4, <3>5, <3>6, <3>7, NoClash
    <3> QED
      BY <2>1, <3>8 DEF NewDetails
  <2>2. ASSUME NEW d \in NewDetails(st, c.details)
        PROVE  \E r \in RowsOf(a) : d = Detail(a, r)
    BY <1>2 DEF NewDetails
  <2>3. ASSUME NEW r \in RowsOf(a), NEW s \in RowsOf(a), Detail(a, r).id = Detail(a, s).id
        PROVE  r = s
    <3>1. ~Clash(r, s)
      BY DEF Clashes
    <3>2. PICK i : IsRow(a, i, r)
      BY <1>3
    <3>3. PICK j : IsRow(a, j, s)
      BY <1>3
    <3>4. a.family = f
      BY <1>3
    <3>5. SameDetail(Detail(a, r), Detail(a, s))
      BY <2>3, <3>1, <3>2, <3>3, <3>4, NoClash
    <3> QED
      BY <3>5, OneDetail
  <2>4. ASSUME NEW d \in new.details, NEW e \in new.details, d.id = e.id PROVE d = e
    <3>1. CASE d \in st.details /\ e \in st.details
      BY <1>7, <2>4, <3>1 DEF KeysHold, UniqueIds
    <3>2. CASE d \in NewDetails(st, c.details) /\ e \in st.details
      BY <2>1, <2>2, <2>4, <3>2
    <3>3. CASE e \in NewDetails(st, c.details) /\ d \in st.details
      BY <2>1, <2>2, <2>4, <3>3
    <3>4. CASE d \in NewDetails(st, c.details) /\ e \in NewDetails(st, c.details)
      BY <2>2, <2>3, <2>4, <3>4
    <3> QED
      BY <1>5, <3>1, <3>2, <3>3, <3>4
  <2> QED
    BY <2>4 DEF UniqueIds
<1>11. ASSUME NEW m \in new.masters
       PROVE  \E e \in new.documents : e.id = <<m.family, m.document>>
  <2>1. CASE m \in st.masters
    BY <1>5, <1>7, <2>1 DEF KeysHold
  <2>2. CASE m \in NewMasters(st, c.masters)
    <3>1. PICK r \in RowsOf(a) : m = Master(a, r)
      BY <1>2, <2>2 DEF NewMasters
    <3>2. /\ m.family = a.family /\ m.document = DocumentId(a) /\ DocumentOf(m) = DocumentRow(a)
      BY <1>3, <3>1, RecordFacts
    <3>3. m \in c.masters
      BY <2>2 DEF NewMasters
    <3>4. DocumentRow(a).id = <<m.family, m.document>>
      BY <3>2 DEF DocumentRow
    <3>5. CASE \A e \in st.documents : ~SameDocument(DocumentRow(a), e)
      <4>1. DocumentRow(a) \in NewDocuments(st, c.masters)
        BY <3>2, <3>3, <3>5 DEF NewDocuments
      <4> QED
        BY <1>5, <3>4, <4>1
    <3>6. ASSUME NEW e \in st.documents, SameDocument(DocumentRow(a), e)
          PROVE  e \in new.documents /\ e.id = <<m.family, m.document>>
      <4>1. PICK b \in done : e = DocumentRow(b)
        BY DEF StoreInv
      <4>2. b.family = f /\ \E where \in Places : b.uri = <<where, f, b.year>>
        BY ArtifactFacts DEF Arts
      <4>3. a.uri = b.uri /\ a.file = b.file
        BY <3>6, <4>1 DEF SameDocument, DocumentRow
      <4>4. a.year = b.year
        BY <1>3, <4>2, <4>3
      <4> QED
        BY <1>3, <1>5, <3>2, <4>1, <4>2, <4>3, <4>4 DEF DocumentRow, DocumentId
    <3> QED
      BY <3>5, <3>6
  <2> QED
    BY <1>5, <2>1, <2>2
<1>12. ASSUME NEW d \in new.details PROVE \E m \in new.masters : m.id = d.master
  <2>1. CASE d \in st.details
    BY <1>5, <1>7, <2>1 DEF KeysHold
  <2>2. CASE d \in NewDetails(st, c.details)
    <3>1. PICK r \in RowsOf(a) : d = Detail(a, r)
      BY <1>2, <2>2 DEF NewDetails
    <3>2. d.master = MasterId(r) /\ Master(a, r).id = MasterId(r)
      BY <1>3, <3>1, RecordFacts
    <3> QED
      BY <1>4, <1>5, <3>2
  <2> QED
    BY <1>5, <2>1, <2>2
<1>13. KeysHold(new)
  BY <1>8, <1>9, <1>10, <1>11, <1>12 DEF KeysHold
<1> QED
  BY <1>6, <1>13 DEF Accepts, new, c
-----------------------------------------------------------------------------
(* The flat table.                                                          *)

\* Every record is of a row of an artifact that was committed.
RecordsInv(table, done) ==
  \A rec \in table : \E a \in done : \E r \in RowsOf(a) : rec = RecordOf(r, DocumentId(a))

RowsRecorded(table, done) ==
  \A a \in done : \A r \in RowsOf(a) :
    \E rec \in table : rec.key = IdempotencyKey(r, DocumentId(a))

\* What an insert of records adds to the table, and that it skips no key.
LEMMA RecordsFacts ==
  ASSUME NEW table, NEW rows, rows \in Seq(Range(rows)), NEW document
  PROVE  LET new == WithRecords(table, rows, document) IN
         /\ table \subseteq new
         /\ \A rec \in new : rec \in table \/ \E r \in Range(rows) : rec = RecordOf(r, document)
         /\ \A r \in Range(rows) : \E rec \in new : rec.key = IdempotencyKey(r, document)
<1> DEFINE n == Len(rows)
           seq == [i \in DOMAIN rows |-> RecordOf(rows[i], document)]
<1>1. n \in Nat /\ DOMAIN rows = 1..n
  OBVIOUS
<1>2. DOMAIN seq = 1..n /\ \A k \in 1..n : seq[k] = RecordOf(rows[k], document)
  BY <1>1
<1>3. WithRecords(table, rows, document) = FoldLeft(WithRecord, table, seq)
  BY DEF WithRecords
<1> HIDE DEF n, seq
<1>4. PICK trace : Inserts!IsTrace(trace, table, seq, n)
  BY <1>1, <1>2, Inserts!FoldTrace
<1>5. /\ trace[0] = table
      /\ \A k \in 1..n : trace[k] = WithRecord(trace[k - 1], seq[k])
      /\ Inserts!Fold(table, seq) = trace[n]
  BY <1>4 DEF Inserts!IsTrace
<1> DEFINE Holds(k) ==
             /\ table \subseteq trace[k]
             /\ \A rec \in trace[k] : rec \in table \/ \E i \in 1..k : rec = seq[i]
             /\ \A i \in 1..k : \E rec \in trace[k] : rec.key = seq[i].key
           P == {k \in Nat : k <= n => Holds(k)}
<1>6. 0 \in P
  BY <1>5
<1>7. ASSUME NEW k \in Nat, k \in P PROVE k + 1 \in P
  <2> SUFFICES ASSUME k + 1 <= n PROVE Holds(k + 1)
    OBVIOUS
  <2>0. k + 1 \in 1..n /\ (k + 1) - 1 = k /\ k <= n
    BY <1>1
  <2> HIDE DEF Holds
  <2>1. Holds(k) /\ k + 1 \in 1..n /\ (k + 1) - 1 = k
    BY <1>7, <2>0
  <2> USE DEF Holds
  <2>2. trace[k + 1] = WithRecord(trace[k], seq[k + 1])
    BY <1>5, <2>1
  <2>3. /\ \A i \in 1..(k + 1) : i \in 1..k \/ i = k + 1
        /\ (1..k) \subseteq 1..(k + 1) /\ k + 1 \in 1..(k + 1)
    OBVIOUS
  <2>4. /\ trace[k] \subseteq trace[k + 1]
        /\ \A rec \in trace[k + 1] : rec \in trace[k] \/ rec = seq[k + 1]
        /\ \E rec \in trace[k + 1] : rec.key = seq[k + 1].key
    BY <2>2 DEF WithRecord
  <2>5. table \subseteq trace[k + 1]
    BY <2>1, <2>4
  <2>6. \A rec \in trace[k + 1] : rec \in table \/ \E i \in 1..(k + 1) : rec = seq[i]
    BY <2>1, <2>3, <2>4
  <2>7. \A i \in 1..(k + 1) : \E rec \in trace[k + 1] : rec.key = seq[i].key
    BY <2>1, <2>3, <2>4
  <2> QED
    BY <2>5, <2>6, <2>7
<1> HIDE DEF P
<1>8. Nat \subseteq P
  BY <1>6, <1>7, Inserts!SetInduction
<1>9. Holds(n)
  <2>1. n \in P
    BY <1>1, <1>8
  <2> QED
    BY <1>1, <2>1 DEF P
<1>10. Inserts!Fold(table, seq) = FoldLeft(WithRecord, table, seq)
  BY DEF Inserts!Fold, Inserts!FoldLeft, FoldLeft, MapThenFoldSet,
         Inserts!MapThenFoldSet, Max, Inserts!Max
<1>11. WithRecords(table, rows, document) = trace[n]
  BY <1>3, <1>5, <1>10
<1>12. \A rec \in trace[n] : rec \in table \/ \E r \in Range(rows) : rec = RecordOf(r, document)
  BY <1>1, <1>2, <1>9 DEF Range
<1>13. \A r \in Range(rows) : \E rec \in trace[n] : rec.key = IdempotencyKey(r, document)
  <2>1. \A r : RecordOf(r, document).key = IdempotencyKey(r, document)
    BY DEF RecordOf
  <2> QED
    BY <1>1, <1>2, <1>9, <2>1 DEF Range
<1> QED
  BY <1>9, <1>11, <1>12, <1>13

\* An insert of records keeps the table's part of the invariant.
LEMMA InsertKeepsRecords ==
  ASSUME NEW f, NEW table, NEW done, NEW a, RecordsInv(table, done), RowsRecorded(table, done),
         IsArtifact(a, f), ~ParseArtifact(a).raised
  PROVE  LET new == WithRecords(table, ParseArtifact(a).rows, DocumentId(a)) IN
         RecordsInv(new, done \cup {a}) /\ RowsRecorded(new, done \cup {a})
<1> DEFINE rows == ParseArtifact(a).rows
           new == WithRecords(table, rows, DocumentId(a))
<1>1. rows \in Seq(Range(rows)) /\ Range(rows) = RowsOf(a)
  BY ParsedRows DEF AreRows, RowsOf
<1> HIDE DEF rows
<1>2. /\ table \subseteq new
      /\ \A rec \in new : rec \in table \/ \E r \in RowsOf(a) : rec = RecordOf(r, DocumentId(a))
      /\ \A r \in RowsOf(a) : \E rec \in new : rec.key = IdempotencyKey(r, DocumentId(a))
  BY <1>1, RecordsFacts
<1> HIDE DEF new
<1>3. RecordsInv(new, done \cup {a})
  BY <1>2 DEF RecordsInv
<1>4. RowsRecorded(new, done \cup {a})
  BY <1>2 DEF RowsRecorded
<1> QED
  BY <1>3, <1>4 DEF new, rows
-----------------------------------------------------------------------------
(* The inductive invariant.                                                 *)

Scope ==
  /\ family \in Families /\ sink \in {"families", "records"}
  /\ target \in Nat /\ place \in Places /\ published \in FilesOf[family]

\* What was found out so far about the artifact of the year step.
JobInv ==
  /\ job = [stage |-> job.stage, artifact |-> job.artifact, rows |-> job.rows]
  /\ job.stage \in Stages
  /\ job.stage # "idle" => IsArtifact(job.artifact, family)
  /\ job.stage \notin {"idle", "parsing"} =>
       ~ParseArtifact(job.artifact).raised /\ job.rows = ParseArtifact(job.artifact).rows
  /\ job.stage = "inserting" => Quality!Validation(job.rows).validated
  /\ job.stage = "recording" => job.artifact \in committed \/ job.rows = <<>>

DoneInv ==
  /\ Arts(family, committed) /\ Arts(family, recorded)
  /\ \A a \in recorded : a \in committed \/ ParseArtifact(a).rows = <<>>

TablesInv ==
  /\ StoreInv(family, store, committed)
  /\ sink = "families" => RowsStored(store, committed)
  /\ RecordsInv(records, committed)
  /\ sink = "records" => RowsRecorded(records, committed)

BatchInv == Scope /\ JobInv /\ DoneInv /\ TablesInv /\ ValidatedIsStorable

\* The empty tables satisfy the invariant.
LEMMA InitInv == Init => BatchInv
<1> SUFFICES ASSUME Init PROVE BatchInv
  OBVIOUS
<1>1. Scope
  BY BatchAssumption DEF Init, Scope
<1>2. JobInv
  BY DEF Init, JobInv, Idle, Stages
<1>3. DoneInv
  BY DEF Init, DoneInv, Arts
<1>4. StoreInv(family, store, committed)
  <2>1. store.documents = {} /\ store.masters = {} /\ store.details = {}
    BY DEF Init, EmptyStore
  <2> QED
    BY <2>1 DEF StoreInv, KeysHold, UniqueIds
<1>5. TablesInv
  BY <1>4 DEF Init, TablesInv, RowsStored, RowsRecorded, RecordsInv
<1>6. ValidatedIsStorable
  BY DEF Init, ValidatedIsStorable
<1> QED
  BY <1>1, <1>2, <1>3, <1>5, <1>6 DEF BatchInv

\* Most steps leave the tables and what was committed alone.
LEMMA KeepTables ==
  ASSUME TablesInv, UNCHANGED <<family, sink, store, records, committed>>
  PROVE  TablesInv'
BY DEF TablesInv

\* A refusal that was justified stays so while no new one comes.
LEMMA KeepRefused ==
  ASSUME ValidatedIsStorable, UNCHANGED <<sink, refused>>, committed \subseteq committed'
  PROVE  ValidatedIsStorable'
BY DEF ValidatedIsStorable, HasClash, IsMoved

\* No year under way has nothing to keep.
LEMMA IdleJob ==
  ASSUME job' = Idle
  PROVE  JobInv'
BY DEF JobInv, Idle, Stages

\* The artifact of the target year is one.
LEMMA ArchivedArtifact ==
  ASSUME Scope
  PROVE  IsArtifact(Artifact, family)
BY DEF Scope, Artifact, IsArtifact

\* A step of a year keeps its artifact.
LEMMA GotoJob ==
  ASSUME JobInv, NEW stage, NEW rows, Goto(stage, rows)
  PROVE  job' = [stage |-> stage, artifact |-> job.artifact, rows |-> rows]
BY DEF JobInv, Goto

\* One lemma for each action that leaves the tables alone.
LEMMA ArchivedStep == BatchInv /\ Archived => BatchInv'
<1> SUFFICES ASSUME BatchInv, Archived PROVE BatchInv'
  OBVIOUS
<1> USE DEF Archived, BatchInv, tables, source
<1>1. Scope'
  BY DEF Scope
<1>2. JobInv'
  BY ArchivedArtifact DEF JobInv, Stages
<1>3. DoneInv'
  BY DEF DoneInv
<1>4. ValidatedIsStorable'
  BY DEF ValidatedIsStorable
<1> QED
  BY <1>1, <1>2, <1>3, <1>4, KeepTables

LEMMA ParseStep == BatchInv /\ Parse => BatchInv'
<1> SUFFICES ASSUME BatchInv, Parse PROVE BatchInv'
  OBVIOUS
<1> USE DEF Parse, BatchInv, tables, source
<1>1. Scope'
  BY DEF Scope
<1>2. JobInv'
  <2>1. CASE ParseArtifact(job.artifact).raised
    BY <2>1, IdleJob DEF Leave
  <2>2. CASE ~ParseArtifact(job.artifact).raised
    <3>1. job' = [stage |-> "validating", artifact |-> job.artifact,
                  rows |-> ParseArtifact(job.artifact).rows]
      BY <2>2, GotoJob
    <3> QED
      BY <2>2, <3>1 DEF JobInv, Stages
  <2> QED
    BY <2>1, <2>2
<1>3. DoneInv'
  BY DEF DoneInv
<1> QED
  BY <1>1, <1>2, <1>3, KeepTables, KeepRefused

LEMMA ValidateStep == BatchInv /\ Validate => BatchInv'
<1> SUFFICES ASSUME BatchInv, Validate PROVE BatchInv'
  OBVIOUS
<1> USE DEF Validate, BatchInv, tables, source
<1>1. Scope'
  BY DEF Scope
<1>2. JobInv'
  <2>1. CASE ~Quality!Validation(job.rows).validated
    BY <2>1, IdleJob DEF Leave
  <2>2. CASE Quality!Validation(job.rows).validated
    <3>1. job' = [stage |-> "inserting", artifact |-> job.artifact, rows |-> job.rows]
      BY <2>2, GotoJob
    <3> QED
      BY <2>2, <3>1 DEF JobInv, Stages
  <2> QED
    BY <2>1, <2>2
<1>3. DoneInv'
  BY DEF DoneInv
<1> QED
  BY <1>1, <1>2, <1>3, KeepTables, KeepRefused

LEMMA InsertNothingStep == BatchInv /\ InsertNothing => BatchInv'
<1> SUFFICES ASSUME BatchInv, InsertNothing PROVE BatchInv'
  OBVIOUS
<1> USE DEF InsertNothing, BatchInv, tables, source
<1>1. Scope'
  BY DEF Scope
<1>2. JobInv'
  <2>1. job' = [stage |-> "recording", artifact |-> job.artifact, rows |-> job.rows]
    BY GotoJob
  <2> QED
    BY <2>1 DEF JobInv, Stages
<1>3. DoneInv'
  BY DEF DoneInv
<1> QED
  BY <1>1, <1>2, <1>3, KeepTables, KeepRefused

LEMMA RecordYearStep == BatchInv /\ RecordYear => BatchInv'
<1> SUFFICES ASSUME BatchInv, RecordYear PROVE BatchInv'
  OBVIOUS
<1> USE DEF RecordYear, BatchInv, tables, source
<1>1. Scope'
  BY DEF Scope
<1>2. JobInv'
  BY IdleJob DEF Leave
<1>3. DoneInv'
  <2>1. /\ IsArtifact(job.artifact, family) /\ ~ParseArtifact(job.artifact).raised
        /\ job.artifact \in committed \/ ParseArtifact(job.artifact).rows = <<>>
    BY DEF JobInv
  <2>2. recorded' = recorded \cup {job.artifact} /\ family' = family /\ committed' = committed
    OBVIOUS
  <2> QED
    BY <2>1, <2>2 DEF DoneInv, Arts
<1> QED
  BY <1>1, <1>2, <1>3, KeepTables, KeepRefused

LEMMA RepublishStep == BatchInv /\ Republish => BatchInv'
<1> SUFFICES ASSUME BatchInv, Republish PROVE BatchInv'
  OBVIOUS
<1> USE DEF Republish, BatchInv, tables, source
<1>1. Scope'
  BY DEF Scope
<1>2. JobInv'
  BY DEF JobInv
<1>3. DoneInv'
  BY DEF DoneInv
<1> QED
  BY <1>1, <1>2, <1>3, KeepTables, KeepRefused

LEMMA RelocateStep == BatchInv /\ Relocate => BatchInv'
<1> SUFFICES ASSUME BatchInv, Relocate PROVE BatchInv'
  OBVIOUS
<1> USE DEF Relocate, BatchInv, tables
<1>1. Scope'
  BY DEF Scope
<1>2. JobInv'
  BY DEF JobInv
<1>3. DoneInv'
  BY DEF DoneInv
<1> QED
  BY <1>1, <1>2, <1>3, KeepTables, KeepRefused

LEMMA CrashStep == BatchInv /\ Crash => BatchInv'
<1> SUFFICES ASSUME BatchInv, Crash PROVE BatchInv'
  OBVIOUS
<1> USE DEF Crash, BatchInv, tables, source
<1>1. Scope'
  BY DEF Scope
<1>2. JobInv'
  BY IdleJob DEF Leave
<1>3. DoneInv'
  BY DEF DoneInv
<1> QED
  BY <1>1, <1>2, <1>3, KeepTables, KeepRefused

LEMMA StutterStep == BatchInv /\ UNCHANGED batchVars => BatchInv'
<1> SUFFICES ASSUME BatchInv, UNCHANGED batchVars PROVE BatchInv'
  OBVIOUS
<1> USE DEF batchVars, BatchInv, tables, source
<1>1. Scope'
  BY DEF Scope
<1>2. JobInv'
  BY DEF JobInv
<1>3. DoneInv'
  BY DEF DoneInv
<1> QED
  BY <1>1, <1>2, <1>3, KeepTables, KeepRefused
\* The rows that are inserted are those of the artifact, and they were validated.
LEMMA InsertingFacts ==
  ASSUME JobInv, job.stage = "inserting"
  PROVE  /\ IsArtifact(job.artifact, family) /\ ~ParseArtifact(job.artifact).raised
         /\ job.rows = ParseArtifact(job.artifact).rows
         /\ Range(job.rows) = RowsOf(job.artifact)
         /\ job.rows \in Seq(Range(job.rows))
         /\ Valid(RowsOf(job.artifact))
         /\ CommandOf(job) = BatchCommand(job.artifact)
<1>1. /\ IsArtifact(job.artifact, family) /\ ~ParseArtifact(job.artifact).raised
      /\ job.rows = ParseArtifact(job.artifact).rows
      /\ Quality!Validation(job.rows).validated
  BY DEF JobInv
<1>2. Range(job.rows) = RowsOf(job.artifact)
  BY <1>1 DEF RowsOf
<1>3. job.rows \in Seq(Range(job.rows))
  BY <1>1, ParsedRows DEF AreRows
<1>4. Valid(RowsOf(job.artifact))
  BY <1>1, <1>2, <1>3, ValidatedRows
<1>5. CommandOf(job) = BatchCommand(job.artifact)
  BY <1>2 DEF CommandOf, BatchCommand
<1> QED
  BY <1>1, <1>2, <1>3, <1>4, <1>5

\* What holds of the tables goes on holding when more artifacts are committed.
LEMMA MoreCommitted ==
  ASSUME NEW f, NEW st, NEW table, NEW done, NEW more, done \subseteq more
  PROVE  /\ StoreInv(f, st, done) => StoreInv(f, st, more)
         /\ RecordsInv(table, done) => RecordsInv(table, more)
<1>1. StoreInv(f, st, done) => StoreInv(f, st, more)
  <2> SUFFICES ASSUME StoreInv(f, st, done) PROVE StoreInv(f, st, more)
    OBVIOUS
  <2>1. \A d \in st.details : \E a \in more : \E r \in RowsOf(a) :
          d = Detail(a, r) /\ \E m \in st.masters : m.id = d.master /\ m.sum = a.file
    BY DEF StoreInv
  <2>2. \A m \in st.masters : \E a \in more : \E r \in RowsOf(a) : m = Master(a, r)
    BY DEF StoreInv
  <2> QED
    BY <2>1, <2>2 DEF StoreInv
<1>2. RecordsInv(table, done) => RecordsInv(table, more)
  BY DEF RecordsInv
<1> QED
  BY <1>1, <1>2

\* The insert into the source families.
LEMMA InsertFamiliesStep == BatchInv /\ InsertFamilies => BatchInv'
<1> SUFFICES ASSUME BatchInv, InsertFamilies PROVE BatchInv'
  OBVIOUS
<1> DEFINE a == job.artifact
<1>0. /\ Scope /\ JobInv /\ DoneInv /\ TablesInv /\ ValidatedIsStorable
      /\ job.stage = "inserting" /\ sink = "families"
      /\ CommandOf(job).issues = {} /\ Accepts(store, CommandOf(job))
      /\ store' = Transaction(store, CommandOf(job))
      /\ committed' = committed \cup {a} /\ Goto("recording", job.rows)
      /\ UNCHANGED <<family, sink, target, place, published, records, recorded, refused>>
  BY DEF BatchInv, InsertFamilies, source
<1>1. /\ IsArtifact(a, family) /\ ~ParseArtifact(a).raised
      /\ job.rows = ParseArtifact(a).rows /\ CommandOf(job) = BatchCommand(a)
  BY <1>0, InsertingFacts
<1>2. store' = After(store, BatchCommand(a))
  BY <1>0, <1>1 DEF Transaction
<1>3. job' = [stage |-> "recording", artifact |-> a, rows |-> job.rows]
  BY <1>0, GotoJob
<1>4. Scope'
  BY <1>0 DEF Scope
<1>5. JobInv'
  BY <1>0, <1>1, <1>3 DEF JobInv, Stages
<1>6. DoneInv'
  BY <1>0, <1>1 DEF DoneInv, Arts
<1>7. Arts(family, committed) /\ StoreInv(family, store, committed)
      /\ RowsStored(store, committed) /\ RecordsInv(records, committed)
  BY <1>0 DEF DoneInv, TablesInv
<1>8. /\ StoreInv(family, store', committed')
      /\ RowsStored(store', {a})
      /\ store.masters \subseteq store'.masters /\ store.details \subseteq store'.details
  <2>1. BatchCommand(a).issues = {} /\ Accepts(store, BatchCommand(a))
    BY <1>0, <1>1
  <2> DEFINE new == After(store, BatchCommand(a))
  <2>2. /\ StoreInv(family, new, committed \cup {a})
        /\ RowsStored(new, {a})
        /\ store.masters \subseteq new.masters /\ store.details \subseteq new.details
    BY <1>1, <1>7, <2>1, InsertKeeps
  <2>3. store' = new /\ committed' = committed \cup {a}
    BY <1>0, <1>2
  <2> HIDE DEF new
  <2> QED
    BY <2>2, <2>3
<1>9. RowsStored(store', committed')
  BY <1>0, <1>7, <1>8 DEF RowsStored
<1>10. RecordsInv(records', committed')
  BY <1>0, <1>7, MoreCommitted
<1>11. TablesInv'
  BY <1>0, <1>8, <1>9, <1>10 DEF TablesInv
<1>12. ValidatedIsStorable'
  BY <1>0, KeepRefused
<1> QED
  BY <1>4, <1>5, <1>6, <1>11, <1>12 DEF BatchInv

\* The insert into the table of normalized records.
LEMMA InsertRecordsStep == BatchInv /\ InsertRecords => BatchInv'
<1> SUFFICES ASSUME BatchInv, InsertRecords PROVE BatchInv'
  OBVIOUS
<1> DEFINE a == job.artifact
<1>0. /\ Scope /\ JobInv /\ DoneInv /\ TablesInv /\ ValidatedIsStorable
      /\ job.stage = "inserting" /\ sink = "records"
      /\ records' = WithRecords(records, job.rows, DocumentId(a))
      /\ committed' = committed \cup {a} /\ Goto("recording", job.rows)
      /\ UNCHANGED <<family, sink, target, place, published, store, recorded, refused>>
  BY DEF BatchInv, InsertRecords, source
<1>1. /\ IsArtifact(a, family) /\ ~ParseArtifact(a).raised
      /\ job.rows = ParseArtifact(a).rows
  BY <1>0, InsertingFacts
<1>2. job' = [stage |-> "recording", artifact |-> a, rows |-> job.rows]
  BY <1>0, GotoJob
<1>3. Scope'
  BY <1>0 DEF Scope
<1>4. JobInv'
  BY <1>0, <1>1, <1>2 DEF JobInv, Stages
<1>5. DoneInv'
  BY <1>0, <1>1 DEF DoneInv, Arts
<1>6. /\ StoreInv(family, store, committed)
      /\ RecordsInv(records, committed) /\ RowsRecorded(records, committed)
  BY <1>0 DEF TablesInv
<1>7. RecordsInv(records', committed') /\ RowsRecorded(records', committed')
  BY <1>0, <1>1, <1>6, InsertKeepsRecords
<1>8. StoreInv(family, store', committed')
  BY <1>0, <1>6, MoreCommitted
<1>9. TablesInv'
  BY <1>0, <1>7, <1>8 DEF TablesInv
<1>10. ValidatedIsStorable'
  BY <1>0, KeepRefused
<1> QED
  BY <1>3, <1>4, <1>5, <1>9, <1>10 DEF BatchInv

\* A batch whose numbers fit is refused by the tables of its family only, for rows that
\* clash or a file that was committed under another path.
LEMMA InsertRefusedStep == BatchInv /\ InsertRefused => BatchInv'
<1> SUFFICES ASSUME BatchInv, InsertRefused PROVE BatchInv'
  OBVIOUS
<1> DEFINE a == job.artifact
<1>0. /\ Scope /\ JobInv /\ DoneInv /\ TablesInv
      /\ job.stage = "inserting" /\ job.rows # <<>> /\ Refuses(job)
      /\ refused' = job /\ Leave
      /\ UNCHANGED <<family, sink, target, place, published, store, records, committed, recorded>>
  BY DEF BatchInv, InsertRefused, tables, source
<1>1. /\ IsArtifact(a, family) /\ ~ParseArtifact(a).raised
      /\ Range(job.rows) = RowsOf(a) /\ job.rows \in Seq(Range(job.rows))
      /\ Valid(RowsOf(a)) /\ CommandOf(job) = BatchCommand(a)
  BY <1>0, InsertingFacts
<1>2. RowsOf(a) # {}
  BY <1>0, <1>1, NothingInRange
<1>3. ASSUME Fit(job.rows) PROVE sink = "families"
  <2>1. SUFFICES ASSUME sink = "records" PROVE FALSE
    BY <1>0 DEF Scope
  <2>2. RecordIssues(job.rows) # {}
    BY <1>0, <1>3, <2>1 DEF Refuses
  <2>3. PICK i \in DOMAIN job.rows : RowIssues(job.rows[i]) # {}
    BY <2>2 DEF RecordIssues
  <2>4. job.rows[i] \in RowsOf(a)
    BY <1>1 DEF Range
  <2>5. job.rows[i].value # Absent /\ job.rows[i].unit # Absent
    BY <1>1, <2>4 DEF Valid
  <2> QED
    BY <2>3, <2>5 DEF RowIssues
<1>4. ASSUME Fit(job.rows) PROVE Clashes(a, committed) \/ MovedFrom(a, committed)
  <2>1. SUFFICES ASSUME ~Clashes(a, committed), ~MovedFrom(a, committed) PROVE FALSE
    OBVIOUS
  <2>2. Arts(family, committed) /\ StoreInv(family, store, committed)
    BY <1>0 DEF DoneInv, TablesInv
  <2>3. BatchCommand(a).issues = {}
    BY <1>1, <1>2, ValidatedHasNoIssue
  <2>4. Accepts(store, BatchCommand(a))
    BY <1>1, <1>2, <2>1, <2>2, ValidatedIsAccepted
  <2> QED
    BY <1>0, <1>1, <1>3, <1>4, <2>3, <2>4 DEF Refuses
<1>5. ValidatedIsStorable'
  <2>1. refused' = job /\ refused'.rows = job.rows /\ refused'.artifact = a
        /\ sink' = sink /\ committed' = committed
    BY <1>0
  <2>2. MovedFrom(a, committed) => IsMoved(refused.artifact)'
    BY <2>1 DEF MovedFrom, IsMoved
  <2>3. Clashes(a, committed) => HasClash(Range(refused.rows))'
    BY <1>1, <2>1 DEF Clashes, HasClash
  <2> QED
    BY <1>3, <1>4, <2>1, <2>2, <2>3 DEF ValidatedIsStorable, Fit
<1>6. Scope'
  BY <1>0 DEF Scope
<1>7. JobInv'
  BY <1>0, IdleJob DEF Leave
<1>8. DoneInv'
  BY <1>0 DEF DoneInv
<1>9. TablesInv'
  BY <1>0, KeepTables
<1> QED
  BY <1>5, <1>6, <1>7, <1>8, <1>9 DEF BatchInv

\* The invariant holds of every behaviour.
LEMMA BatchInvHolds == Spec => []BatchInv
<1>1. BatchInv /\ [Next]_batchVars => BatchInv'
  BY ArchivedStep, ParseStep, ValidateStep, InsertNothingStep, InsertFamiliesStep,
     InsertRecordsStep, InsertRefusedStep, RecordYearStep, RepublishStep, RelocateStep, CrashStep,
     StutterStep, Zenon DEF Next
<1> QED
  BY InitInv, <1>1, PTL DEF Spec
-----------------------------------------------------------------------------
(* The properties.                                                          *)

\* A row bears the factor and the unit of its line.
LEMMA RowIsOfLine ==
  ASSUME NEW a, NEW i, NEW r, a.family = family, IsRow(a, i, r)
  PROVE  Of(r.factor, r.unit, a.file.lines[i])
<1> DEFINE line == a.file.lines[i]
<1>1. r.unit = Unit(line) /\ IsOfLine(a, line, r)
  BY DEF IsRow
<1> HIDE DEF line
<1>2. Names(line) # Absent => r.factor = Names(line)
  BY <1>1 DEF IsOfLine, Names, DefraFactor
<1> QED
  BY <1>1, <1>2 DEF Of, line

\* Rows that the flat table takes for one are of one file and have lines of one name.
LEMMA OneRecord ==
  ASSUME NEW a, NEW b, NEW i, NEW j, NEW r, NEW s, a.family = family, b.family = family,
         IsRow(a, i, r), IsRow(b, j, s),
         IdempotencyKey(r, DocumentId(a)) = IdempotencyKey(s, DocumentId(b))
  PROVE  b.file = a.file /\ Names(a.file.lines[i]) = Names(b.file.lines[j])
<1> DEFINE line == a.file.lines[i]
           other == b.file.lines[j]
<1>1. /\ r.family = family /\ s.family = family /\ r.sum = a.file /\ s.sum = b.file
      /\ IsOfLine(a, line, r) /\ IsOfLine(b, other, s)
  BY DEF IsRow
<1> HIDE DEF line, other
<1>2. r.sum = s.sum /\ RowId(r) = RowId(s)
  BY DEF IdempotencyKey
<1>3. CASE family \in PerFactor
  <2>1. <<r.year, r.version, r.factor>> = <<s.year, s.version, s.factor>>
    BY <1>1, <1>2, <1>3 DEF RowId
  <2>2. r.factor = s.factor
    BY <2>1
  <2> QED
    BY <1>1, <1>2, <1>3, <2>2 DEF IsOfLine, Names, line, other
<1>4. CASE family \notin PerFactor
  <2>1. <<r.year, r.factor>> = <<s.year, s.factor>>
    BY <1>1, <1>2, <1>4 DEF RowId
  <2>2. r.factor = DefraFactor(a, line) /\ s.factor = DefraFactor(b, other)
    BY <1>1, <1>4 DEF IsOfLine
  <2>3. DefraFactor(a, line) = DefraFactor(b, other)
    BY <2>1, <2>2
  <2>4. CASE line.factor # Absent /\ other.factor # Absent
    <3>1. <<line.factor>> = <<other.factor>>
      BY <2>3, <2>4 DEF DefraFactor
    <3>2. Names(line) = <<line.factor>> /\ Names(other) = <<other.factor>>
      BY <1>4, <2>4 DEF Names
    <3> QED
      BY <1>1, <1>2, <3>1, <3>2 DEF line, other
  <2>5. CASE line.factor = Absent /\ other.factor = Absent
    BY <1>1, <1>2, <1>4, <2>5 DEF Names, line, other
  \* A factor that is named and one that is put together are never the same.
  <2>6. CASE (line.factor = Absent) # (other.factor = Absent)
    <3>1. \A x, u, v, w : <<x>> # <<u, v, w>>
      OBVIOUS
    <3> QED
      BY <2>3, <2>6, <3>1 DEF DefraFactor
  <2> QED
    BY <2>4, <2>5, <2>6
<1> QED
  BY <1>3, <1>4
\* A committed artifact's row has its detail under a master of its line.
LEMMA FamiliesStored ==
  ASSUME NEW a, NEW i, NEW r \in RowsOf(a), IsArtifact(a, family), IsRow(a, i, r),
         StoreInv(family, store, committed), RowsStored(store, committed),
         Arts(family, committed), a \in committed
  PROVE  \E detail \in store.details, master \in store.masters :
           /\ detail.master = master.id /\ BelongsUnder(a, a.file.lines[i], master)
           /\ Of(detail.key[1], detail.key[2], a.file.lines[i])
<1> DEFINE line == a.file.lines[i]
<1>1. PICK d \in store.details, m \in store.masters :
        d.master = MasterId(r) /\ d.key = DetailKey(r) /\ m.id = MasterId(r)
  BY DEF RowsStored
<1>2. a.family = family /\ r.family = family /\ IsOfLine(a, line, r)
  BY ArtifactFacts DEF IsRow
<1>3. Of(d.key[1], d.key[2], line)
  <2>1. d.key[1] = r.factor /\ d.key[2] = r.unit
    BY <1>1 DEF DetailKey
  <2> QED
    BY <1>2, <2>1, RowIsOfLine
<1>4. PICK b \in committed : \E s \in RowsOf(b) : m = Master(b, s)
  BY DEF StoreInv
<1>5. PICK s \in RowsOf(b) : m = Master(b, s)
  BY <1>4
<1>6. b.family = family /\ \E j : IsRow(b, j, s)
  BY RowsFacts DEF Arts
<1>7. PICK j : IsRow(b, j, s)
  BY <1>6
<1>8. /\ m.id = MasterId(s) /\ m.key = ExternalKey(s) /\ m.uri = b.uri /\ m.sum = b.file
      /\ s.family = family
  <2>1. /\ Master(b, s).id = MasterId(s) /\ Master(b, s).key = ExternalKey(s)
        /\ Master(b, s).uri = b.uri /\ Master(b, s).sum = b.file
    BY <1>7, RecordFacts
  <2>2. s.family = family
    BY <1>6, <1>7 DEF IsRow
  <2> QED
    BY <1>5, <2>1, <2>2
<1>9. MasterId(r) = MasterId(s)
  BY <1>1, <1>8
<1>10. BelongsUnder(a, line, m)
  <2>1. CASE family \in PerFactor
    <3>1. ExternalKey(s) = ExternalKey(r)
      BY <1>9 DEF MasterId
    <3>2. ExternalKey(r) = <<line.year, line.version, line.factor>>
      BY <1>2, <2>1 DEF ExternalKey, IsOfLine
    <3> QED
      BY <1>2, <1>8, <2>1, <3>1, <3>2 DEF BelongsUnder
  <2>2. CASE family \notin PerFactor
    <3>1. family \notin PerFactor => a.uri = b.uri /\ a.file = b.file
      BY <1>2, <1>6, <1>7, <1>9, SameMasterId
    <3> QED
      BY <1>2, <1>8, <2>2, <3>1 DEF BelongsUnder
  <2> QED
    BY <2>1, <2>2
<1> QED
  BY <1>1, <1>3, <1>10

\* A committed artifact's row has its record, unless another unit took its key.
LEMMA FlatTableStored ==
  ASSUME NEW a, NEW i, NEW r \in RowsOf(a), IsArtifact(a, family), IsRow(a, i, r),
         RecordsInv(records, committed), RowsRecorded(records, committed),
         Arts(family, committed), a \in committed
  PROVE  \/ OtherUnit(a, a.file.lines[i])
         \/ \E record \in records :
              record.sum = a.file /\ Of(record.factor, record.unit, a.file.lines[i])
<1> DEFINE line == a.file.lines[i]
<1>1. PICK rec \in records : rec.key = IdempotencyKey(r, DocumentId(a))
  BY DEF RowsRecorded
<1>2. PICK b \in committed : \E s \in RowsOf(b) : rec = RecordOf(s, DocumentId(b))
  BY DEF RecordsInv
<1>3. PICK s \in RowsOf(b) : rec = RecordOf(s, DocumentId(b))
  BY <1>2
<1>4. b.family = family /\ \E j : IsRow(b, j, s)
  BY RowsFacts DEF Arts
<1>5. PICK j : IsRow(b, j, s)
  BY <1>4
<1>6. a.family = family
  BY ArtifactFacts
<1>7. /\ rec.key = IdempotencyKey(s, DocumentId(b)) /\ rec.sum = s.sum
      /\ rec.factor = s.factor /\ rec.unit = s.unit
  BY <1>3 DEF RecordOf
<1>8. IdempotencyKey(r, DocumentId(a)) = IdempotencyKey(s, DocumentId(b))
  BY <1>1, <1>7
<1>9. b.file = a.file /\ Names(line) = Names(b.file.lines[j])
  BY <1>4, <1>5, <1>6, <1>8, OneRecord
<1> DEFINE other == b.file.lines[j]
<1>10. /\ j \in DOMAIN b.file.lines /\ Counts(b, other) /\ s.unit = Unit(other) /\ s.sum = b.file
  BY <1>5 DEF IsRow
<1>11. Of(s.factor, s.unit, other)
  BY <1>4, <1>5, RowIsOfLine
<1>12. Counts(a, other)
  BY <1>4, <1>6, <1>10 DEF Counts
<1>13. CASE Unit(other) = Unit(line)
  <2>1. Of(rec.factor, rec.unit, line)
    BY <1>7, <1>9, <1>11, <1>13 DEF Of
  <2> QED
    BY <1>7, <1>9, <1>10, <2>1
<1>14. CASE Unit(other) # Unit(line)
  <2>1. other = a.file.lines[j] /\ j \in DOMAIN a.file.lines
    BY <1>9, <1>10
  <2> HIDE DEF other
  <2>2. OtherUnit(a, line)
    BY <1>9, <1>12, <1>14, <2>1 DEF OtherUnit, other
  <2> QED
    BY <2>2
<1> QED
  BY <1>13, <1>14

\* No factor and unit of a recorded file is lost, but for a second unit in the flat table:
\* whatever its publisher offers and when, whatever the parsers pass over, the checks let
\* through and the inserts skip, and wherever the process crashes, the tables have a detail
\* or a record of what a recorded year's lines name (_run_source_family).
THEOREM RecordedStaysStored == Spec => []RecordedIsStored
<1>1. ASSUME BatchInv PROVE RecordedIsStored
  <2>1. /\ Arts(family, committed) /\ Arts(family, recorded)
        /\ \A a \in recorded : a \in committed \/ ParseArtifact(a).rows = <<>>
        /\ StoreInv(family, store, committed) /\ RecordsInv(records, committed)
        /\ sink = "families" => RowsStored(store, committed)
        /\ sink = "records" => RowsRecorded(records, committed)
        /\ sink \in {"families", "records"}
    BY <1>1 DEF BatchInv, Scope, DoneInv, TablesInv
  <2> SUFFICES ASSUME NEW a \in recorded, NEW i \in DOMAIN a.file.lines,
                      Counts(a, a.file.lines[i])
               PROVE  IF sink = "families"
                      THEN \E detail \in store.details, master \in store.masters :
                             /\ detail.master = master.id
                             /\ BelongsUnder(a, a.file.lines[i], master)
                             /\ Of(detail.key[1], detail.key[2], a.file.lines[i])
                      ELSE \/ OtherUnit(a, a.file.lines[i])
                           \/ \E record \in records :
                                /\ record.sum = a.file
                                /\ Of(record.factor, record.unit, a.file.lines[i])
    BY DEF RecordedIsStored
  <2>2. IsArtifact(a, family) /\ AreRows(a, ParseArtifact(a).rows)
    BY <2>1, ParsedRows DEF Arts
  <2>3. PICK r \in RowsOf(a) : IsRow(a, i, r)
    BY <2>2 DEF AreRows, RowsOf
  <2>4. a \in committed
    <3>1. DOMAIN <<>> = {}
      OBVIOUS
    <3>2. Range(<<>>) = {}
      BY <3>1 DEF Range
    <3>3. ParseArtifact(a).rows # <<>>
      BY <2>3, <3>2 DEF RowsOf
    <3> QED
      BY <2>1, <3>3
  <2>5. CASE sink = "families"
    BY <2>1, <2>2, <2>3, <2>4, <2>5, FamiliesStored
  <2>6. CASE sink = "records"
    BY <2>1, <2>2, <2>3, <2>4, <2>6, FlatTableStored
  <2> QED
    BY <2>1, <2>5, <2>6
<1> QED
  BY <1>1, BatchInvHolds, PTL

\* A stored value is one that the file whose checksum it bears gives to its factor and
\* unit, whatever was republished under the same keys (master_insert_sql,
\* detail_insert_sql, _idempotency_key).
THEOREM ValuesStayWithTheirFile == Spec => []ValuesAreOfTheirFile
<1>1. ASSUME NEW a \in committed, NEW r \in RowsOf(a), Arts(family, committed)
      PROVE  r.sum = a.file /\ Gives(a.file, r.factor, r.unit, r.value)
  <2>1. a.family = family /\ \E i : IsRow(a, i, r)
    BY <1>1, RowsFacts DEF Arts
  <2>2. PICK i : IsRow(a, i, r)
    BY <2>1
  <2>3. Of(r.factor, r.unit, a.file.lines[i])
    BY <2>1, <2>2, RowIsOfLine
  <2> QED
    BY <2>2, <2>3 DEF Gives, IsRow
<1>2. ASSUME BatchInv PROVE ValuesAreOfTheirFile
  <2>1. /\ Arts(family, committed) /\ StoreInv(family, store, committed)
        /\ RecordsInv(records, committed)
    BY <1>2 DEF BatchInv, DoneInv, TablesInv
  <2>2. ASSUME NEW d \in store.details
        PROVE  \E m \in store.masters : m.id = d.master /\ Gives(m.sum, d.key[1], d.key[2], d.value)
    <3>1. PICK a \in committed : \E r \in RowsOf(a) :
            d = Detail(a, r) /\ \E m \in store.masters : m.id = d.master /\ m.sum = a.file
      BY <2>1 DEF StoreInv
    <3>2. PICK r \in RowsOf(a) :
            d = Detail(a, r) /\ \E m \in store.masters : m.id = d.master /\ m.sum = a.file
      BY <3>1
    <3>3. d.key[1] = r.factor /\ d.key[2] = r.unit /\ d.value = r.value
      BY <3>2 DEF Detail, DetailOf, DetailKey
    <3>4. Gives(a.file, r.factor, r.unit, r.value)
      BY <1>1, <2>1
    <3> QED
      BY <3>2, <3>3, <3>4
  <2>3. ASSUME NEW rec \in records PROVE Gives(rec.sum, rec.factor, rec.unit, rec.value)
    <3>1. PICK a \in committed : \E r \in RowsOf(a) : rec = RecordOf(r, DocumentId(a))
      BY <2>1 DEF RecordsInv
    <3>2. PICK r \in RowsOf(a) : rec = RecordOf(r, DocumentId(a))
      BY <3>1
    <3>3. rec.sum = r.sum /\ rec.factor = r.factor /\ rec.unit = r.unit /\ rec.value = r.value
      BY <3>2 DEF RecordOf
    <3>4. r.sum = a.file /\ Gives(a.file, r.factor, r.unit, r.value)
      BY <1>1, <2>1
    <3> QED
      BY <3>3, <3>4
  <2> QED
    BY <2>2, <2>3 DEF ValuesAreOfTheirFile
<1> QED
  BY <1>2, BatchInvHolds, PTL

\* The only batches that are refused once they were validated are those with a number that
\* has no room in its column and, in the tables of the families, those of GHG Protocol and
\* IPCC with a factor under two keys and those whose file was committed under another path
\* (validate_normalized_factor_output, _map_row, ensure_source_document).
THEOREM ValidatedStaysStorable == Spec => []ValidatedIsStorable
<1>1. BatchInv => ValidatedIsStorable
  BY DEF BatchInv
<1> QED
  BY <1>1, BatchInvHolds, PTL
=============================================================================
