------------------------ MODULE Phase1Ingestion_proofs ------------------------
(***************************************************************************)
(* Proofs about Phase1Ingestion, for any families, requests, editions,     *)
(* artifacts and rows, and any number of runs.                             *)
(***************************************************************************)
EXTENDS Phase1Ingestion, FiniteSetTheorems, TLAPS

Selection == INSTANCE FoldTheorems WITH Op <- AlsoSelected

-----------------------------------------------------------------------------
(* Types.                                                                   *)

AllRows == UNION {RowsOf[a] : a \in Artifacts}
RowSets == {rows \in SUBSET AllRows : IsFiniteSet(rows)}

FamilyRecords ==
  [status : FamilyStatuses \cup {Absent}, artifacts : Seq(Artifacts), rows : RowSets,
   parsed : BOOLEAN, sourceRuns : Nat, documents : Nat, parserRuns : Nat, masters : Nat,
   details : Nat]

RunRecords ==
  [stage : Stages, id : RunIds \cup {Absent}, request : Requests \cup {Absent},
   selected : Seq(Families), current : FamilyRecords, results : Seq(FamilyRecords),
   status : RunStatuses \cup {Absent}]

WithArtifacts == {"source_run", "documents", "parse", "parser_run", "factors"}

\* What is known of the family a run is at is of the edition it downloaded, and of a run
\* that is over what its results say.
RunIsSound(run) ==
  /\ run \in RunRecords
  /\ run.stage \in {"not_started", "lost"} => run.results = <<>>
  /\ Running(run) => Len(run.results) < Len(run.selected)
  /\ run.stage = "returned" =>
       \/ run.status = "not_executable" /\ run.results = <<>>
       \/ /\ run.status \in RunStatuses \ {"not_executable"}
          /\ Len(run.results) = Len(run.selected)
  /\ \A i \in DOMAIN run.results : run.results[i].status \in FamilyStatuses
  /\ run.stage \in WithArtifacts => run.current.artifacts \in Range(Content[Family(run)])
  /\ run.stage \in {"parser_run", "factors"} => run.current.rows = ParsedRows(run)
  /\ run.current.details = 0

StoreIsSound ==
  /\ DOMAIN store = {"documents", "masters", "details"}
  /\ IsFiniteSet(store.details)

TypeInv ==
  /\ published \in [Families -> Nat]
  /\ \A f \in Families : published[f] \in DOMAIN Content[f]
  /\ lost \in 0..MaxLost
  /\ DOMAIN runs = Runs
  /\ \A n \in Runs : RunIsSound(runs[n])
  /\ StoreIsSound

-----------------------------------------------------------------------------
(* Sequences, selections and records.                                       *)

\* The operators the instance of FoldTheorems speaks of are those of this module.
LEMMA SameOperators ==
  /\ \A S : Selection!IsFiniteSet(S) <=> IsFiniteSet(S)
  /\ \A S : Selection!Cardinality(S) = Cardinality(S)
  /\ \A fun : Selection!SumFunction(fun) = SumFunction(fun)
<1>1. \A S : Selection!IsFiniteSet(S) <=> IsFiniteSet(S)
  BY DEF IsFiniteSet, Selection!IsFiniteSet
<1>2. \A S : Selection!Cardinality(S) = Cardinality(S)
  BY DEF Cardinality, Selection!Cardinality
<1>3. \A fun : Selection!SumFunction(fun) = SumFunction(fun)
  BY DEF SumFunction, SumFunctionOnSet, FoldFunctionOnSet, MapThenFoldSet,
         Selection!SumFunction, Selection!SumFunctionOnSet, Selection!FoldFunctionOnSet,
         Selection!MapThenFoldSet
<1> QED
  BY <1>1, <1>2, <1>3

\* The values on a finite set are finitely many.
LEMMA ImageFinite ==
  ASSUME NEW S, IsFiniteSet(S), NEW fun
  PROVE  IsFiniteSet({fun[x] : x \in S})
<1>1. Selection!IsFiniteSet(S)
  BY SameOperators
<1>2. Selection!IsFiniteSet({fun[x] : x \in S})
  BY <1>1, Selection!ImageFinite, Zenon
<1> QED
  BY <1>2, SameOperators

\* A sequence that is appended to.
LEMMA AppendFacts ==
  ASSUME NEW T, NEW s \in Seq(T), NEW e \in T
  PROVE  /\ Append(s, e) \in Seq(T)
         /\ Len(Append(s, e)) = Len(s) + 1 /\ Len(s) \in Nat
         /\ DOMAIN s = 1..Len(s) /\ DOMAIN Append(s, e) = 1..(Len(s) + 1)
         /\ \A i \in 1..Len(s) : Append(s, e)[i] = s[i]
         /\ Append(s, e)[Len(s) + 1] = e
OBVIOUS

\* A selection is of families, whatever was named.
LEMMA SelectionType ==
  ASSUME NEW names \in Seq(STRING)
  PROVE  SelectedFamilies(names) \in Seq(Families)
<1> DEFINE I == Seq(Families)
<1>1. <<>> \in I
  OBVIOUS
<1>2. \A x \in I, k \in 1..Len(names) : AlsoSelected(x, names[k]) \in I
  BY Phase1Assumption DEF AlsoSelected
<1>3. Len(names) \in Nat /\ DOMAIN names = 1..Len(names)
  OBVIOUS
<1> HIDE DEF I
<1>4. Selection!Fold(<<>>, names) \in I
  BY <1>1, <1>2, <1>3, Selection!FoldInvariant
<1>5. Selection!Fold(<<>>, names) = SelectedFamilies(names)
  BY DEF SelectedFamilies, Selection!Fold, Selection!FoldLeft, FoldLeft,
         MapThenFoldSet, Selection!MapThenFoldSet, Max, Selection!Max
<1> QED
  BY <1>4, <1>5 DEF I

\* A family that has not begun has no rows.
LEMMA NoFamilyYetType == NoFamilyYet \in FamilyRecords /\ NoFamilyYet.details = 0
<1>1. {} \in RowSets
  BY FS_EmptySet DEF RowSets
<1>2. <<>> \in Seq(Artifacts)
  OBVIOUS
<1> QED
  BY <1>1, <1>2 DEF NoFamilyYet, FamilyRecords

\* The rows of an edition are finitely many.
LEMMA RowsType ==
  ASSUME NEW artifacts \in Seq(Artifacts)
  PROVE  UNION {RowsOf[a] : a \in Range(artifacts)} \in RowSets
<1> DEFINE R == Range(artifacts)
           RowsIn == {RowsOf[a] : a \in R}
<1>1. R \subseteq Artifacts
  BY DEF Range
<1>2. IsFiniteSet(R)
  <2>1. IsFiniteSet(1..Len(artifacts)) /\ 1..Len(artifacts) = DOMAIN artifacts
    BY FS_Interval
  <2>2. IsFiniteSet({artifacts[i] : i \in DOMAIN artifacts})
    BY <2>1, ImageFinite, Zenon
  <2> QED
    BY <2>2 DEF Range
<1>3. IsFiniteSet(RowsIn)
  BY <1>2, ImageFinite, Zenon
<1>4. \A T \in RowsIn : IsFiniteSet(T)
  BY <1>1, RowsAssumption
<1>5. IsFiniteSet(UNION RowsIn)
  BY <1>3, <1>4, FS_UNION
<1> QED
  BY <1>1, <1>5 DEF RowSets, AllRows

-----------------------------------------------------------------------------
(* What becomes of a run.                                                   *)

\* A family's result is added to those of the run.
LEMMA Ends ==
  ASSUME NEW run \in RunRecords, Running(run), Len(run.results) < Len(run.selected),
         NEW status \in FamilyStatuses, NEW known \in FamilyRecords,
         NEW result, result = [known EXCEPT !.status = status],
         NEW ended, ended = FamilyEnds(run, status, known)
  PROVE  /\ ended \in RunRecords
         /\ result \in FamilyRecords
         /\ result.status = status /\ result.rows = known.rows /\ result.details = known.details
         /\ ended.id = run.id /\ ended.request = run.request
         /\ ended.selected = run.selected
         /\ ended.results = Append(run.results, result)
         /\ ended.current = NoFamilyYet
         /\ \/ ended.stage = "discover" /\ Len(ended.results) < Len(ended.selected)
            \/ /\ ended.stage = "returned" /\ Len(ended.results) = Len(ended.selected)
               /\ ended.status \in RunStatuses \ {"not_executable"}
<1>1. /\ result \in FamilyRecords
      /\ result.status = status /\ result.rows = known.rows /\ result.details = known.details
  BY DEF FamilyRecords
<1> DEFINE results == Append(run.results, result)
           over == Len(results) = Len(run.selected)
           stage == IF over THEN "returned" ELSE "discover"
           verdict == IF over THEN RunStatus(results) ELSE Absent
<1>2. /\ results \in Seq(FamilyRecords) /\ Len(results) = Len(run.results) + 1
      /\ Len(run.results) \in Nat /\ Len(run.selected) \in Nat
  <2>1. run.results \in Seq(FamilyRecords) /\ run.selected \in Seq(Families)
    BY DEF RunRecords
  <2> QED
    BY <1>1, <2>1, AppendFacts
<1>3. RunStatus(results) \in RunStatuses \ {"not_executable"}
  BY DEF RunStatus, RunStatuses
<1>4. ended = [run EXCEPT !.results = results, !.current = NoFamilyYet, !.stage = stage,
                          !.status = verdict]
  BY DEF FamilyEnds
<1>5. verdict \in RunStatuses \cup {Absent} /\ stage \in Stages
  BY <1>3 DEF Stages
<1>6. /\ over => stage = "returned" /\ verdict = RunStatus(results)
      /\ ~over => stage = "discover" /\ Len(results) < Len(run.selected)
  BY <1>2
<1>7. NoFamilyYet \in FamilyRecords
  BY NoFamilyYetType
<1> HIDE DEF results, stage, verdict
<1>8. /\ ended \in RunRecords
      /\ ended.id = run.id /\ ended.request = run.request
      /\ ended.selected = run.selected
      /\ ended.results = results /\ ended.current = NoFamilyYet
      /\ ended.stage = stage /\ ended.status = verdict
  BY <1>2, <1>4, <1>5, <1>7 DEF RunRecords
<1> QED
  BY <1>1, <1>3, <1>6, <1>8 DEF results

\* A run that is ended this way is sound if it was.
LEMMA EndedIsSound ==
  ASSUME NEW run, RunIsSound(run), Running(run), NEW status \in FamilyStatuses,
         NEW known \in FamilyRecords
  PROVE  RunIsSound(FamilyEnds(run, status, known))
<1> DEFINE ended == FamilyEnds(run, status, known)
           result == [known EXCEPT !.status = status]
<1>1. run \in RunRecords /\ Len(run.results) < Len(run.selected)
  BY DEF RunIsSound
<1>2. /\ ended \in RunRecords
      /\ result \in FamilyRecords /\ result.status = status
      /\ ended.selected = run.selected
      /\ ended.results = Append(run.results, result)
      /\ ended.current = NoFamilyYet
      /\ \/ ended.stage = "discover" /\ Len(ended.results) < Len(ended.selected)
         \/ /\ ended.stage = "returned" /\ Len(ended.results) = Len(ended.selected)
            /\ ended.status \in RunStatuses \ {"not_executable"}
  <2> HIDE DEF ended, result
  <2> QED
    BY <1>1, Ends DEF ended, result
<1> HIDE DEF ended, result
<1>3. \A i \in DOMAIN ended.results : ended.results[i].status \in FamilyStatuses
  <2>1. run.results \in Seq(FamilyRecords)
    BY <1>1 DEF RunRecords
  <2>2. \A i \in DOMAIN run.results : run.results[i].status \in FamilyStatuses
    BY DEF RunIsSound
  <2> QED
    BY <1>2, <2>1, <2>2, AppendFacts
<1>4. ended.current.details = 0
  BY <1>2, NoFamilyYetType
<1>5. Running(ended) => Len(ended.results) < Len(ended.selected)
  BY <1>2 DEF Running
<1>6. ended.stage \in {"discover", "returned"}
  BY <1>2
<1>7. RunIsSound(ended)
  BY <1>2, <1>3, <1>4, <1>5, <1>6 DEF RunIsSound, WithArtifacts
<1> QED
  BY <1>7 DEF ended

\* The family a run is at is one of the families, and has artifacts.
LEMMA FamilyType ==
  ASSUME NEW run, RunIsSound(run), Running(run)
  PROVE  Family(run) \in Families /\ Content[Family(run)] \in Seq(Seq(Artifacts))
<1>1. run.selected \in Seq(Families) /\ run.results \in Seq(FamilyRecords)
  BY DEF RunIsSound, RunRecords
<1>2. Len(run.results) < Len(run.selected)
  BY DEF RunIsSound
<1>3. Family(run) \in Families
  BY <1>1, <1>2 DEF Family
<1> QED
  BY <1>3, ContentAssumption

\* What is fetched is one of the family's editions.
LEMMA FetchedType ==
  ASSUME TypeInv, NEW n \in Runs, Running(runs[n])
  PROVE  Fetched(n) \in Range(Content[Family(runs[n])]) /\ Fetched(n) \in Seq(Artifacts)
<1>1. Family(runs[n]) \in Families /\ Content[Family(runs[n])] \in Seq(Seq(Artifacts))
  BY FamilyType DEF TypeInv
<1>2. published[Family(runs[n])] \in DOMAIN Content[Family(runs[n])]
  BY <1>1 DEF TypeInv
<1> QED
  BY <1>1, <1>2 DEF Fetched, Range

\* A run that goes on to the next stage of its family.
LEMMA MovedIsSound ==
  ASSUME NEW run, RunIsSound(run), Running(run), NEW stage \in Stages, Running([stage |-> stage]),
         NEW current \in FamilyRecords, current.details = 0,
         stage \in WithArtifacts => current.artifacts \in Range(Content[Family(run)]),
         stage \in {"parser_run", "factors"} =>
           current.rows = UNION {RowsOf[a] : a \in Range(current.artifacts)}
  PROVE  RunIsSound([run EXCEPT !.stage = stage, !.current = current])
<1> DEFINE moved == [run EXCEPT !.stage = stage, !.current = current]
<1>1. run \in RunRecords
  BY DEF RunIsSound
<1>2. /\ moved \in RunRecords
      /\ moved.stage = stage /\ moved.current = current
      /\ moved.selected = run.selected /\ moved.results = run.results
  BY <1>1 DEF RunRecords
<1> HIDE DEF moved
<1>3. Family(moved) = Family(run) /\ ParsedRows(moved) = UNION {RowsOf[a] : a \in Range(current.artifacts)}
  BY <1>2 DEF Family, ParsedRows
<1>4. RunIsSound(moved)
  BY <1>2, <1>3 DEF RunIsSound, Running
<1> QED
  BY <1>4 DEF moved

-----------------------------------------------------------------------------
(* The steps of a run.                                                      *)

Continues(n) == \E run : runs' = [runs EXCEPT ![n] = run] /\ RunIsSound(run)

\* A run that is started, or refused for its request.
LEMMA StartIsSound ==
  ASSUME TypeInv, NEW n \in Runs, NEW id \in RunIds, NEW request \in Requests,
         StartRun(n, id, request)
  PROVE  Continues(n)
<1> DEFINE begun == [NotStarted EXCEPT !.id = id, !.request = request,
                                       !.selected = SelectedFamilies(request.names)]
           refused == [begun EXCEPT !.stage = "returned", !.status = "not_executable"]
           accepted == [begun EXCEPT !.stage = "discover"]
<1>1. SelectedFamilies(request.names) \in Seq(Families)
  BY SelectionType, Phase1Assumption
<1>2. NoFamilyYet \in FamilyRecords /\ NoFamilyYet.details = 0
  BY NoFamilyYetType
<1>3. NotStarted \in RunRecords
  <2>1. <<>> \in Seq(FamilyRecords) /\ <<>> \in Seq(Families)
    OBVIOUS
  <2> QED
    BY <1>2, <2>1 DEF RunRecords, NotStarted, Stages
<1>7. /\ begun \in RunRecords /\ begun.selected = SelectedFamilies(request.names)
      /\ begun.results = <<>> /\ begun.current = NoFamilyYet
  <2>1. NotStarted.results = <<>> /\ NotStarted.current = NoFamilyYet
    BY DEF NotStarted
  <2> HIDE DEF NotStarted
  <2> QED
    BY <1>1, <1>3, <2>1 DEF RunRecords
<1> HIDE DEF begun
<1>8. /\ refused \in RunRecords /\ accepted \in RunRecords
      /\ refused.stage = "returned" /\ refused.status = "not_executable"
      /\ accepted.stage = "discover" /\ accepted.selected = begun.selected
      /\ refused.results = <<>> /\ refused.current = NoFamilyYet
      /\ accepted.results = <<>> /\ accepted.current = NoFamilyYet
  <2>1. "returned" \in Stages /\ "discover" \in Stages /\ "not_executable" \in RunStatuses
    BY DEF Stages, RunStatuses
  <2> QED
    BY <1>7, <2>1 DEF RunRecords
<1> HIDE DEF refused, accepted
<1>4. RunIsSound(refused)
  BY <1>2, <1>8 DEF RunIsSound, Running, WithArtifacts
<1>5. ASSUME RequestFailures(request) = {} PROVE RunIsSound(accepted)
  <2>1. SelectedFamilies(request.names) # <<>>
    BY <1>5 DEF RequestFailures, SelectionFailures
  <2>2. Len(SelectedFamilies(request.names)) > 0
    BY <1>1, <2>1
  <2> QED
    BY <1>2, <1>7, <1>8, <2>2 DEF RunIsSound, Running, WithArtifacts
<1>6. runs' = [runs EXCEPT ![n] = IF RequestFailures(request) # {} THEN refused ELSE accepted]
  BY DEF StartRun, begun, refused, accepted
<1> QED
  BY <1>4, <1>5, <1>6 DEF Continues

\* A family that fails where it is.
LEMMA FailureIsSound ==
  ASSUME TypeInv, NEW n \in Runs, Running(runs[n]), NEW status \in FamilyStatuses,
         NEW known \in FamilyRecords, FailsWith(n, status, known)
  PROVE  Continues(n)
<1>1. RunIsSound(runs[n])
  BY DEF TypeInv
<1>2. RunIsSound(FamilyEnds(runs[n], status, known))
  BY <1>1, EndedIsSound
<1> QED
  BY <1>2 DEF Continues, FailsWith, Becomes

\* The stages of a family before its factors.
LEMMA StageIsSound ==
  ASSUME TypeInv, NEW n \in Runs,
         \/ Discover(n) \/ Download(n) \/ RecordSourceRun(n) \/ RecordDocuments(n)
         \/ Parse(n) \/ RecordParserRun(n)
  PROVE  Continues(n)
<1> DEFINE run == runs[n]
           current == run.current
<1>1. RunIsSound(run) /\ run \in RunRecords /\ current \in FamilyRecords /\ current.details = 0
  BY DEF TypeInv, RunIsSound, RunRecords
<1>2. Running(run)
  BY DEF At, Running, Discover, Download, RecordSourceRun, RecordDocuments, Parse,
         RecordParserRun
<1>3. ASSUME NEW stage \in {"discover", "download"} \cup WithArtifacts
      PROVE  stage \in Stages /\ Running([stage |-> stage])
  BY DEF Stages, WithArtifacts, Running
<1>4. CASE Discover(n)
  <2>1. RunIsSound([run EXCEPT !.stage = "download", !.current = current])
    BY <1>1, <1>2, <1>3, MovedIsSound DEF WithArtifacts
  <2>2. [run EXCEPT !.stage = "download"]
          = [run EXCEPT !.stage = "download", !.current = current]
    BY <1>1 DEF RunRecords
  <2> QED
    BY <1>4, <2>1, <2>2 DEF Discover, Becomes, Continues
<1>5. CASE Download(n)
  <2> DEFINE c == [current EXCEPT !.artifacts = Fetched(n)]
  <2>1. Fetched(n) \in Range(Content[Family(run)]) /\ Fetched(n) \in Seq(Artifacts)
    BY <1>2, FetchedType
  <2>2. c \in FamilyRecords /\ c.details = 0 /\ c.artifacts = Fetched(n)
    BY <1>1, <2>1 DEF FamilyRecords
  <2> HIDE DEF c
  <2>3. RunIsSound([run EXCEPT !.stage = "source_run", !.current = c])
    BY <1>1, <1>2, <1>3, <2>1, <2>2, MovedIsSound DEF WithArtifacts
  <2>4. [run EXCEPT !.stage = "source_run", !.current.artifacts = Fetched(n)]
          = [run EXCEPT !.stage = "source_run", !.current = c]
    BY <1>1 DEF RunRecords, c
  <2> QED
    BY <1>5, <2>3, <2>4 DEF Download, Becomes, Continues
<1>9. run.stage = "parser_run" =>
        current.rows = UNION {RowsOf[a] : a \in Range(current.artifacts)}
  BY <1>1 DEF RunIsSound, ParsedRows
<1>6. CASE RecordSourceRun(n)
  <2> DEFINE c == [current EXCEPT !.sourceRuns = 1]
  <2>1. run.stage = "source_run" /\ current.artifacts \in Range(Content[Family(run)])
    BY <1>1, <1>6 DEF RecordSourceRun, At, RunIsSound, WithArtifacts
  <2>2. c \in FamilyRecords /\ c.details = 0 /\ c.artifacts = current.artifacts
    BY <1>1 DEF FamilyRecords
  <2> HIDE DEF c
  <2>3. RunIsSound([run EXCEPT !.stage = "documents", !.current = c])
    BY <1>1, <1>2, <1>3, <2>1, <2>2, <1>9, MovedIsSound DEF WithArtifacts
  <2>4. [run EXCEPT !.stage = "documents", !.current.sourceRuns = 1]
          = [run EXCEPT !.stage = "documents", !.current = c]
    BY <1>1 DEF RunRecords, c
  <2> QED
    BY <1>6, <2>3, <2>4 DEF RecordSourceRun, Becomes, Continues
<1>7. CASE RecordDocuments(n)
  <2> DEFINE c == [current EXCEPT !.documents = Len(current.artifacts)]
  <2>1. run.stage = "documents" /\ current.artifacts \in Range(Content[Family(run)])
    BY <1>1, <1>7 DEF RecordDocuments, At, RunIsSound, WithArtifacts
  <2>5. Len(current.artifacts) \in Nat
    BY <1>1 DEF FamilyRecords
  <2>2. c \in FamilyRecords /\ c.details = 0 /\ c.artifacts = current.artifacts
    BY <1>1, <2>5 DEF FamilyRecords
  <2> HIDE DEF c
  <2>3. RunIsSound([run EXCEPT !.stage = "parse", !.current = c])
    BY <1>1, <1>2, <1>3, <2>1, <2>2, <1>9, MovedIsSound DEF WithArtifacts
  <2>4. [run EXCEPT !.stage = "parse", !.current.documents = Len(current.artifacts)]
          = [run EXCEPT !.stage = "parse", !.current = c]
    BY <1>1 DEF RunRecords, c
  <2> QED
    BY <1>7, <2>3, <2>4 DEF RecordDocuments, Becomes, Continues
<1>8. CASE Parse(n)
  <2> DEFINE c == [current EXCEPT !.parsed = TRUE, !.rows = ParsedRows(run)]
  <2>1. run.stage = "parse" /\ current.artifacts \in Range(Content[Family(run)])
    BY <1>1, <1>8 DEF Parse, At, RunIsSound, WithArtifacts
  <2>5. /\ ParsedRows(run) \in RowSets
        /\ ParsedRows(run) = UNION {RowsOf[a] : a \in Range(current.artifacts)}
    BY <1>1, RowsType DEF FamilyRecords, ParsedRows
  <2>2. c \in FamilyRecords /\ c.details = 0 /\ c.artifacts = current.artifacts
        /\ c.rows = ParsedRows(run)
    BY <1>1, <2>5 DEF FamilyRecords
  <2> HIDE DEF c
  <2>3. RunIsSound([run EXCEPT !.stage = "parser_run", !.current = c])
    BY <1>1, <1>2, <1>3, <2>1, <2>2, <2>5, MovedIsSound DEF WithArtifacts
  <2>4. [run EXCEPT !.stage = "parser_run", !.current.parsed = TRUE, !.current.rows = ParsedRows(run)]
          = [run EXCEPT !.stage = "parser_run", !.current = c]
    BY <1>1 DEF RunRecords, c
  <2> QED
    BY <1>8, <2>3, <2>4 DEF Parse, Becomes, Continues
<1>10. CASE RecordParserRun(n)
  <2> DEFINE c == [current EXCEPT !.parserRuns = 1]
  <2>1. run.stage = "parser_run" /\ current.artifacts \in Range(Content[Family(run)])
    BY <1>1, <1>10 DEF RecordParserRun, At, RunIsSound, WithArtifacts
  <2>2. c \in FamilyRecords /\ c.details = 0 /\ c.artifacts = current.artifacts /\ c.rows = current.rows
    BY <1>1 DEF FamilyRecords
  <2> HIDE DEF c
  <2>3. RunIsSound([run EXCEPT !.stage = "factors", !.current = c])
    BY <1>1, <1>2, <1>3, <2>1, <2>2, <1>9, MovedIsSound DEF WithArtifacts
  <2>4. [run EXCEPT !.stage = "factors", !.current.parserRuns = 1]
          = [run EXCEPT !.stage = "factors", !.current = c]
    BY <1>1 DEF RunRecords, c
  <2> QED
    BY <1>10, <2>3, <2>4 DEF RecordParserRun, Becomes, Continues
<1> QED
  BY <1>4, <1>5, <1>6, <1>7, <1>8, <1>10

\* The factors of the rows at hand are finitely many.
LEMMA BatchIsFinite ==
  ASSUME NEW run \in RunRecords
  PROVE  /\ IsFiniteSet(Batch(run).details) /\ IsFiniteSet(Batch(run).masters)
         /\ IsFiniteSet(run.current.rows)
<1> DEFINE rows == run.current.rows
           document == BatchDocument(run)
           complete == {r \in rows : Complete(r)}
           masters == [r \in complete |-> MasterOf(r, document)]
           details == [r \in complete |-> DetailOf(r, document)]
<1>1. IsFiniteSet(rows)
  BY DEF RunRecords, FamilyRecords, RowSets
<1>2. IsFiniteSet(complete)
  BY <1>1, FS_Subset
<1>3. Batch(run).details = {details[r] : r \in complete}
  BY DEF Batch, Command
<1>4. Batch(run).masters = {masters[r] : r \in complete}
  BY DEF Batch, Command
<1> HIDE DEF complete, masters, details
<1>5. IsFiniteSet({details[r] : r \in complete}) /\ IsFiniteSet({masters[r] : r \in complete})
  BY <1>2, ImageFinite
<1> QED
  BY <1>1, <1>3, <1>4, <1>5

\* A transaction leaves finitely many details.
LEMMA TransactionIsSound ==
  ASSUME StoreIsSound, NEW run \in RunRecords
  PROVE  LET after == Transaction(store, Batch(run)) IN
         /\ DOMAIN after = {"documents", "masters", "details"}
         /\ IsFiniteSet(after.details)
<1>1. IsFiniteSet(NewDetails(store, Batch(run).details))
  BY BatchIsFinite, FS_Subset DEF NewDetails
<1>2. IsFiniteSet(After(store, Batch(run)).details)
  BY <1>1, FS_Union DEF After, StoreIsSound
<1>3. DOMAIN After(store, Batch(run)) = {"documents", "masters", "details"}
  BY DEF After
<1> QED
  BY <1>2, <1>3 DEF Transaction, StoreIsSound

\* What a batch of factors leaves of a run.
LEMMA FactorsAreSound ==
  ASSUME TypeInv, NEW n \in Runs,
         BatchIsNotSent(n) \/ PersistFactors(n) \/ PersistFactorsFails(n)
  PROVE  Continues(n)
<1> DEFINE run == runs[n]
           counts == Persisted(store, Batch(run))
           known == [run.current EXCEPT !.masters = counts.masters, !.details = counts.details]
<1>1. RunIsSound(run) /\ run \in RunRecords /\ run.current \in FamilyRecords
  BY DEF TypeInv, RunIsSound, RunRecords
<1>2. Running(run)
  BY DEF BatchIsNotSent, PersistFactors, PersistFactorsFails, At, Running
<1>3. counts.masters \in Nat /\ counts.details \in Nat
  <2>1. /\ IsFiniteSet(NewMasters(store, Batch(run).masters))
        /\ IsFiniteSet(NewDetails(store, Batch(run).details))
    BY <1>1, BatchIsFinite, FS_Subset DEF NewMasters, NewDetails
  <2> QED
    BY <2>1, FS_CardinalityType DEF Persisted
<1> HIDE DEF counts
<1>4. known \in FamilyRecords
  BY <1>1, <1>3 DEF FamilyRecords
<1> HIDE DEF known
<1>5. \A status \in FamilyStatuses, k \in FamilyRecords : RunIsSound(FamilyEnds(run, status, k))
  BY <1>1, <1>2, EndedIsSound
<1>6. "completed" \in FamilyStatuses /\ "failed_parsed_factor_persistence" \in FamilyStatuses
  BY DEF FamilyStatuses
<1>7. CASE BatchIsNotSent(n)
  BY <1>1, <1>5, <1>6, <1>7 DEF BatchIsNotSent, Becomes, Continues
<1>8. CASE PersistFactors(n)
  <2>1. \/ runs' = [runs EXCEPT ![n] = FamilyEnds(run, "completed", known)]
        \/ runs' = [runs EXCEPT ![n] = FamilyEnds(run, "failed_parsed_factor_persistence", run.current)]
    BY <1>8 DEF PersistFactors, Becomes, known, counts
  <2> QED
    BY <1>1, <1>4, <1>5, <1>6, <2>1 DEF Continues
<1>9. CASE PersistFactorsFails(n)
  BY <1>1, <1>5, <1>6, <1>9 DEF PersistFactorsFails, Becomes, Continues
<1> QED
  BY <1>7, <1>8, <1>9

\* Every step of a run leaves it sound.
LEMMA StepIsSound ==
  ASSUME TypeInv, NEW n \in Runs, RunStep(n)
  PROVE  Continues(n)
<1>1. RunIsSound(runs[n]) /\ runs[n].current \in FamilyRecords
  BY DEF TypeInv, RunIsSound, RunRecords
<1>2. NoFamilyYet \in FamilyRecords
  BY NoFamilyYetType
<1>3. FamilyStatuses = {"completed", "failed_discovery", "failed_download",
         "failed_source_run_persistence", "failed_source_document_persistence",
         "failed_parser", "failed_parser_run_persistence", "failed_parsed_factor_persistence"}
  BY DEF FamilyStatuses
<1>4. CASE \E id \in RunIds, request \in Requests : StartRun(n, id, request)
  BY <1>4, StartIsSound
<1>5. CASE Discover(n) \/ Download(n) \/ RecordSourceRun(n) \/ RecordDocuments(n)
           \/ Parse(n) \/ RecordParserRun(n)
  BY <1>5, StageIsSound
<1>6. CASE DiscoveryFails(n)
  BY <1>2, <1>3, <1>6, FailureIsSound DEF DiscoveryFails, At, Running
<1>7. CASE DownloadFails(n)
  <2>1. Running(runs[n])
    BY <1>7 DEF DownloadFails, At, Running
  <2>2. Fetched(n) \in Seq(Artifacts) /\ <<>> \in Seq(Artifacts)
    BY <2>1, FetchedType
  <2>3. PICK artifacts \in {<<>>, Fetched(n)} :
          FailsWith(n, "failed_download", [NoFamilyYet EXCEPT !.artifacts = artifacts])
    BY <1>7 DEF DownloadFails
  <2>4. [NoFamilyYet EXCEPT !.artifacts = artifacts] \in FamilyRecords
    BY <1>2, <2>2 DEF FamilyRecords
  <2> QED
    BY <1>3, <2>1, <2>3, <2>4, FailureIsSound
<1>8. CASE SourceRunRefused(n)
  BY <1>1, <1>3, <1>8, FailureIsSound DEF SourceRunRefused, At, Running
<1>9. CASE DocumentsRefused(n)
  BY <1>1, <1>3, <1>9, FailureIsSound DEF DocumentsRefused, At, Running
<1>10. CASE ParserFails(n)
  <2>1. PICK parsed \in BOOLEAN :
          FailsWith(n, "failed_parser", [runs[n].current EXCEPT !.parsed = parsed])
    BY <1>10 DEF ParserFails
  <2>2. [runs[n].current EXCEPT !.parsed = parsed] \in FamilyRecords
    BY <1>1 DEF FamilyRecords
  <2>3. Running(runs[n])
    BY <1>10 DEF ParserFails, At, Running
  <2> QED
    BY <1>3, <2>1, <2>2, <2>3, FailureIsSound
<1>11. CASE ParserRunRefused(n)
  BY <1>1, <1>3, <1>11, FailureIsSound DEF ParserRunRefused, At, Running
<1>12. CASE BatchIsNotSent(n) \/ PersistFactors(n) \/ PersistFactorsFails(n)
  BY <1>12, FactorsAreSound
<1>13. CASE RunIsLost(n)
  <2> DEFINE lostRun == [NotStarted EXCEPT !.stage = "lost"]
  <2>1. NotStarted \in RunRecords /\ NotStarted.results = <<>> /\ NotStarted.current = NoFamilyYet
    <3>1. <<>> \in Seq(FamilyRecords) /\ <<>> \in Seq(Families)
      OBVIOUS
    <3> QED
      BY <1>2, <3>1 DEF RunRecords, NotStarted, Stages
  <2>2. /\ lostRun \in RunRecords /\ lostRun.stage = "lost" /\ lostRun.results = <<>>
        /\ lostRun.current = NoFamilyYet
    <3> HIDE DEF NotStarted
    <3> QED
      BY <2>1 DEF RunRecords, Stages
  <2> HIDE DEF lostRun
  <2>3. RunIsSound(lostRun)
    BY <2>2, NoFamilyYetType DEF RunIsSound, Running, WithArtifacts
  <2> QED
    BY <1>13, <2>3 DEF RunIsLost, Becomes, Continues, lostRun
<1> QED
  BY <1>4, <1>5, <1>6, <1>7, <1>8, <1>9, <1>10, <1>11, <1>12, <1>13 DEF RunStep

-----------------------------------------------------------------------------
(* Type correctness.                                                        *)

\* What a step of a run does to the tables.
LEMMA StepOnStore ==
  ASSUME NEW n \in Runs, RunStep(n)
  PROVE  /\ UNCHANGED published
         /\ lost' = lost \/ (lost < MaxLost /\ lost' = lost + 1)
         /\ store' = store \/ store' = Transaction(store, Batch(runs[n]))
BY DEF RunStep, StartRun, Discover, DiscoveryFails, Download, DownloadFails, RecordSourceRun,
       SourceRunRefused, RecordDocuments, DocumentsRefused, Parse, ParserFails, RecordParserRun,
       ParserRunRefused, BatchIsNotSent, PersistFactors, PersistFactorsFails, RunIsLost, FailsWith

\* Every step keeps the types.
LEMMA TypeInvInductive ==
  /\ Phase1Init => TypeInv
  /\ TypeInv /\ [Phase1Next]_phase1Vars => TypeInv'
<1>1. ASSUME Phase1Init PROVE TypeInv
  <2>1. \A n \in Runs : runs[n] = NotStarted
    BY <1>1 DEF Phase1Init
  <2>2. RunIsSound(NotStarted)
    <3>1. <<>> \in Seq(FamilyRecords) /\ <<>> \in Seq(Families)
      OBVIOUS
    <3> QED
      BY <3>1, NoFamilyYetType DEF RunIsSound, RunRecords, NotStarted, Stages, Running,
                                  WithArtifacts
  <2>3. \A f \in Families : published[f] \in DOMAIN Content[f]
    BY <1>1, ContentAssumption DEF Phase1Init
  <2>4. StoreIsSound
    BY <1>1, FS_EmptySet DEF Phase1Init, StoreIsSound, EmptyStore
  <2> QED
    BY <1>1, <2>1, <2>2, <2>3, <2>4, Phase1Assumption DEF TypeInv, Phase1Init
<1>2. ASSUME TypeInv, Phase1Next PROVE TypeInv'
  <2>1. CASE \E n \in Runs : RunStep(n)
    <3>1. PICK n \in Runs : RunStep(n)
      BY <2>1
    <3>2. PICK run : runs' = [runs EXCEPT ![n] = run] /\ RunIsSound(run)
      BY <1>2, <3>1, StepIsSound DEF Continues
    <3>3. DOMAIN runs' = Runs /\ \A m \in Runs : RunIsSound(runs'[m])
      BY <1>2, <3>2 DEF TypeInv
    <3>4. lost' \in 0..MaxLost /\ UNCHANGED published
      BY <1>2, <3>1, StepOnStore, Phase1Assumption DEF TypeInv
    <3>5. StoreIsSound'
      <4>1. runs[n] \in RunRecords
        BY <1>2 DEF TypeInv, RunIsSound
      <4> QED
        BY <1>2, <3>1, <4>1, StepOnStore, TransactionIsSound DEF TypeInv, StoreIsSound
    <3> QED
      BY <1>2, <3>3, <3>4, <3>5 DEF TypeInv
  <2>2. CASE \E f \in Families : Publish(f)
    <3>1. PICK f \in Families : Publish(f)
      BY <2>2
    <3>2. Content[f] \in Seq(Seq(Artifacts)) /\ published[f] \in DOMAIN Content[f]
      BY <1>2, ContentAssumption DEF TypeInv
    <3>3. published[f] + 1 \in DOMAIN Content[f]
      BY <3>1, <3>2 DEF Publish
    <3>4. /\ published' \in [Families -> Nat]
          /\ \A g \in Families : published'[g] \in DOMAIN Content[g]
      BY <1>2, <3>1, <3>2, <3>3 DEF TypeInv, Publish
    <3> QED
      BY <1>2, <3>1, <3>4 DEF TypeInv, Publish, StoreIsSound
  <2> QED
    BY <1>2, <2>1, <2>2 DEF Phase1Next
<1>3. ASSUME TypeInv, UNCHANGED phase1Vars PROVE TypeInv'
  BY <1>3 DEF TypeInv, StoreIsSound, phase1Vars
<1> QED
  BY <1>1, <1>2, <1>3

\* The types always hold.
LEMMA TypeInvHolds == Phase1Spec => []TypeInv
BY TypeInvInductive, PTL DEF Phase1Spec

\* Of two values one of which is one and the other none, the sums are the number of them.
LEMMA EitherCounted ==
  ASSUME NEW n \in Nat, NEW fun, NEW gun, DOMAIN fun = 1..n, DOMAIN gun = 1..n,
         \A i \in 1..n : fun[i] \in Nat /\ gun[i] \in Nat /\ fun[i] + gun[i] = 1
  PROVE  SumFunction(fun) + SumFunction(gun) = n
<1> DEFINE ones == [i \in 1..n |-> 1]
<1>1. Selection!IsFiniteSet(1..n)
  BY FS_Interval, SameOperators
<1>2. \A i \in 1..n : fun[i] \in Nat /\ gun[i] \in Nat /\ ones[i] = fun[i] + gun[i]
  OBVIOUS
<1>3. \A i \in 1..n : ones[i] = 1
  OBVIOUS
<1> HIDE DEF ones
<1>4. Selection!Sum(ones, 1..n) = Selection!Sum(fun, 1..n) + Selection!Sum(gun, 1..n)
  <2> DEFINE D == 1..n
  <2>1. /\ Selection!IsFiniteSet(D)
        /\ \A i \in D : fun[i] \in Nat /\ gun[i] \in Nat /\ ones[i] = fun[i] + gun[i]
    BY <1>1, <1>2
  <2> HIDE DEF D
  <2>2. Selection!Sum(ones, D) = Selection!Sum(fun, D) + Selection!Sum(gun, D)
    BY <2>1, Selection!SumPlus
  <2> QED
    BY <2>2 DEF D
<1>5. Selection!Sum(ones, 1..n) = n
  BY <1>3, Selection!SumOfOnes
<1>6. Selection!Sum(fun, 1..n) = SumFunction(fun) /\ Selection!Sum(gun, 1..n) = SumFunction(gun)
  BY SameOperators DEF Selection!Sum, Selection!SumFunction
<1> QED
  BY <1>4, <1>5, <1>6

\* A family is completed or it is not.
LEMMA CompletedAndFailed ==
  ASSUME NEW run, RunIsSound(run), run.stage = "returned"
  PROVE  Summary(run).completed + Summary(run).failed = Len(run.selected)
<1> DEFINE done == [i \in DOMAIN run.results |->
                      IF run.results[i].status = "completed" THEN 1 ELSE 0]
           rest == [i \in DOMAIN run.results |->
                      IF run.results[i].status = "completed" THEN 0 ELSE 1]
           n == Len(run.results)
<1>1. run.results \in Seq(FamilyRecords) /\ run.selected \in Seq(Families)
  BY DEF RunIsSound, RunRecords
<1>2. n \in Nat /\ DOMAIN run.results = 1..n /\ Len(run.selected) \in Nat
  BY <1>1
<1>3. /\ DOMAIN done = 1..n /\ DOMAIN rest = 1..n
      /\ \A i \in 1..n : done[i] \in Nat /\ rest[i] \in Nat /\ done[i] + rest[i] = 1
  BY <1>2
<1>4. Summary(run).completed = SumFunction(done)
  BY DEF Summary, Total
<1>5. run.status # "not_executable" => Summary(run).failed = SumFunction(rest)
  BY DEF Summary, Total
<1>6. run.status = "not_executable" => Summary(run).failed = Len(run.selected)
  BY DEF Summary
<1> HIDE DEF done, rest
<1>7. SumFunction(done) + SumFunction(rest) = n
  BY <1>2, <1>3, EitherCounted
<1>8. CASE run.status = "not_executable" /\ run.results = <<>>
  <2>1. DOMAIN done = {}
    BY <1>2, <1>3, <1>8
  <2>2. SumFunction(done) = 0
    BY <2>1, Selection!SumNothing, SameOperators
  <2> QED
    BY <1>2, <1>4, <1>6, <1>8, <2>2
<1>9. CASE run.status # "not_executable" /\ n = Len(run.selected)
  BY <1>4, <1>5, <1>7, <1>9
<1> QED
  BY <1>8, <1>9 DEF RunIsSound

\* Every run stays in its types, and one that returns has accounted for every family it
\* selected (_run_source_family, _summary).
THEOREM TypeCorrect == Phase1Spec => []Phase1TypeOK
<1>1. ASSUME TypeInv PROVE Phase1TypeOK
  <2>1. ASSUME NEW n \in Runs
        PROVE  /\ runs[n].stage \in Stages
               /\ \A i \in DOMAIN runs[n].results : runs[n].results[i].status \in FamilyStatuses
               /\ runs[n].stage = "returned" =>
                    /\ runs[n].status \in RunStatuses
                    /\ Summary(runs[n]).completed + Summary(runs[n]).failed
                         = Len(runs[n].selected)
    <3>1. RunIsSound(runs[n]) /\ runs[n] \in RunRecords
      BY <1>1 DEF TypeInv, RunIsSound
    <3>2. runs[n].stage = "returned" => runs[n].status \in RunStatuses
      BY <3>1 DEF RunIsSound, RunStatuses
    <3> QED
      BY <3>1, <3>2, CompletedAndFailed DEF RunIsSound, RunRecords
  <2> QED
    BY <1>1, <2>1 DEF TypeInv, StoreIsSound, Phase1TypeOK
<1> QED
  BY <1>1, TypeInvHolds, PTL

-----------------------------------------------------------------------------
(* The tables.                                                              *)

StoredIn(s, row) ==
  \E d \in s.details :
    /\ d.master = MasterOf(row, Absent).id /\ d.key = DetailKey(row)
    /\ row.family \notin PerFactor => d.value = row.value

WholeIn(s) ==
  \A a \in Artifacts : \A row \in RowsOf[a] :
    (\E d \in s.documents : d.family = row.family /\ d.uri = a.uri /\ d.sum = a.sum)
      => StoredIn(s, row)

\* A detail is one of a row of some artifact.
DetailsAreOfRows(s) == \A d \in s.details : \E row \in AllRows : d = DetailOf(row, Absent)

\* The rows of a run that stores factors are all those of artifacts of its family.
LEMMA RowsAtHand ==
  ASSUME NEW run, RunIsSound(run), run.stage = "factors"
  PROVE  /\ run.current.rows \subseteq AllRows
         /\ \A row \in run.current.rows :
              /\ row.family = Family(run)
              /\ \E a \in Range(run.current.artifacts) :
                   a \in Artifacts /\ row \in RowsOf[a] /\ RowsOf[a] \subseteq run.current.rows
<1>1. /\ run.current.artifacts \in Range(Content[Family(run)])
      /\ run.current.rows = UNION {RowsOf[a] : a \in Range(run.current.artifacts)}
  BY DEF RunIsSound, WithArtifacts, ParsedRows
<1>2. Family(run) \in Families
  BY FamilyType DEF Running
<1>3. Range(run.current.artifacts) \subseteq Artifacts
  <2>1. run.current.artifacts \in Seq(Artifacts)
    BY DEF RunIsSound, RunRecords, FamilyRecords
  <2> QED
    BY <2>1 DEF Range
<1>4. \A a \in Range(run.current.artifacts), row \in AllRows :
        row \in RowsOf[a] => row.family = Family(run)
  BY <1>1, <1>2, ContentAssumption
<1> QED
  BY <1>1, <1>3, <1>4 DEF AllRows

\* A batch without an issue has complete rows, and one detail for each key.
LEMMA CleanBatch ==
  ASSUME NEW rows, NEW document, CommandIssues(rows, document) = {}
  PROVE  /\ rows # {} /\ \A r \in rows : Complete(r)
         /\ \A d, e \in {DetailOf(r, document) : r \in rows} :
              d.master = e.master /\ d.key = e.key => d = e
<1>1. rows # {}
  BY DEF CommandIssues, NoRecords
<1> DEFINE issues == CommandIssues(rows, document)
           details == {DetailOf(r, document) : r \in rows}
<1>2. (\E r \in rows : ~Complete(r)) => "missing_required_field" \in issues
  BY <1>1 DEF CommandIssues
<1>3. (\E d, e \in details : d.master = e.master /\ d.key = e.key /\ d # e)
        => "detail_conflict" \in issues
  BY <1>1 DEF CommandIssues
<1> QED
  BY <1>1, <1>2, <1>3

\* What of a detail does not depend on its document.
LEMMA DetailOfRow ==
  ASSUME NEW row, NEW document
  PROVE  /\ DetailOf(row, document) = DetailOf(row, Absent)
         /\ DetailOf(row, document).master = MasterOf(row, Absent).id
         /\ DetailOf(row, document).key = DetailKey(row)
         /\ DetailOf(row, document).value = row.value
BY DEF DetailOf, MasterOf

\* Rows that belong to one master of a family whose masters are artifacts are of one
\* artifact.
LEMMA SameArtifact ==
  ASSUME NEW a \in Artifacts, NEW row \in RowsOf[a], NEW b \in Artifacts, NEW other \in RowsOf[b],
         row.family \notin PerFactor,
         MasterOf(row, Absent).id = MasterOf(other, Absent).id
  PROVE  RowsOf[a] = RowsOf[b]
<1>1. row.family = other.family /\ ExternalKey(row) = ExternalKey(other)
  BY DEF MasterOf
<1>2. row.uri = other.uri /\ row.sum = other.sum
  BY <1>1 DEF ExternalKey
<1>3. a.uri = b.uri /\ a.sum = b.sum
  BY <1>2, RowsAssumption
<1> QED
  BY <1>1, <1>3, RowsAssumption

\* What an accepted batch leaves in the tables has every row of the batch, with its value
\* where a master is an artifact: a row that was there under the same key came from the same
\* artifact, and the batch has one detail for each key.
LEMMA BatchIsStored ==
  ASSUME NEW s, DetailsAreOfRows(s), NEW run, RunIsSound(run), run.stage = "factors",
         Batch(run).issues = {}
  PROVE  \A row \in run.current.rows : StoredIn(After(s, Batch(run)), row)
<1> DEFINE rows == run.current.rows
           document == BatchDocument(run)
           batch == {DetailOf(r, document) : r \in rows}
           after == After(s, Batch(run))
<1>1. /\ \A r \in rows : Complete(r)
      /\ \A d, e \in batch : d.master = e.master /\ d.key = e.key => d = e
  BY CleanBatch DEF Batch, Command
<1>2. Batch(run).details = batch
  BY <1>1 DEF Batch, Command
<1>3. after.details = s.details \cup NewDetails(s, batch)
  BY <1>2 DEF After
<1> SUFFICES ASSUME NEW row \in rows PROVE StoredIn(after, row)
  OBVIOUS
<1> DEFINE d == DetailOf(row, document)
<1>4. d \in batch
  OBVIOUS
<1>5. /\ d.master = MasterOf(row, Absent).id /\ d.key = DetailKey(row) /\ d.value = row.value
  BY DetailOfRow
<1> HIDE DEF d, batch, after
<1>6. CASE d \in NewDetails(s, batch)
  BY <1>3, <1>5, <1>6 DEF StoredIn
<1>7. CASE d \notin NewDetails(s, batch)
  <2>1. PICK e \in s.details : e.master = d.master /\ e.key = d.key
    BY <1>4, <1>7 DEF NewDetails, SameDetail
  <2>2. ASSUME row.family \notin PerFactor PROVE e.value = row.value
    <3>1. PICK other \in AllRows : e = DetailOf(other, Absent)
      BY DEF DetailsAreOfRows
    <3>2. MasterOf(other, Absent).id = MasterOf(row, Absent).id
      BY <1>5, <2>1, <3>1, DetailOfRow
    <3>3. PICK b \in Artifacts : other \in RowsOf[b]
      BY DEF AllRows
    <3>4. PICK a \in Artifacts : row \in RowsOf[a] /\ RowsOf[a] \subseteq rows
      BY RowsAtHand
    <3>5. RowsOf[a] = RowsOf[b]
      BY <2>2, <3>2, <3>3, <3>4, SameArtifact
    <3>6. e \in batch
      BY <3>1, <3>3, <3>4, <3>5, DetailOfRow DEF batch
    <3>7. e = d
      BY <1>1, <1>4, <2>1, <3>6
    <3> QED
      BY <1>5, <3>7
  <2> QED
    BY <1>3, <1>5, <2>1, <2>2 DEF StoredIn
<1> QED
  BY <1>6, <1>7

TablesAreSound(s) == KeysHold(s) /\ DetailsAreOfRows(s) /\ WholeIn(s)

\* A transaction that goes through keeps the tables sound.
LEMMA AfterIsSound ==
  ASSUME NEW s, TablesAreSound(s), NEW run, RunIsSound(run), run.stage = "factors",
         Batch(run).issues = {}, Accepts(s, Batch(run))
  PROVE  TablesAreSound(After(s, Batch(run)))
<1> DEFINE rows == run.current.rows
           document == BatchDocument(run)
           after == After(s, Batch(run))
<1>1. KeysHold(after)
  BY DEF Accepts
<1>2. DetailsAreOfRows(after)
  <2>1. \A r \in rows : r \in AllRows /\ DetailOf(r, document) = DetailOf(r, Absent)
    BY RowsAtHand, DetailOfRow
  <2>2. \A d \in Batch(run).details : \E r \in rows : d = DetailOf(r, document)
    BY DEF Batch, Command
  <2>3. \A d \in after.details : d \in s.details \/ d \in Batch(run).details
    BY DEF After, NewDetails
  <2> HIDE DEF rows, document, after
  <2> QED
    BY <2>1, <2>2, <2>3 DEF TablesAreSound, DetailsAreOfRows
<1>3. WholeIn(after)
  <2> SUFFICES ASSUME NEW a \in Artifacts, NEW row \in RowsOf[a], NEW d \in after.documents,
                      d.family = row.family, d.uri = a.uri, d.sum = a.sum
               PROVE  StoredIn(after, row)
    BY DEF WholeIn
  <2>1. CASE d \in s.documents
    <3>1. StoredIn(s, row)
      BY <2>1 DEF TablesAreSound, WholeIn
    <3>2. s.details \subseteq after.details
      BY DEF After
    <3> QED
      BY <3>1, <3>2 DEF StoredIn
  <2>2. CASE d \notin s.documents
    <3>1. PICK m \in Batch(run).masters : d = DocumentOf(m)
      BY <2>2 DEF After, NewDocuments
    <3>2. PICK other \in rows : m = MasterOf(other, document)
      BY DEF Batch, Command
    <3>3. other.family = row.family /\ other.uri = a.uri /\ other.sum = a.sum
      BY <3>1, <3>2 DEF DocumentOf, MasterOf
    <3>4. PICK b \in Artifacts : other \in RowsOf[b] /\ RowsOf[b] \subseteq rows
      BY RowsAtHand
    <3>5. b.uri = a.uri /\ b.sum = a.sum
      BY <3>3, <3>4, RowsAssumption
    <3>6. RowsOf[a] = RowsOf[b]
      BY <3>3, <3>4, <3>5, RowsAssumption
    <3>7. row \in rows
      BY <3>4, <3>6
    <3> QED
      BY <3>7, BatchIsStored DEF TablesAreSound
  <2> QED
    BY <2>1, <2>2
<1> QED
  BY <1>1, <1>2, <1>3 DEF TablesAreSound

\* A new master is of an artifact whose document is new: the rows of an artifact that was
\* there are stored, and they have their masters.
LEMMA NewMasterNewDocument ==
  ASSUME NEW s, TablesAreSound(s), NEW run, RunIsSound(run), run.stage = "factors",
         Batch(run).issues = {}, Accepts(s, Batch(run)),
         NEW m \in NewMasters(s, Batch(run).masters)
  PROVE  DocumentOf(m) \in NewDocuments(s, Batch(run).masters)
<1> DEFINE after == After(s, Batch(run))
           document == BatchDocument(run)
<1>1. m \in Batch(run).masters
  BY DEF NewMasters
<1> SUFFICES ASSUME NEW e \in s.documents, SameDocument(DocumentOf(m), e) PROVE FALSE
  BY <1>1 DEF NewDocuments
<1>2. PICK row \in run.current.rows : m = MasterOf(row, document)
  BY <1>1 DEF Batch, Command
<1>3. e.family = row.family /\ e.uri = row.uri /\ e.sum = row.sum
  BY <1>2 DEF SameDocument, DocumentOf, MasterOf
<1>4. PICK a \in Artifacts : row \in RowsOf[a]
  BY RowsAtHand
<1>5. StoredIn(s, row)
  <2>1. e.uri = a.uri /\ e.sum = a.sum
    BY <1>3, <1>4, RowsAssumption
  <2> QED
    BY <1>3, <1>4, <2>1 DEF TablesAreSound, WholeIn
<1>6. PICK n \in s.masters : n.id = m.id
  <2>1. MasterOf(row, Absent).id = m.id
    BY <1>2 DEF MasterOf
  <2> QED
    BY <1>5, <2>1 DEF StoredIn, TablesAreSound, KeysHold
<1>7. m \in after.masters /\ n \in after.masters
  BY DEF After
<1>8. m = n
  BY <1>6, <1>7 DEF Accepts, KeysHold, UniqueIds
<1> QED
  BY <1>8 DEF NewMasters, SameMaster

-----------------------------------------------------------------------------
(* Where the rows in the tables come from.                                  *)

ProvenIn(s, records) ==
  \A m \in s.masters :
    /\ \E d \in s.documents :
         d.id = <<m.family, m.document>> /\ d.uri = m.uri /\ d.sum = m.sum
    /\ {<<"source_run", m.document[1], m.family>>, <<"parser_run", m.document[1], m.family>>}
         \subseteq records
    /\ \E r \in records : r[1] = "document" /\ r[2] = m.document

\* A run has recorded what comes before the stage it is at.
RunIsRecorded(run, records) ==
  /\ run.stage \in {"documents", "parse", "parser_run", "factors"} =>
       <<"source_run", run.id, Family(run)>> \in records
  /\ run.stage \in {"parse", "parser_run", "factors"} => SourceDocumentRecords(run) \subseteq records
  /\ run.stage = "factors" => <<"parser_run", run.id, Family(run)>> \in records

\* A batch that is committed leaves every master with its document and its recorded runs.
LEMMA AfterIsProven ==
  ASSUME NEW s, TablesAreSound(s), NEW records, ProvenIn(s, records),
         NEW run, RunIsSound(run), run.stage = "factors", RunIsRecorded(run, records),
         Batch(run).issues = {}, Accepts(s, Batch(run))
  PROVE  ProvenIn(After(s, Batch(run)), records)
<1> DEFINE after == After(s, Batch(run))
           artifacts == run.current.artifacts
<1> SUFFICES ASSUME NEW m \in after.masters
             PROVE  /\ \E d \in after.documents :
                         d.id = <<m.family, m.document>> /\ d.uri = m.uri /\ d.sum = m.sum
                    /\ <<"source_run", m.document[1], m.family>> \in records
                    /\ <<"parser_run", m.document[1], m.family>> \in records
                    /\ \E r \in records : r[1] = "document" /\ r[2] = m.document
  BY DEF ProvenIn
<1>1. CASE m \in s.masters
  BY <1>1 DEF ProvenIn, After
<1>2. CASE m \notin s.masters
  <2>1. m \in NewMasters(s, Batch(run).masters)
    BY <1>2 DEF After
  <2>2. DocumentOf(m) \in after.documents
    BY <2>1, NewMasterNewDocument DEF After
  <2>3. PICK row \in run.current.rows : m = MasterOf(row, BatchDocument(run))
    BY <2>1 DEF NewMasters, Batch, Command
  <2>4. artifacts \in Seq(Artifacts) /\ artifacts # <<>>
    <3>1. artifacts \in Seq(Artifacts)
      BY DEF RunIsSound, RunRecords, FamilyRecords
    <3>2. PICK a \in Range(artifacts) : TRUE
      BY <2>3, RowsAtHand
    <3> QED
      BY <3>1, <3>2 DEF Range
  <2>5. artifacts[1] \in Range(artifacts)
    BY <2>4 DEF Range
  <2>6. m.document = DocumentId(run, artifacts[1]) /\ m.family = Family(run)
    BY <2>3, <2>4, RowsAtHand DEF MasterOf, BatchDocument
  <2>7. m.document[1] = run.id
    BY <2>6 DEF DocumentId
  <2>8. <<"document", m.document, artifacts[1].uri, artifacts[1].sum>> \in records
    BY <2>5, <2>6 DEF RunIsRecorded, SourceDocumentRecords
  <2> QED
    BY <2>2, <2>6, <2>7, <2>8 DEF RunIsRecorded, DocumentOf
<1> QED
  BY <1>1, <1>2

-----------------------------------------------------------------------------
(* What a step adds to the results and to the tables.                       *)

\* The steps that tell apart what a run's result says and what becomes of the tables.
GoesOn(n) == /\ runs'[n].results = runs[n].results
             /\ UNCHANGED <<store, lost>>
IsLost(n) == /\ runs'[n].results = <<>> /\ lost' = lost + 1 /\ UNCHANGED store
Fails(n, result) == /\ result.status # "completed" /\ result.details = 0
                    /\ \/ UNCHANGED <<store, lost>>
                       \/ /\ runs[n].stage = "factors" /\ Batch(runs[n]).issues = {}
                          /\ lost' = lost + 1
                          /\ store' \in {store, Transaction(store, Batch(runs[n]))}
HasNothing(result) == /\ result.rows = {} /\ result.details = 0
                      /\ UNCHANGED <<store, lost>>
Stores(n, result) == /\ runs[n].stage = "factors" /\ Batch(runs[n]).issues = {}
                     /\ Accepts(store, Batch(runs[n]))
                     /\ store' = After(store, Batch(runs[n])) /\ UNCHANGED lost
                     /\ result.rows = runs[n].current.rows
                     /\ result.details = Cardinality(NewDetails(store, Batch(runs[n]).details))

\* A family that ends has its result, with the status and what was known of it.
LEMMA EndedResult ==
  ASSUME TypeInv, NEW n \in Runs, Running(runs[n]), NEW status \in FamilyStatuses,
         NEW known \in FamilyRecords, Becomes(n, FamilyEnds(runs[n], status, known))
  PROVE  \E result \in FamilyRecords :
           /\ runs'[n].results = Append(runs[n].results, result)
           /\ runs'[n].stage \in {"discover", "returned"}
           /\ result.status = status /\ result.rows = known.rows
           /\ result.details = known.details
<1> DEFINE ended == FamilyEnds(runs[n], status, known)
           result == [known EXCEPT !.status = status]
<1>1. /\ runs[n] \in RunRecords /\ Len(runs[n].results) < Len(runs[n].selected)
      /\ runs'[n] = ended
  BY DEF TypeInv, RunIsSound, Becomes
<1> HIDE DEF ended, result
<1>2. /\ result \in FamilyRecords
      /\ result.status = status /\ result.rows = known.rows /\ result.details = known.details
      /\ ended.results = Append(runs[n].results, result)
      /\ ended.stage \in {"discover", "returned"}
  BY <1>1, Ends DEF ended, result
<1> QED
  BY <1>1, <1>2

\* A family that fails has one more result, and nothing is stored.
LEMMA FailedResult ==
  ASSUME TypeInv, NEW n \in Runs, Running(runs[n]), NEW status \in FamilyStatuses \ {"completed"},
         NEW known \in FamilyRecords, known.details = 0, FailsWith(n, status, known)
  PROVE  \E result \in FamilyRecords :
           /\ runs'[n].results = Append(runs[n].results, result)
           /\ runs'[n].stage \in {"discover", "returned"}
           /\ Fails(n, result)
<1>1. Becomes(n, FamilyEnds(runs[n], status, known)) /\ UNCHANGED <<store, lost>>
  BY DEF FailsWith
<1>2. PICK result \in FamilyRecords :
        /\ runs'[n].results = Append(runs[n].results, result)
        /\ runs'[n].stage \in {"discover", "returned"}
        /\ result.status = status /\ result.details = known.details
  BY <1>1, EndedResult
<1> QED
  BY <1>1, <1>2 DEF Fails

\* A family that ends: it fails, has nothing to store, or stores its rows.
FamilyIsOver(n) ==
  \E result \in FamilyRecords :
    /\ runs'[n].results = Append(runs[n].results, result)
    /\ runs'[n].stage \in {"discover", "returned"}
    /\ Fails(n, result) \/ HasNothing(result) \/ Stores(n, result)

\* Each way a family fails before its rows are persisted.
LEMMA FailureResults ==
  ASSUME TypeInv, NEW n \in Runs,
         \/ DiscoveryFails(n) \/ DownloadFails(n) \/ SourceRunRefused(n)
         \/ DocumentsRefused(n) \/ ParserFails(n) \/ ParserRunRefused(n)
  PROVE  FamilyIsOver(n)
<1>1. runs[n].current \in FamilyRecords /\ runs[n].current.details = 0
  BY DEF TypeInv, RunIsSound, RunRecords
<1>2. NoFamilyYet \in FamilyRecords /\ NoFamilyYet.details = 0
  BY NoFamilyYetType
<1>3. Running(runs[n])
  BY DEF DiscoveryFails, DownloadFails, SourceRunRefused, DocumentsRefused, ParserFails,
         ParserRunRefused, At, Running
<1>4. ASSUME NEW status \in FamilyStatuses \ {"completed"}, NEW known \in FamilyRecords,
             known.details = 0, FailsWith(n, status, known)
      PROVE  FamilyIsOver(n)
  BY <1>3, <1>4, FailedResult DEF FamilyIsOver
<1>5. FamilyStatuses \ {"completed"} = {"failed_discovery", "failed_download",
         "failed_source_run_persistence", "failed_source_document_persistence",
         "failed_parser", "failed_parser_run_persistence", "failed_parsed_factor_persistence"}
  BY DEF FamilyStatuses
<1>6. CASE DiscoveryFails(n)
  BY <1>2, <1>4, <1>5, <1>6 DEF DiscoveryFails
<1>7. CASE DownloadFails(n)
  <2>1. Fetched(n) \in Seq(Artifacts) /\ <<>> \in Seq(Artifacts)
    BY <1>3, FetchedType
  <2>2. PICK artifacts \in {<<>>, Fetched(n)} :
          FailsWith(n, "failed_download", [NoFamilyYet EXCEPT !.artifacts = artifacts])
    BY <1>7 DEF DownloadFails
  <2> DEFINE known == [NoFamilyYet EXCEPT !.artifacts = artifacts]
  <2>3. known \in FamilyRecords /\ known.details = 0
    BY <1>2, <2>1 DEF FamilyRecords
  <2> HIDE DEF known
  <2> QED
    BY <1>4, <1>5, <2>2, <2>3 DEF known
<1>8. CASE SourceRunRefused(n) \/ DocumentsRefused(n) \/ ParserRunRefused(n)
  BY <1>1, <1>4, <1>5, <1>8 DEF SourceRunRefused, DocumentsRefused, ParserRunRefused
<1>9. CASE ParserFails(n)
  <2>1. PICK parsed \in BOOLEAN :
          FailsWith(n, "failed_parser", [runs[n].current EXCEPT !.parsed = parsed])
    BY <1>9 DEF ParserFails
  <2> DEFINE known == [runs[n].current EXCEPT !.parsed = parsed]
  <2>2. known \in FamilyRecords /\ known.details = 0
    BY <1>1 DEF FamilyRecords
  <2> HIDE DEF known
  <2> QED
    BY <1>4, <1>5, <2>1, <2>2 DEF known
<1> QED
  BY <1>6, <1>7, <1>8, <1>9

\* Each way a family ends at the persistence of its rows.
LEMMA FactorResults ==
  ASSUME TypeInv, NEW n \in Runs,
         BatchIsNotSent(n) \/ PersistFactors(n) \/ PersistFactorsFails(n)
  PROVE  FamilyIsOver(n)
<1> DEFINE run == runs[n]
           counts == Persisted(store, Batch(run))
           known == [run.current EXCEPT !.masters = counts.masters, !.details = counts.details]
           failed == "failed_parsed_factor_persistence"
           End(status, k) == Becomes(n, FamilyEnds(run, status, k))
<1>1. run.current \in FamilyRecords /\ run.current.details = 0 /\ run \in RunRecords
  BY DEF TypeInv, RunIsSound, RunRecords
<1>2. Running(run) /\ run.stage = "factors"
  BY DEF BatchIsNotSent, PersistFactors, PersistFactorsFails, At, Running
<1>3. "completed" \in FamilyStatuses /\ failed \in FamilyStatuses /\ failed # "completed"
  BY DEF FamilyStatuses
<1>4. ASSUME NEW status \in FamilyStatuses, NEW k \in FamilyRecords, End(status, k)
      PROVE  \E result \in FamilyRecords :
               /\ runs'[n].results = Append(run.results, result)
               /\ runs'[n].stage \in {"discover", "returned"}
               /\ result.status = status /\ result.rows = k.rows /\ result.details = k.details
  BY <1>2, <1>4, EndedResult
<1>5. CASE BatchIsNotSent(n)
  <2>1. CASE End("completed", run.current) /\ Batch(run).issues = NoRecords
    <3>1. run.current.rows = {}
      BY <2>1 DEF Batch, Command, CommandIssues, NoRecords
    <3> QED
      BY <1>1, <1>3, <1>4, <1>5, <2>1, <3>1 DEF FamilyIsOver, HasNothing, BatchIsNotSent
  <2>2. CASE End(failed, run.current)
    BY <1>1, <1>3, <1>4, <1>5, <2>2 DEF FamilyIsOver, Fails, BatchIsNotSent
  <2> QED
    BY <1>5, <2>1, <2>2 DEF BatchIsNotSent
<1>6. CASE PersistFactors(n)
  <2>1. CASE Accepts(store, Batch(run))
    <3>1. counts.masters \in Nat /\ counts.details \in Nat
      <4>1. /\ IsFiniteSet(NewMasters(store, Batch(run).masters))
            /\ IsFiniteSet(NewDetails(store, Batch(run).details))
        BY <1>1, BatchIsFinite, FS_Subset DEF NewMasters, NewDetails
      <4> QED
        BY <4>1, FS_CardinalityType DEF Persisted
    <3>2. counts.details = Cardinality(NewDetails(store, Batch(run).details))
      BY DEF Persisted
    <3> HIDE DEF counts
    <3>3. known \in FamilyRecords /\ known.rows = run.current.rows /\ known.details = counts.details
      BY <1>1, <3>1 DEF FamilyRecords
    <3>4. End("completed", known)
      BY <1>6, <2>1 DEF PersistFactors, known, counts
    <3> HIDE DEF known
    <3>5. PICK result \in FamilyRecords :
               /\ runs'[n].results = Append(run.results, result)
               /\ runs'[n].stage \in {"discover", "returned"}
               /\ result.rows = run.current.rows /\ result.details = counts.details
      BY <1>3, <1>4, <3>3, <3>4
    <3>6. store' = After(store, Batch(run)) /\ UNCHANGED lost /\ Batch(run).issues = {}
      BY <1>6, <2>1 DEF PersistFactors, Transaction
    <3> QED
      BY <1>2, <2>1, <3>2, <3>5, <3>6 DEF FamilyIsOver, Stores
  <2>2. CASE ~Accepts(store, Batch(run))
    <3>1. End(failed, run.current)
      BY <1>6, <2>2 DEF PersistFactors
    <3>2. UNCHANGED <<store, lost>>
      BY <1>6, <2>2 DEF PersistFactors, Transaction
    <3> QED
      BY <1>1, <1>3, <1>4, <3>1, <3>2 DEF FamilyIsOver, Fails
  <2> QED
    BY <2>1, <2>2
<1>7. CASE PersistFactorsFails(n)
  <2>1. End(failed, run.current)
    BY <1>7 DEF PersistFactorsFails
  <2> QED
    BY <1>1, <1>2, <1>3, <1>4, <1>7, <2>1 DEF FamilyIsOver, Fails, PersistFactorsFails
<1> QED
  BY <1>5, <1>6, <1>7

\* A family that goes on: the results stay, and so does what was downloaded.
LEMMA StageFields ==
  ASSUME TypeInv, NEW n \in Runs,
         \/ Discover(n) \/ Download(n) \/ RecordSourceRun(n) \/ RecordDocuments(n)
         \/ Parse(n) \/ RecordParserRun(n)
  PROVE  /\ runs'[n].id = runs[n].id /\ runs'[n].selected = runs[n].selected
         /\ runs'[n].results = runs[n].results
         /\ ~Download(n) => runs'[n].current.artifacts = runs[n].current.artifacts
         /\ \/ Discover(n) /\ runs'[n].stage = "download"
            \/ Download(n) /\ runs'[n].stage = "source_run"
            \/ RecordSourceRun(n) /\ runs'[n].stage = "documents"
            \/ RecordDocuments(n) /\ runs'[n].stage = "parse"
            \/ Parse(n) /\ runs'[n].stage = "parser_run"
            \/ RecordParserRun(n) /\ runs'[n].stage = "factors"
<1> DEFINE run == runs[n]
<1>1. run \in RunRecords /\ run.current \in FamilyRecords /\ DOMAIN runs = Runs
  BY DEF TypeInv, RunIsSound, RunRecords
<1>2. CASE Discover(n)
  <2>1. runs'[n] = [run EXCEPT !.stage = "download"]
    BY <1>1, <1>2 DEF Discover, Becomes
  <2> QED
    BY <1>1, <1>2, <2>1 DEF RunRecords
<1>3. CASE Download(n)
  <2>1. runs'[n] = [run EXCEPT !.stage = "source_run", !.current.artifacts = Fetched(n)]
    BY <1>1, <1>3 DEF Download, Becomes
  <2> QED
    BY <1>1, <1>3, <2>1 DEF RunRecords
<1>4. CASE RecordSourceRun(n)
  <2>1. runs'[n] = [run EXCEPT !.stage = "documents", !.current.sourceRuns = 1]
    BY <1>1, <1>4 DEF RecordSourceRun, Becomes
  <2> QED
    BY <1>1, <1>4, <2>1 DEF RunRecords, FamilyRecords
<1>5. CASE RecordDocuments(n)
  <2>1. runs'[n] = [run EXCEPT !.stage = "parse",
                               !.current.documents = Len(run.current.artifacts)]
    BY <1>1, <1>5 DEF RecordDocuments, Becomes
  <2> QED
    BY <1>1, <1>5, <2>1 DEF RunRecords, FamilyRecords
<1>6. CASE Parse(n)
  <2> DEFINE c == [run.current EXCEPT !.parsed = TRUE, !.rows = ParsedRows(run)]
  <2>1. runs'[n] = [run EXCEPT !.stage = "parser_run", !.current.parsed = TRUE,
                               !.current.rows = ParsedRows(run)]
    BY <1>1, <1>6 DEF Parse, Becomes
  <2>2. runs'[n] = [run EXCEPT !.stage = "parser_run", !.current = c]
    BY <1>1, <2>1 DEF RunRecords
  <2>3. c.artifacts = run.current.artifacts
    BY <1>1 DEF FamilyRecords
  <2> HIDE DEF c
  <2> QED
    BY <1>1, <1>6, <2>2, <2>3 DEF RunRecords
<1>7. CASE RecordParserRun(n)
  <2>1. runs'[n] = [run EXCEPT !.stage = "factors", !.current.parserRuns = 1]
    BY <1>1, <1>7 DEF RecordParserRun, Becomes
  <2> QED
    BY <1>1, <1>7, <2>1 DEF RunRecords, FamilyRecords
<1> QED
  BY <1>2, <1>3, <1>4, <1>5, <1>6, <1>7

\* Every step of a run changes its own run, and is of one of these kinds.
LEMMA StepResults ==
  ASSUME TypeInv, NEW n \in Runs, RunStep(n)
  PROVE  /\ DOMAIN runs' = Runs /\ \A m \in Runs \ {n} : runs'[m] = runs[m]
         /\ GoesOn(n) \/ IsLost(n) \/ FamilyIsOver(n)
<1>1. DOMAIN runs' = Runs /\ \A m \in Runs \ {n} : runs'[m] = runs[m]
  BY StepIsSound DEF Continues, TypeInv
<1>2. CASE \E id \in RunIds, request \in Requests : StartRun(n, id, request)
  <2>1. PICK id \in RunIds, request \in Requests : StartRun(n, id, request)
    BY <1>2
  <2>2. runs[n].results = <<>> /\ runs[n] \in RunRecords
    BY <2>1 DEF StartRun, TypeInv, RunIsSound
  <2> DEFINE begun == [NotStarted EXCEPT !.id = id, !.request = request,
                                         !.selected = SelectedFamilies(request.names)]
             refused == [begun EXCEPT !.stage = "returned", !.status = "not_executable"]
             accepted == [begun EXCEPT !.stage = "discover"]
  <2>3. begun.results = <<>>
    BY DEF NotStarted
  <2>4. refused.results = begun.results /\ accepted.results = begun.results
    BY DEF NotStarted
  <2>5. runs'[n] \in {refused, accepted}
    BY <2>1 DEF StartRun, TypeInv
  <2> HIDE DEF begun, refused, accepted
  <2> QED
    BY <1>1, <2>1, <2>2, <2>3, <2>4, <2>5 DEF GoesOn, StartRun
<1>3. CASE Discover(n) \/ Download(n) \/ RecordSourceRun(n) \/ RecordDocuments(n)
           \/ Parse(n) \/ RecordParserRun(n)
  <2>1. runs'[n].results = runs[n].results
    BY <1>3, StageFields
  <2>2. UNCHANGED <<store, lost>>
    BY <1>3 DEF Discover, Download, RecordSourceRun, RecordDocuments, Parse, RecordParserRun
  <2> QED
    BY <1>1, <2>1, <2>2 DEF GoesOn
<1>4. CASE \/ DiscoveryFails(n) \/ DownloadFails(n) \/ SourceRunRefused(n)
           \/ DocumentsRefused(n) \/ ParserFails(n) \/ ParserRunRefused(n)
  BY <1>1, <1>4, FailureResults
<1>5. CASE BatchIsNotSent(n) \/ PersistFactors(n) \/ PersistFactorsFails(n)
  BY <1>1, <1>5, FactorResults
<1>6. CASE RunIsLost(n)
  <2>1. runs'[n] = [NotStarted EXCEPT !.stage = "lost"]
    BY <1>6 DEF RunIsLost, Becomes, TypeInv
  <2>2. runs'[n].results = <<>>
    BY <2>1 DEF NotStarted
  <2> QED
    BY <1>1, <1>6, <2>2 DEF IsLost, RunIsLost
<1> QED
  BY <1>1, <1>2, <1>3, <1>4, <1>5, <1>6 DEF RunStep

-----------------------------------------------------------------------------
(* The invariant.                                                           *)

CompletedIn(s, results) ==
  \A i \in DOMAIN results : results[i].status = "completed" =>
                              \A row \in results[i].rows : StoredIn(s, row)

Phase1Inv ==
  /\ TypeInv
  /\ TablesAreSound(store)
  /\ ProvenIn(store, recorded)
  /\ \A n \in Runs : RunIsRecorded(runs[n], recorded) /\ CompletedIn(store, runs[n].results)

\* Nothing that was stored goes.
LEMMA StoredStays ==
  ASSUME NEW s, NEW t, s.details \subseteq t.details
  PROVE  /\ \A row : StoredIn(s, row) => StoredIn(t, row)
         /\ \A results : CompletedIn(s, results) => CompletedIn(t, results)
<1>1. \A row : StoredIn(s, row) => StoredIn(t, row)
  BY DEF StoredIn
<1> QED
  BY <1>1 DEF CompletedIn

\* What a step does to the tables: nothing, or an accepted batch of the run.
LEMMA StepTables ==
  ASSUME Phase1Inv, NEW n \in Runs, RunStep(n)
  PROVE  /\ TablesAreSound(store') /\ ProvenIn(store', recorded)
         /\ store.details \subseteq store'.details
<1>1. CASE store' = store
  BY <1>1 DEF Phase1Inv
<1>2. CASE store' # store
  <2> DEFINE run == runs[n]
             after == After(store, Batch(run))
  <2>1. /\ run.stage = "factors" /\ Batch(run).issues = {} /\ Accepts(store, Batch(run))
        /\ store' = after
    BY <1>2, StepResults DEF Phase1Inv, GoesOn, IsLost, FamilyIsOver, Fails, HasNothing,
                             Stores, Transaction
  <2>2. RunIsSound(run) /\ RunIsRecorded(run, recorded)
    BY DEF Phase1Inv, TypeInv
  <2>3. TablesAreSound(after) /\ ProvenIn(after, recorded)
    BY <2>1, <2>2, AfterIsSound, AfterIsProven DEF Phase1Inv
  <2>4. store.details \subseteq after.details
    BY DEF After
  <2> QED
    BY <2>1, <2>3, <2>4
<1> QED
  BY <1>1, <1>2

\* A result that says completed is of rows that are stored.
LEMMA StepCompleted ==
  ASSUME Phase1Inv, NEW n \in Runs, RunStep(n)
  PROVE  \A m \in Runs : CompletedIn(store', runs'[m].results)
<1>1. store.details \subseteq store'.details
  BY StepTables
<1>2. \A m \in Runs : CompletedIn(store', runs[m].results)
  BY <1>1, StoredStays DEF Phase1Inv
<1>3. CompletedIn(store', runs'[n].results)
  <2>1. CASE GoesOn(n)
    BY <1>2, <2>1 DEF GoesOn
  <2>2. CASE IsLost(n)
    BY <2>2 DEF IsLost, CompletedIn
  <2>3. CASE FamilyIsOver(n)
    <3>1. PICK result \in FamilyRecords :
            /\ runs'[n].results = Append(runs[n].results, result)
            /\ Fails(n, result) \/ HasNothing(result) \/ Stores(n, result)
      BY <2>3 DEF FamilyIsOver
    <3>2. result.status = "completed" => \A row \in result.rows : StoredIn(store', row)
      <4>1. CASE Fails(n, result)
        BY <4>1 DEF Fails
      <4>2. CASE HasNothing(result)
        BY <4>2 DEF HasNothing
      <4>3. CASE Stores(n, result)
        BY <4>3, BatchIsStored DEF Stores, Phase1Inv, TypeInv, TablesAreSound
      <4> QED
        BY <3>1, <4>1, <4>2, <4>3
    <3>3. runs[n].results \in Seq(FamilyRecords)
      BY DEF Phase1Inv, TypeInv, RunIsSound, RunRecords
    <3> QED
      BY <1>2, <3>1, <3>2, <3>3, AppendFacts DEF CompletedIn
  <2> QED
    BY <2>1, <2>2, <2>3, StepResults DEF Phase1Inv
<1> QED
  BY <1>2, <1>3, StepResults DEF Phase1Inv

\* Nothing that was recorded goes, and what a run records it has before it goes on.
LEMMA StepRecorded ==
  ASSUME Phase1Inv, NEW n \in Runs, RunStep(n)
  PROVE  /\ recorded \subseteq recorded'
         /\ \A m \in Runs : RunIsRecorded(runs'[m], recorded')
<1>1. recorded \subseteq recorded'
  BY DEF RunStep, StartRun, Discover, DiscoveryFails, Download, DownloadFails, RecordSourceRun,
         SourceRunRefused, RecordDocuments, DocumentsRefused, Parse, ParserFails,
         RecordParserRun, ParserRunRefused, BatchIsNotSent, PersistFactors,
         PersistFactorsFails, RunIsLost, FailsWith
<1>2. \A m \in Runs : RunIsRecorded(runs[m], recorded')
  BY <1>1 DEF Phase1Inv, RunIsRecorded
<1>3. RunIsRecorded(runs'[n], recorded')
  <2>1. CASE \/ Discover(n) \/ Download(n) \/ RecordSourceRun(n) \/ RecordDocuments(n)
             \/ Parse(n) \/ RecordParserRun(n)
    <3> DEFINE old == runs[n]
               new == runs'[n]
    <3>1. /\ new.id = old.id /\ Family(new) = Family(old)
          /\ ~Download(n) => SourceDocumentRecords(new) = SourceDocumentRecords(old)
      BY <2>1, StageFields DEF Phase1Inv, Family, SourceDocumentRecords, DocumentId
    <3>2. CASE Discover(n) /\ new.stage = "download"
      BY <3>2 DEF RunIsRecorded
    <3>3. CASE Download(n) /\ new.stage = "source_run"
      BY <3>3 DEF RunIsRecorded
    <3>4. CASE RecordSourceRun(n) /\ new.stage = "documents"
      BY <3>1, <3>4 DEF RunIsRecorded, RecordSourceRun
    <3>5. CASE RecordDocuments(n) /\ new.stage = "parse"
      <4>1. old.stage = "documents" /\ SourceDocumentRecords(old) \subseteq recorded'
        BY <3>5 DEF RecordDocuments, At
      <4>2. ~Download(n)
        BY <4>1 DEF Download, At
      <4> QED
        BY <1>2, <3>1, <3>5, <4>1, <4>2 DEF RunIsRecorded
    <3>6. CASE Parse(n) /\ new.stage = "parser_run"
      <4>1. old.stage = "parse"
        BY <3>6 DEF Parse, At
      <4>2. ~Download(n)
        BY <4>1 DEF Download, At
      <4> QED
        BY <1>2, <3>1, <3>6, <4>1, <4>2 DEF RunIsRecorded
    <3>7. CASE RecordParserRun(n) /\ new.stage = "factors"
      <4>1. /\ old.stage = "parser_run"
            /\ <<"parser_run", old.id, Family(old)>> \in recorded'
        BY <3>7 DEF RecordParserRun, At
      <4>2. ~Download(n)
        BY <4>1 DEF Download, At
      <4> QED
        BY <1>2, <3>1, <3>7, <4>1, <4>2 DEF RunIsRecorded
    <3> QED
      BY <2>1, <3>2, <3>3, <3>4, <3>5, <3>6, <3>7, StageFields DEF Phase1Inv
  <2>2. CASE FamilyIsOver(n)
    BY <2>2 DEF FamilyIsOver, RunIsRecorded
  <2>3. CASE RunIsLost(n)
    <3>1. runs'[n].stage = "lost"
      BY <2>3 DEF RunIsLost, Becomes, Phase1Inv, TypeInv, NotStarted
    <3> QED
      BY <3>1 DEF RunIsRecorded
  <2>4. CASE \E id \in RunIds, request \in Requests : StartRun(n, id, request)
    <3>1. PICK id \in RunIds, request \in Requests : StartRun(n, id, request)
      BY <2>4
    <3>2. runs'[n].stage \in {"returned", "discover"}
      BY <3>1 DEF StartRun, Phase1Inv, TypeInv, NotStarted
    <3> QED
      BY <3>2 DEF RunIsRecorded
  <2> QED
    BY <2>1, <2>2, <2>3, <2>4, FailureResults, FactorResults DEF RunStep, Phase1Inv
<1> QED
  BY <1>1, <1>2, <1>3, StepResults DEF Phase1Inv

\* Every step keeps the invariant.
LEMMA Phase1InvInductive ==
  /\ Phase1Init => Phase1Inv
  /\ Phase1Inv /\ [Phase1Next]_phase1Vars => Phase1Inv'
<1>1. ASSUME Phase1Init PROVE Phase1Inv
  <2>1. TypeInv
    BY <1>1, TypeInvInductive
  <2>2. /\ store.documents = {} /\ store.masters = {} /\ store.details = {}
        /\ \A n \in Runs : runs[n].stage = "not_started" /\ runs[n].results = <<>>
    BY <1>1 DEF Phase1Init, EmptyStore, NotStarted
  <2>3. TablesAreSound(store) /\ ProvenIn(store, recorded)
    BY <2>2 DEF TablesAreSound, KeysHold, UniqueIds, DetailsAreOfRows, WholeIn, ProvenIn
  <2> QED
    BY <2>1, <2>2, <2>3 DEF Phase1Inv, RunIsRecorded, CompletedIn
<1>2. ASSUME Phase1Inv, Phase1Next PROVE Phase1Inv'
  <2>1. TypeInv'
    BY <1>2, TypeInvInductive DEF Phase1Inv
  <2>2. CASE \E n \in Runs : RunStep(n)
    <3>1. PICK n \in Runs : RunStep(n)
      BY <2>2
    <3>2. /\ TablesAreSound(store') /\ ProvenIn(store', recorded) /\ recorded \subseteq recorded'
          /\ \A m \in Runs : RunIsRecorded(runs'[m], recorded') /\ CompletedIn(store', runs'[m].results)
      BY <1>2, <3>1, StepTables, StepCompleted, StepRecorded
    <3>3. ProvenIn(store', recorded')
      BY <3>2 DEF ProvenIn
    <3> QED
      BY <2>1, <3>2, <3>3 DEF Phase1Inv
  <2>3. CASE \E f \in Families : Publish(f)
    BY <1>2, <2>1, <2>3 DEF Phase1Inv, Publish
  <2> QED
    BY <1>2, <2>2, <2>3 DEF Phase1Next
<1>3. ASSUME Phase1Inv, UNCHANGED phase1Vars PROVE Phase1Inv'
  <2>1. TypeInv'
    BY <1>3, TypeInvInductive DEF Phase1Inv
  <2> QED
    BY <1>3, <2>1 DEF Phase1Inv, phase1Vars
<1> QED
  BY <1>1, <1>2, <1>3

\* The invariant always holds.
LEMMA Phase1InvHolds == Phase1Spec => []Phase1Inv
BY Phase1InvInductive, PTL DEF Phase1Spec

-----------------------------------------------------------------------------
\* However many runs overlap, fail or are lost, a family that is reported as completed has
\* every row it parsed in the tables (_run_source_family, persist_parsed_factor_records).
THEOREM CompletedStaysStored == Phase1Spec => []CompletedIsStored
<1>1. Phase1Inv => CompletedIsStored
  BY DEF Phase1Inv, CompletedIn, StoredIn, CompletedIsStored, Stored
<1> QED
  BY <1>1, Phase1InvHolds, PTL

\* The tables never name an artifact of whose rows a part is missing
\* (persist_source_family_records).
THEOREM BatchesStayWhole == Phase1Spec => []BatchIsWhole
<1>1. Phase1Inv => BatchIsWhole
  BY DEF Phase1Inv, TablesAreSound, WholeIn, StoredIn, BatchIsWhole, Stored, Artifacts
<1> QED
  BY <1>1, Phase1InvHolds, PTL

\* Every master in the tables has the document of the artifact its rows came from, and the
\* acquisition, the document and the parser run of the run that made it were recorded before
\* (_source_document_records, ensure_source_document).
THEOREM ProvenanceStays == Phase1Spec => []ProvenanceHolds
<1>1. Phase1Inv => ProvenanceHolds
  BY DEF Phase1Inv, ProvenIn, ProvenanceHolds
<1> QED
  BY <1>1, Phase1InvHolds, PTL

-----------------------------------------------------------------------------
(* What the runs report.                                                    *)

DetailsOf(results) == SumFunction([i \in DOMAIN results |-> results[i].details])

\* A family's result adds its own details to those of a run.
LEMMA DetailsAppend ==
  ASSUME NEW results \in Seq(FamilyRecords), NEW result \in FamilyRecords
  PROVE  /\ DetailsOf(results) \in Nat
         /\ DetailsOf(Append(results, result)) = DetailsOf(results) + result.details
<1> DEFINE k == Len(results)
           longer == Append(results, result)
           fun == [i \in DOMAIN results |-> results[i].details]
           gun == [i \in DOMAIN longer |-> longer[i].details]
<1>1. /\ k \in Nat /\ DOMAIN fun = 1..k /\ DOMAIN gun = 1..(k + 1)
      /\ gun[k + 1] = result.details /\ result.details \in Nat
      /\ \A i \in 1..k : fun[i] \in Nat /\ gun[i] = fun[i]
  <2>1. /\ k \in Nat /\ DOMAIN results = 1..k /\ DOMAIN longer = 1..(k + 1)
        /\ \A i \in 1..k : longer[i] = results[i]
        /\ longer[k + 1] = result
    BY AppendFacts
  <2>2. \A r \in FamilyRecords : r.details \in Nat
    BY DEF FamilyRecords
  <2>3. \A i \in 1..k : results[i] \in FamilyRecords /\ i \in 1..(k + 1)
    BY <2>1
  <2> HIDE DEF k, longer
  <2> QED
    BY <2>1, <2>2, <2>3
<1> HIDE DEF fun, gun, k
<1>2. /\ Selection!SumFunction(gun) = Selection!SumFunction(fun) + gun[k + 1]
      /\ Selection!SumFunction(fun) \in Nat
  BY <1>1, Selection!SumAppend
<1>3. SumFunction(gun) = SumFunction(fun) + gun[k + 1] /\ SumFunction(fun) \in Nat
  BY <1>2, SameOperators
<1> QED
  BY <1>1, <1>3 DEF DetailsOf, fun, gun

\* A run without results reports nothing.
LEMMA DetailsOfNone == DetailsOf(<<>>) = 0
<1> DEFINE none == <<>>
           fun == [i \in DOMAIN none |-> none[i].details]
<1>1. DOMAIN none = {} /\ DOMAIN fun = DOMAIN none
  OBVIOUS
<1> HIDE DEF fun
<1>2. SumFunction(fun) = 0
  BY <1>1, Selection!SumNothing, SameOperators, Zenon
<1> QED
  BY <1>2 DEF DetailsOf, fun

\* There are finitely many runs.
LEMMA RunsFinite == Selection!IsFiniteSet(Runs)
<1>1. MaxRuns \in Int
  BY Phase1Assumption
<1>2. IsFiniteSet(1..MaxRuns)
  BY <1>1, FS_Interval
<1> QED
  BY <1>2, SameOperators DEF Runs

ReportedIn(states) == SumFunction([n \in Runs |-> DetailsOf(states[n].results)])

\* What all runs report changes by what the one that takes a step reports.
LEMMA ReportedChanges ==
  ASSUME NEW old, NEW new, NEW n \in Runs,
         \A m \in Runs : DetailsOf(old[m].results) \in Nat,
         DetailsOf(new[n].results) \in Nat,
         \A m \in Runs \ {n} : new[m] = old[m]
  PROVE  /\ ReportedIn(new) + DetailsOf(old[n].results)
               = ReportedIn(old) + DetailsOf(new[n].results)
         /\ ReportedIn(new) \in Nat /\ ReportedIn(old) \in Nat
<1> DEFINE S == Runs
           fun == [m \in S |-> DetailsOf(old[m].results)]
           gun == [m \in S |-> DetailsOf(new[m].results)]
<1>1. Selection!IsFiniteSet(S)
  BY RunsFinite
<1>7. DOMAIN fun = S /\ DOMAIN gun = S /\ \A y \in S : fun[y] = DetailsOf(old[y].results)
                                       /\ gun[y] = DetailsOf(new[y].results)
  OBVIOUS
<1> HIDE DEF S, fun, gun
<1>2. /\ n \in S /\ gun[n] \in Nat /\ DOMAIN fun = S /\ DOMAIN gun = S
      /\ \A y \in S : fun[y] \in Nat /\ (y # n => gun[y] = fun[y])
  BY <1>7 DEF S
<1>3. fun[n] = DetailsOf(old[n].results) /\ gun[n] = DetailsOf(new[n].results)
  BY <1>7 DEF S
<1>4. SumFunction(fun) = ReportedIn(old) /\ SumFunction(gun) = ReportedIn(new)
  BY DEF ReportedIn, S, fun, gun
<1>5. /\ Selection!Sum(gun, S) + fun[n] = Selection!Sum(fun, S) + gun[n]
      /\ Selection!Sum(gun, S) \in Nat /\ Selection!Sum(fun, S) \in Nat
  BY <1>1, <1>2, Selection!SumChange
<1>6. Selection!Sum(fun, S) = SumFunction(fun) /\ Selection!Sum(gun, S) = SumFunction(gun)
  BY <1>2, SameOperators DEF Selection!Sum, Selection!SumFunction
<1> QED
  BY <1>3, <1>4, <1>5, <1>6

\* Nothing is reported before a run has a result.
LEMMA NothingReported ==
  ASSUME NEW states, \A n \in Runs : states[n].results = <<>>
  PROVE  ReportedIn(states) = 0
<1> DEFINE S == Runs
           fun == [m \in S |-> DetailsOf(states[m].results)]
<1>1. Selection!IsFiniteSet(S)
  BY RunsFinite
<1>2. DOMAIN fun = S /\ \A y \in S : fun[y] = 0
  <2>1. DOMAIN fun = S /\ \A y \in S : fun[y] = DetailsOf(states[y].results)
    OBVIOUS
  <2>2. \A y \in S : states[y].results = <<>>
    OBVIOUS
  <2> HIDE DEF S, fun
  <2> QED
    BY <2>1, <2>2, DetailsOfNone
<1> HIDE DEF S, fun
<1>3. \A y \in S : fun[y] \in Nat /\ fun[y] = fun[y] + fun[y]
  BY <1>2
<1>4. Selection!Sum(fun, S) \in Nat
  BY <1>1, <1>3, Selection!SumRemove
<1>5. Selection!Sum(fun, S) = Selection!Sum(fun, S) + Selection!Sum(fun, S)
  BY <1>1, <1>3, Selection!SumPlus
<1>6. SumFunction(fun) = Selection!Sum(fun, S)
  BY <1>2, SameOperators DEF Selection!Sum, Selection!SumFunction
<1> QED
  BY <1>4, <1>5, <1>6 DEF ReportedIn, S, fun

\* The details that are new were not there: the table grows by their number.
LEMMA DetailsGrow ==
  ASSUME NEW s, NEW command, IsFiniteSet(s.details), IsFiniteSet(command.details)
  PROVE  Cardinality(After(s, command).details)
           = Cardinality(s.details) + Cardinality(NewDetails(s, command.details))
<1> DEFINE new == NewDetails(s, command.details)
<1>1. IsFiniteSet(new)
  BY FS_Subset DEF NewDetails
<1>2. s.details \cap new = {}
  BY DEF NewDetails, SameDetail
<1>3. Cardinality({}) = 0 /\ Cardinality(s.details) \in Nat /\ Cardinality(new) \in Nat
  BY <1>1, FS_EmptySet, FS_CardinalityType
<1>4. After(s, command).details = s.details \cup new
  BY DEF After
<1> HIDE DEF new
<1>5. Cardinality(s.details \cup new)
        = Cardinality(s.details) + Cardinality(new) - Cardinality(s.details \cap new)
  BY <1>1, FS_Union
<1>6. Cardinality(s.details \cap new) = 0
  BY <1>2, <1>3
<1>7. Cardinality(s.details \cup new) = Cardinality(s.details) + Cardinality(new)
  BY <1>3, <1>5, <1>6
<1> QED
  BY <1>4, <1>7 DEF new

Counted == /\ ReportedIn(runs) <= Cardinality(store.details)
           /\ lost = 0 => ReportedIn(runs) = Cardinality(store.details)

\* A step that adds to the details of a result adds the same number to the table, unless an
\* answer is lost.
LEMMA StepCounted ==
  ASSUME Phase1Inv, Phase1Inv', Counted, NEW n \in Runs, RunStep(n)
  PROVE  Counted'
<1> DEFINE Old == DetailsOf(runs[n].results)
           New == DetailsOf(runs'[n].results)
           Had == Cardinality(store.details)
           Has == Cardinality(store'.details)
<1>1. /\ \A m \in Runs : runs[m].results \in Seq(FamilyRecords)
      /\ \A m \in Runs : runs'[m].results \in Seq(FamilyRecords)
  BY DEF Phase1Inv, TypeInv, RunIsSound, RunRecords
<1>2. /\ \A m \in Runs : DetailsOf(runs[m].results) \in Nat
      /\ \A m \in Runs : DetailsOf(runs'[m].results) \in Nat
  BY <1>1, NoFamilyYetType, DetailsAppend
<1>3. /\ ReportedIn(runs') + Old = ReportedIn(runs) + New
      /\ ReportedIn(runs') \in Nat /\ ReportedIn(runs) \in Nat
  BY <1>2, StepResults, ReportedChanges DEF Phase1Inv
<1>4. /\ IsFiniteSet(store.details) /\ IsFiniteSet(store'.details)
      /\ Had \in Nat /\ Has \in Nat /\ Had <= Has
  BY StepTables, FS_CardinalityType, FS_Subset DEF Phase1Inv, TypeInv, StoreIsSound
<1>5. lost \in Nat /\ lost' \in Nat
  BY DEF Phase1Inv, TypeInv
<1>6. Old \in Nat /\ New \in Nat
  BY <1>2
<1>7. ASSUME New = Old, lost' = lost + 1 \/ UNCHANGED <<store, lost>> PROVE Counted'
  BY <1>3, <1>4, <1>5, <1>6, <1>7 DEF Counted
<1>8. CASE GoesOn(n)
  BY <1>7, <1>8 DEF GoesOn
<1>9. CASE IsLost(n)
  <2>1. New = 0 /\ lost' = lost + 1
    BY <1>9, DetailsOfNone DEF IsLost
  <2> QED
    BY <1>3, <1>4, <1>5, <1>6, <2>1 DEF Counted
<1>10. CASE FamilyIsOver(n)
  <2>1. PICK result \in FamilyRecords :
          /\ runs'[n].results = Append(runs[n].results, result)
          /\ Fails(n, result) \/ HasNothing(result) \/ Stores(n, result)
    BY <1>10 DEF FamilyIsOver
  <2>2. New = Old + result.details
    BY <1>1, <2>1, DetailsAppend
  <2>3. CASE Fails(n, result) \/ HasNothing(result)
    <3>1. result.details = 0 /\ (lost' = lost + 1 \/ UNCHANGED <<store, lost>>)
      BY <2>3 DEF Fails, HasNothing
    <3> QED
      BY <1>6, <1>7, <2>2, <3>1
  <2>4. CASE Stores(n, result)
    <3>1. IsFiniteSet(Batch(runs[n]).details)
      BY BatchIsFinite DEF Phase1Inv, TypeInv, RunIsSound
    <3>2. Has = Had + result.details /\ UNCHANGED lost
      BY <1>4, <2>4, <3>1, DetailsGrow DEF Stores
    <3>3. result.details \in Nat
      BY DEF FamilyRecords
    <3> QED
      BY <1>3, <1>4, <1>5, <1>6, <2>2, <3>2, <3>3 DEF Counted
  <2> QED
    BY <2>1, <2>3, <2>4
<1> QED
  BY <1>8, <1>9, <1>10, StepResults DEF Phase1Inv

\* What the runs report is in the tables, and each detail is reported by one run: whatever
\* they overlap, they report all that is there when no run and no answer was lost (_summary).
THEOREM ReportsAddUp == Phase1Spec => []CountsAddUp
<1>1. Phase1Init => Counted
  <2> SUFFICES ASSUME Phase1Init PROVE Counted
    OBVIOUS
  <2>1. store.details = {} /\ \A n \in Runs : runs[n].results = <<>>
    BY DEF Phase1Init, EmptyStore, NotStarted
  <2> QED
    BY <2>1, NothingReported, FS_EmptySet DEF Counted
<1>2. Phase1Inv /\ Phase1Inv' /\ Counted /\ [Phase1Next]_phase1Vars => Counted'
  <2>1. CASE \E n \in Runs : RunStep(n)
    BY <2>1, StepCounted
  <2>2. CASE \E f \in Families : Publish(f)
    BY <2>2 DEF Publish, Counted, ReportedIn
  <2>3. CASE UNCHANGED phase1Vars
    BY <2>3 DEF phase1Vars, Counted, ReportedIn
  <2> QED
    BY <2>1, <2>2, <2>3 DEF Phase1Next
<1>3. Counted => CountsAddUp
  BY DEF Counted, ReportedIn, DetailsOf, CountsAddUp, Reported, Total
<1> QED
  BY <1>1, <1>2, <1>3, Phase1InvHolds, PTL DEF Phase1Spec
=============================================================================
