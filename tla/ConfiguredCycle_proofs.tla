------------------------ MODULE ConfiguredCycle_proofs ------------------------
(***************************************************************************)
(* Proofs about ConfiguredCycle, for any runners, families, contents and   *)
(* years: its type invariant and its safety invariants, from one inductive *)
(* invariant, and that it implements YearLedger.                           *)
(***************************************************************************)
EXTENDS ConfiguredCycle, TLAPS

--------------------------------------------------------------------------------
(* The inductive invariant.                                                *)

InYearStep  == {"discovering", "downloading", "comparing", "unlinking", "creating",
                "writing", "parsing", "validating", "inserting", "committing", "recording"}
WithSlot    == InYearStep \ {"discovering"}
WithContent == WithSlot \ {"downloading"}
WithBatch   == {"validating", "inserting", "committing", "recording"}

\* The recorded years of f are exactly those from its first year to its target year.
Recorded(f) ==
  /\ TargetYear(f) \in Nat
  /\ TargetYear(f) >= FirstIngested(f)
  /\ yearStates[f] = FirstIngested(f)..(TargetYear(f) - 1)

\* What a runner knows in the middle of a year step: its target year may have been
\* recorded by another runner meanwhile, but it is never beyond the family's next year.
StepOK(r) ==
  /\ pc[r] \in InYearStep =>
       /\ family[r] \in Families
       /\ target[r] \in FirstIngested(family[r])..TargetYear(family[r])
  /\ pc[r] \in WithSlot => Slot(r) \in loaded[r]
  /\ pc[r] \in WithContent => fetched[r] \in Contents
  /\ pc[r] \in WithBatch => parsed[r] \in Batches
  /\ pc[r] = "recording" =>
       family[r] \in EmptyBatchFamilies \/ HasFactors(family[r], target[r])

\* A result that says completed has its year state.
ResultsOK(r) ==
  \A x \in results[r] : x.status = "completed" => x.year \in yearStates[x.family]

IndInv ==
  /\ TypeOK
  /\ \A f \in Families : Recorded(f)
  /\ RecordedHasFactors
  /\ FactorsWithinNextYear
  /\ HistoryIsTrue
  /\ \A r \in Runners : StepOK(r) /\ ResultsOK(r)

--------------------------------------------------------------------------------
(* The target year.                                                        *)

\* The first year a family records is a positive number.
LEMMA FirstIngestedType ==
  ASSUME NEW f \in Families
  PROVE  FirstIngested(f) \in Nat /\ FirstIngested(f) >= 1
BY CycleAssumption DEF FirstIngested, CycleAssumption

\* The maximum of a non-empty interval is its upper end.
LEMMA MaxInterval ==
  ASSUME NEW a \in Nat, NEW b \in Nat, a <= b
  PROVE  Max(a..b) = b
BY DEF Max

\* The year after an unbroken interval of recorded years is the target year.
LEMMA TargetYearIsNext ==
  ASSUME NEW f \in Families, NEW n \in Nat,
         n >= FirstIngested(f), yearStates[f] = FirstIngested(f)..(n - 1)
  PROVE  TargetYear(f) = n
<1>1. FirstIngested(f) \in Nat /\ FirstIngested(f) >= 1
  BY FirstIngestedType
<1>2. CASE n - 1 >= FirstIngested(f)
  <2>1. yearStates[f] # {}
    BY <1>1, <1>2
  <2>2. Max(yearStates[f]) = n - 1
    BY <1>1, <1>2, MaxInterval
  <2> QED
    BY <1>1, <1>2, <2>1, <2>2 DEF TargetYear, LatestIngestedYear
<1>3. CASE n = FirstIngested(f)
  <2>1. yearStates[f] = {}
    BY <1>1, <1>3
  <2> QED
    BY <1>1, <1>3, <2>1, CycleAssumption
    DEF TargetYear, LatestIngestedYear, FirstIngested, CycleAssumption
<1> QED
  BY <1>1, <1>2, <1>3

\* The same of the next state.
LEMMA TargetYearWillBeNext ==
  ASSUME NEW f \in Families, NEW n \in Nat,
         n >= FirstIngested(f), yearStates'[f] = FirstIngested(f)..(n - 1)
  PROVE  TargetYear(f)' = n
<1>1. FirstIngested(f) \in Nat /\ FirstIngested(f) >= 1
  BY FirstIngestedType
<1>2. CASE n - 1 >= FirstIngested(f)
  <2>1. yearStates'[f] # {}
    BY <1>1, <1>2
  <2>2. Max(yearStates'[f]) = n - 1
    BY <1>1, <1>2, MaxInterval
  <2> QED
    BY <1>1, <1>2, <2>1, <2>2 DEF TargetYear, LatestIngestedYear
<1>3. CASE n = FirstIngested(f)
  <2>1. yearStates'[f] = {}
    BY <1>1, <1>3
  <2> QED
    BY <1>1, <1>3, <2>1, CycleAssumption
    DEF TargetYear, LatestIngestedYear, FirstIngested, CycleAssumption
<1> QED
  BY <1>1, <1>2, <1>3

\* Initially no year is recorded and the target year is the first one.
LEMMA InitRecorded ==
  ASSUME Init, NEW f \in Families
  PROVE  Recorded(f) /\ TargetYear(f) = FirstIngested(f)
<1>1. FirstIngested(f) \in Nat /\ FirstIngested(f) >= 1
  BY FirstIngestedType
<1>2. yearStates[f] = FirstIngested(f)..(FirstIngested(f) - 1)
  BY <1>1 DEF Init
<1>3. TargetYear(f) = FirstIngested(f)
  BY <1>1, <1>2, TargetYearIsNext
<1> QED
  BY <1>1, <1>2, <1>3 DEF Recorded

\* The target year of a family depends on its year states alone.
LEMMA TargetYearStable ==
  ASSUME UNCHANGED yearStates, NEW f \in Families
  PROVE  TargetYear(f)' = TargetYear(f) /\ Recorded(f)' = Recorded(f)
BY DEF TargetYear, LatestIngestedYear, Recorded, FirstIngested

--------------------------------------------------------------------------------
(* Initial states.                                                         *)

\* The initial states satisfy the inductive invariant.
THEOREM InitInd == Init => IndInv
<1> SUFFICES ASSUME Init PROVE IndInv
  OBVIOUS
<1>1. TypeOK
  BY CycleAssumption DEF Init, TypeOK, Locations, Ended, CycleAssumption
<1>2. \A f \in Families : Recorded(f)
  BY InitRecorded
<1>3. RecordedHasFactors /\ HistoryIsTrue
  BY DEF Init, RecordedHasFactors, HistoryIsTrue
<1>4. FactorsWithinNextYear
  BY DEF Init, FactorsWithinNextYear, HasFactors
<1>5. \A r \in Runners : StepOK(r) /\ ResultsOK(r)
  BY DEF Init, StepOK, ResultsOK, InYearStep, WithSlot, WithContent, WithBatch
<1> QED
  BY <1>1, <1>2, <1>3, <1>4, <1>5 DEF IndInv

--------------------------------------------------------------------------------
(* Steps that leave the database alone.                                    *)

\* What the database holds stays well-formed when it does not change.
LEMMA DatabaseUnchanged ==
  ASSUME IndInv, UNCHANGED dbVars
  PROVE  /\ \A f \in Families : Recorded(f)' /\ TargetYear(f)' = TargetYear(f)
         /\ RecordedHasFactors'
         /\ FactorsWithinNextYear'
         /\ HistoryIsTrue'
<1>1. UNCHANGED yearStates /\ UNCHANGED factors /\ UNCHANGED history
  BY DEF dbVars
<1>2. \A f \in Families : Recorded(f)' /\ TargetYear(f)' = TargetYear(f)
  BY <1>1, TargetYearStable DEF IndInv
<1>3. RecordedHasFactors' /\ HistoryIsTrue'
  BY <1>1 DEF IndInv, RecordedHasFactors, HistoryIsTrue, HasFactors
<1>4. FactorsWithinNextYear'
  BY <1>1, <1>2 DEF IndInv, FactorsWithinNextYear, HasFactors, FirstIngested
<1> QED
  BY <1>2, <1>3, <1>4

\* The database only grows.
Grows ==
  /\ \A f \in Families : /\ TargetYear(f)' \in Nat
                         /\ TargetYear(f)' >= TargetYear(f)
                         /\ yearStates[f] \subseteq yearStates'[f]
  /\ \A k \in Families \X Years \X Contents : factors[k] \subseteq factors'[k]

\* A step that leaves the database alone.
LEMMA UnchangedGrows ==
  ASSUME IndInv, UNCHANGED dbVars
  PROVE  Grows
BY DatabaseUnchanged DEF Grows, dbVars, IndInv, Recorded

\* Runner q does not move.
Rests(q) ==
  /\ pc'[q] = pc[q]           /\ loaded'[q] = loaded[q]
  /\ results'[q] = results[q] /\ family'[q] = family[q]
  /\ target'[q] = target[q]   /\ fetched'[q] = fetched[q]
  /\ parsed'[q] = parsed[q]

\* What a runner knows stays true while it rests and the database grows.
LEMMA RestsOK ==
  ASSUME IndInv, Grows, NEW q \in Runners, Rests(q)
  PROVE  StepOK(q)' /\ ResultsOK(q)'
<1>1. StepOK(q) /\ ResultsOK(q) /\ TypeOK
  BY DEF IndInv
<1>2. ASSUME NEW f \in Families, NEW y \in Years, HasFactors(f, y)
      PROVE  HasFactors(f, y)'
  BY <1>2 DEF Grows, HasFactors
<1>3. ASSUME pc'[q] \in InYearStep
      PROVE  /\ family'[q] \in Families
             /\ target'[q] \in (FirstIngested(family[q])..TargetYear(family[q]))'
  <2>1. PICK f \in Families : f = family[q] /\ f = family'[q]
    BY <1>1, <1>3 DEF StepOK, Rests
  <2>2. target[q] \in FirstIngested(f)..TargetYear(f)
    BY <1>1, <1>3, <2>1 DEF StepOK, Rests
  <2>3. TargetYear(f)' \in Nat /\ TargetYear(f)' >= TargetYear(f)
    BY DEF Grows
  <2>4. FirstIngested(f) \in Nat /\ TargetYear(f) \in Nat
    BY FirstIngestedType DEF IndInv, Recorded
  <2>5. target'[q] \in FirstIngested(f)..TargetYear(f)'
    BY <2>2, <2>3, <2>4 DEF Rests
  <2> QED
    BY <2>1, <2>5
<1>4. pc'[q] \in WithSlot => Slot(q)' \in loaded'[q]
  BY <1>1 DEF StepOK, Slot, Rests
<1>5. /\ pc'[q] \in WithContent => fetched'[q] \in Contents
      /\ pc'[q] \in WithBatch => parsed'[q] \in Batches
  BY <1>1 DEF StepOK, Rests
<1>6. ASSUME pc'[q] = "recording"
      PROVE  (family[q] \in EmptyBatchFamilies \/ HasFactors(family[q], target[q]))'
  <2>1. PICK f \in Families : f = family[q] /\ f = family'[q]
    BY <1>1, <1>6 DEF StepOK, Rests, InYearStep
  <2>2. PICK y \in Years : y = target[q] /\ y = target'[q]
    BY <1>1, <1>6, <2>1 DEF StepOK, Rests, WithSlot, InYearStep, Slot, TypeOK
  <2>3. f \in EmptyBatchFamilies \/ HasFactors(f, y)
    BY <1>1, <1>6, <2>1, <2>2 DEF StepOK, Rests
  <2>4. f \in EmptyBatchFamilies \/ HasFactors(f, y)'
    BY <1>2, <2>3
  <2> QED
    BY <2>1, <2>2, <2>4
<1>7. ResultsOK(q)'
  BY <1>1 DEF ResultsOK, Rests, Grows, TypeOK, Results
<1> QED
  BY <1>3, <1>4, <1>5, <1>6, <1>7 DEF StepOK

\* Of the runners only r moves.
OnlyMoves(r) == \A q \in Runners \ {r} : Rests(q)

\* What is shown of each action that leaves the database alone.
LocalGoal(r) ==
  /\ TypeOK' /\ UNCHANGED dbVars /\ OnlyMoves(r)
  /\ StepOK(r)' /\ ResultsOK(r)'

\* A year step that ends without success leaves nothing to remember but its result.
LEMMA FinishStep ==
  ASSUME IndInv, NEW r \in Runners, NEW from \in WithSlot \cup {"discovering"}, 
         NEW status \in Statuses \ {"completed"}, Finish(r, from, status)
  PROVE  LocalGoal(r)
<1>1. TypeOK /\ StepOK(r) /\ ResultsOK(r)
  BY DEF IndInv
<1>2. UNCHANGED dbVars
  BY DEF Finish
<1>3. family[r] \in Families /\ target[r] \in Nat
  BY <1>1 DEF Finish, Goto, StepOK, TypeOK, InYearStep, WithSlot
<1>4. TypeOK'
  BY <1>1, <1>3, CycleAssumption
  DEF TypeOK, Finish, Goto, FinishFamily, dbVars, worldVars, Locations, Statuses, Results, CycleAssumption
<1>5. OnlyMoves(r)
  BY <1>1 DEF TypeOK, Finish, Goto, FinishFamily, OnlyMoves, Rests
<1>6. StepOK(r)'
  BY <1>1 DEF TypeOK, Finish, Goto, StepOK, InYearStep, WithSlot, WithContent, WithBatch
<1>7. ResultsOK(r)'
  BY <1>1 DEF TypeOK, Finish, FinishFamily, ResultsOK, dbVars
<1> QED
  BY <1>2, <1>4, <1>5, <1>6, <1>7 DEF LocalGoal

\* A process that ends forgets everything.
LEMMA EndStep ==
  ASSUME IndInv, NEW r \in Runners, NEW how \in Ended, EndProcess(r, how),
         UNCHANGED <<dbVars, archive, worldVars>>
  PROVE  LocalGoal(r)
<1>1. TypeOK
  BY DEF IndInv
<1>2. TypeOK'
  BY <1>1, CycleAssumption DEF TypeOK, EndProcess, dbVars, worldVars, Locations, CycleAssumption
<1>3. OnlyMoves(r)
  BY <1>1 DEF TypeOK, EndProcess, OnlyMoves, Rests
<1>4. StepOK(r)'
  BY <1>1 DEF TypeOK, EndProcess, Ended, StepOK, InYearStep, WithSlot, WithContent, WithBatch
<1>5. ResultsOK(r)'
  BY <1>1 DEF TypeOK, EndProcess, ResultsOK
<1> QED
  BY <1>2, <1>3, <1>4, <1>5 DEF LocalGoal

\* A runner that goes on with its year step keeps what it knows: only its place moves,
\* and the new place asks for nothing that it does not have.
LEMMA ContinueStep ==
  ASSUME IndInv, NEW r \in Runners, NEW from \in InYearStep, NEW to \in WithSlot,
         Continue(r, from, to), UNCHANGED <<dbVars, worldVars>>,
         Slot(r) \in loaded[r],
         to \in WithContent => from \in WithContent,
         to \in WithBatch => from \in WithBatch,
         to = "recording" => family[r] \in EmptyBatchFamilies
  PROVE  OnlyMoves(r) /\ StepOK(r)' /\ ResultsOK(r)'
<1>1. TypeOK /\ StepOK(r) /\ ResultsOK(r)
  BY DEF IndInv
<1>2. pc[r] = from /\ pc'[r] = to
  BY <1>1 DEF TypeOK, Continue, Goto
<1>3. OnlyMoves(r)
  BY <1>1 DEF TypeOK, Continue, Goto, OnlyMoves, Rests
<1>4. PICK f \in Families : f = family[r] /\ f = family'[r]
  BY <1>1, <1>2 DEF StepOK, Continue
<1>5. target'[r] \in (FirstIngested(family[r])..TargetYear(family[r]))'
  <2>1. target[r] \in FirstIngested(f)..TargetYear(f)
    BY <1>1, <1>2, <1>4 DEF StepOK
  <2>2. TargetYear(f)' = TargetYear(f)
    BY DatabaseUnchanged
  <2> QED
    BY <1>4, <2>1, <2>2 DEF Continue
<1>6. StepOK(r)'
  BY <1>1, <1>2, <1>4, <1>5 DEF StepOK, Continue, Slot
<1>7. ResultsOK(r)'
  BY <1>1 DEF ResultsOK, Continue, dbVars
<1> QED
  BY <1>3, <1>6, <1>7

\* The type invariant under a step that moves the runner on.
LEMMA ContinueType ==
  ASSUME TypeOK, NEW r \in Runners, NEW from \in Locations, NEW to \in Locations,
         Continue(r, from, to), UNCHANGED <<dbVars, worldVars>>,
         archive' \in [Families \X Years -> Contents \cup {Absent} \cup Runners]
  PROVE  TypeOK'
BY DEF TypeOK, Continue, Goto, dbVars, worldVars

\* Every action of a runner that leaves the database alone keeps the invariant.
LEMMA LocalActions ==
  ASSUME IndInv, NEW r \in Runners,
         \/ Start(r) \/ CompleteCycle(r) \/ NextCycle(r) \/ Exit(r) \/ Crash(r)
         \/ SelectTargetYear(r) \/ Discover(r) \/ DiscoverNothing(r)
         \/ Download(r) \/ DownloadFails(r) \/ CompareArchived(r)
         \/ UnlinkArchived(r) \/ UnlinkRaises(r) \/ CreateArchived(r)
         \/ ReuseArchived(r) \/ WriteArchived(r) \/ Parse(r) \/ ParseFails(r)
         \/ Validate(r) \/ ValidationFails(r) \/ InsertNoRecords(r)
         \/ BeginInsert(r) \/ InsertFails(r)
  PROVE  LocalGoal(r)
<1>1. TypeOK /\ StepOK(r) /\ ResultsOK(r)
  BY DEF IndInv
<1>2. ASSUME NEW from \in WithSlot \cup {"discovering"}, NEW to \in WithSlot,
             Continue(r, from, to), UNCHANGED <<dbVars, worldVars>>,
             archive' \in [Families \X Years -> Contents \cup {Absent} \cup Runners],
             Slot(r) \in loaded[r],
             to \in WithContent => from \in WithContent,
             to \in WithBatch => from \in WithBatch,
             to = "recording" => family[r] \in EmptyBatchFamilies
      PROVE  LocalGoal(r)
  <2>1. from \in InYearStep /\ from \in Locations /\ to \in Locations
    BY DEF InYearStep, WithSlot, Locations
  <2>2. TypeOK'
    BY <1>1, <1>2, <2>1, ContinueType
  <2> QED
    BY <1>2, <2>1, <2>2, ContinueStep DEF LocalGoal
<1>3. CASE Start(r)
  <2>1. TypeOK'
    BY <1>1, <1>3 DEF TypeOK, Start, dbVars, worldVars, Locations
  <2>2. OnlyMoves(r)
    BY <1>1, <1>3 DEF TypeOK, Start, OnlyMoves, Rests
  <2>3. StepOK(r)' /\ ResultsOK(r)'
    BY <1>1, <1>3
    DEF TypeOK, Start, StepOK, ResultsOK, dbVars, InYearStep, WithSlot, WithContent, WithBatch
  <2> QED
    BY <1>3, <2>1, <2>2, <2>3 DEF LocalGoal, Start
<1>4. CASE CompleteCycle(r) \/ NextCycle(r)
  <2>1. TypeOK'
    BY <1>1, <1>4 DEF TypeOK, CompleteCycle, NextCycle, Goto, dbVars, worldVars, Locations
  <2>2. OnlyMoves(r)
    BY <1>1, <1>4 DEF TypeOK, CompleteCycle, NextCycle, Goto, OnlyMoves, Rests
  <2>3. StepOK(r)' /\ ResultsOK(r)'
    BY <1>1, <1>4
    DEF TypeOK, CompleteCycle, NextCycle, Goto, StepOK, ResultsOK, dbVars, InYearStep,
        WithSlot, WithContent, WithBatch
  <2> QED
    BY <1>4, <2>1, <2>2, <2>3 DEF LocalGoal, CompleteCycle, NextCycle
<1>5. CASE Exit(r) \/ Crash(r) \/ UnlinkRaises(r)
  BY <1>5, EndStep DEF Exit, Crash, UnlinkRaises, Ended
<1>6. CASE SelectTargetYear(r)
  <2>1. PICK f \in Families : /\ family' = [family EXCEPT ![r] = f]
                              /\ target' = [target EXCEPT ![r] = TargetYear(f)]
    BY <1>6 DEF SelectTargetYear, Pending
  <2>2. /\ TargetYear(f) \in Nat /\ FirstIngested(f) \in Nat
        /\ TargetYear(f) >= FirstIngested(f)
    BY FirstIngestedType DEF IndInv, Recorded
  <2>3. TypeOK'
    BY <1>1, <1>6, <2>1, <2>2 DEF TypeOK, SelectTargetYear, Goto, dbVars, worldVars, Locations
  <2>4. OnlyMoves(r)
    BY <1>1, <1>6, <2>1 DEF TypeOK, SelectTargetYear, Goto, OnlyMoves, Rests
  <2>5. TargetYear(f)' = TargetYear(f)
    BY <1>6, DatabaseUnchanged DEF SelectTargetYear
  <2>6. f = family'[r] /\ target'[r] = TargetYear(f)
    BY <1>1, <2>1 DEF TypeOK
  <2>7. target'[r] \in (FirstIngested(family[r])..TargetYear(family[r]))'
    BY <2>2, <2>5, <2>6
  <2>8. pc'[r] = "discovering"
    BY <1>1, <1>6 DEF TypeOK, SelectTargetYear, Goto
  <2>9. StepOK(r)'
    BY <2>6, <2>7, <2>8 DEF StepOK, InYearStep, WithSlot, WithContent, WithBatch
  <2>10. ResultsOK(r)'
    BY <1>1, <1>6 DEF SelectTargetYear, ResultsOK, dbVars
  <2> QED
    BY <1>6, <2>3, <2>4, <2>9, <2>10 DEF LocalGoal, SelectTargetYear
<1>7. CASE Discover(r)
  BY <1>1, <1>2, <1>7 DEF Discover, TypeOK, WithSlot, InYearStep, WithContent, WithBatch
<1>8. CASE DiscoverNothing(r) \/ DownloadFails(r) \/ ParseFails(r) \/ ValidationFails(r) \/ InsertFails(r)
  BY <1>8, FinishStep
  DEF DiscoverNothing, DownloadFails, ParseFails, ValidationFails, InsertFails, WithSlot,
      InYearStep, Statuses
<1>9. CASE Download(r)
  <2>1. pc[r] = "downloading" /\ pc'[r] = "comparing"
    BY <1>1, <1>9 DEF TypeOK, Download, Goto
  <2>2. /\ Slot(r) \in loaded[r] /\ Slot(r) \in Families \X Years
        /\ family[r] \in Families
    BY <1>1, <2>1 DEF TypeOK, StepOK, WithSlot, InYearStep
  <2>3. published[Slot(r)] \in Contents
    BY <1>1, <2>2 DEF TypeOK
  <2>4. TypeOK'
    BY <1>1, <1>9, <2>3 DEF TypeOK, Download, Goto, dbVars, worldVars, Locations
  <2>5. OnlyMoves(r)
    BY <1>1, <1>9 DEF TypeOK, Download, Goto, OnlyMoves, Rests
  <2>6. PICK f \in Families : f = family[r] /\ f = family'[r]
    BY <1>9, <2>2 DEF Download
  <2>7. target'[r] \in (FirstIngested(family[r])..TargetYear(family[r]))'
    <3>1. target[r] \in FirstIngested(f)..TargetYear(f)
      BY <1>1, <2>1, <2>6 DEF StepOK, InYearStep
    <3>2. TargetYear(f)' = TargetYear(f)
      BY <1>9, DatabaseUnchanged DEF Download
    <3> QED
      BY <1>9, <2>6, <3>1, <3>2 DEF Download
  <2>8. fetched'[r] \in Contents
    BY <1>1, <1>9, <2>3 DEF TypeOK, Download
  <2>9. StepOK(r)'
    BY <1>9, <2>1, <2>2, <2>6, <2>7, <2>8 DEF StepOK, Download, Slot, WithBatch
  <2>10. ResultsOK(r)'
    BY <1>1, <1>9 DEF Download, ResultsOK, dbVars
  <2> QED
    BY <1>9, <2>4, <2>5, <2>9, <2>10 DEF LocalGoal, Download
<1>10. CASE CompareArchived(r) \/ ReuseArchived(r) \/ Validate(r) \/ BeginInsert(r)
  <2>1. archive' \in [Families \X Years -> Contents \cup {Absent} \cup Runners]
    BY <1>1, <1>10 DEF TypeOK, CompareArchived, ReuseArchived, Validate, BeginInsert
  <2>2. Slot(r) \in loaded[r]
    BY <1>1, <1>10
    DEF StepOK, CompareArchived, ReuseArchived, Validate, BeginInsert, Continue, Goto,
        WithSlot, InYearStep
  <2>3. CASE CompareArchived(r)
    BY <1>2, <2>1, <2>2, <2>3
    DEF CompareArchived, WithSlot, InYearStep, WithContent, WithBatch
  <2>4. CASE ReuseArchived(r)
    BY <1>2, <2>1, <2>2, <2>4
    DEF ReuseArchived, WithSlot, InYearStep, WithContent, WithBatch
  <2>5. CASE Validate(r) \/ BeginInsert(r)
    BY <1>2, <2>1, <2>2, <2>5
    DEF Validate, BeginInsert, WithSlot, InYearStep, WithContent, WithBatch
  <2> QED
    BY <1>10, <2>3, <2>4, <2>5
<1>11. CASE UnlinkArchived(r) \/ CreateArchived(r) \/ WriteArchived(r)
  <2>1. pc[r] \in WithContent
    BY <1>11
    DEF UnlinkArchived, CreateArchived, WriteArchived, Continue, Goto, WithContent, WithSlot,
        InYearStep
  <2>2. Slot(r) \in loaded[r] /\ fetched[r] \in Contents
    BY <1>1, <2>1 DEF StepOK, WithContent
  <2>3. archive' \in [Families \X Years -> Contents \cup {Absent} \cup Runners]
    BY <1>1, <1>11, <2>2 DEF TypeOK, UnlinkArchived, CreateArchived, WriteArchived
  <2>4. CASE UnlinkArchived(r) \/ CreateArchived(r)
    BY <1>2, <2>2, <2>3, <2>4
    DEF UnlinkArchived, CreateArchived, WithSlot, InYearStep, WithContent, WithBatch
  <2>5. CASE WriteArchived(r)
    BY <1>2, <2>2, <2>3, <2>5
    DEF WriteArchived, WithSlot, InYearStep, WithContent, WithBatch
  <2> QED
    BY <1>11, <2>4, <2>5
<1>12. CASE Parse(r)
  <2>1. pc[r] = "parsing" /\ pc'[r] = "validating"
    BY <1>1, <1>12 DEF TypeOK, Parse, Goto
  <2>2. Slot(r) \in loaded[r] /\ Slot(r) \in Families \X Years /\ fetched[r] \in Contents
    BY <1>1, <2>1 DEF TypeOK, StepOK, WithSlot, WithContent, InYearStep
  <2>3. PICK c \in Batches : parsed' = [parsed EXCEPT ![r] = c]
    <3>1. PICK c \in Parses(family[r], archive[Slot(r)]) : parsed' = [parsed EXCEPT ![r] = c]
      BY <1>12 DEF Parse
    <3>2. archive[Slot(r)] \in Contents \cup {Absent} \cup Runners
      BY <1>1, <2>2 DEF TypeOK
    <3>3. c \in Batches
      BY <3>1, <3>2 DEF Parses, Batches
    <3> QED
      BY <3>1, <3>3
  <2>4. TypeOK'
    BY <1>1, <1>12, <2>3 DEF TypeOK, Parse, Goto, dbVars, worldVars, Locations
  <2>5. OnlyMoves(r)
    BY <1>1, <1>12 DEF TypeOK, Parse, Goto, OnlyMoves, Rests
  <2>6. PICK f \in Families : f = family[r] /\ f = family'[r]
    BY <1>1, <1>12, <2>1 DEF Parse, StepOK, InYearStep
  <2>7. target'[r] \in (FirstIngested(family[r])..TargetYear(family[r]))'
    <3>1. target[r] \in FirstIngested(f)..TargetYear(f)
      BY <1>1, <2>1, <2>6 DEF StepOK, InYearStep
    <3>2. TargetYear(f)' = TargetYear(f)
      BY <1>12, DatabaseUnchanged DEF Parse
    <3> QED
      BY <1>12, <2>6, <3>1, <3>2 DEF Parse
  <2>8. parsed'[r] \in Batches
    BY <1>1, <2>3 DEF TypeOK
  <2>9. StepOK(r)'
    BY <1>12, <2>1, <2>2, <2>6, <2>7, <2>8 DEF StepOK, Parse, Slot
  <2>10. ResultsOK(r)'
    BY <1>1, <1>12 DEF Parse, ResultsOK, dbVars
  <2> QED
    BY <1>12, <2>4, <2>5, <2>9, <2>10 DEF LocalGoal, Parse
<1>13. CASE InsertNoRecords(r)
  <2>1. archive' \in [Families \X Years -> Contents \cup {Absent} \cup Runners]
    BY <1>1, <1>13 DEF TypeOK, InsertNoRecords
  <2>2. Slot(r) \in loaded[r]
    BY <1>1, <1>13 DEF StepOK, InsertNoRecords, Continue, Goto, WithSlot, InYearStep
  <2>3. family[r] \in EmptyBatchFamilies
    BY <1>13 DEF InsertNoRecords, YieldsNoRows
  <2> QED
    BY <1>2, <1>13, <2>1, <2>2, <2>3
    DEF InsertNoRecords, WithSlot, InYearStep, WithContent, WithBatch
<1> QED
  BY <1>3, <1>4, <1>5, <1>6, <1>7, <1>8, <1>9, <1>10, <1>11, <1>12, <1>13

--------------------------------------------------------------------------------
(* Steps that write the database, and the steps of the outside world.      *)

\* A step that leaves the database alone keeps the whole invariant.
LEMMA LocalGoalInd ==
  ASSUME IndInv, NEW r \in Runners, LocalGoal(r)
  PROVE  IndInv'
<1>1. Grows
  BY UnchangedGrows DEF LocalGoal
<1>2. \A q \in Runners : StepOK(q)' /\ ResultsOK(q)'
  BY <1>1, RestsOK DEF LocalGoal, OnlyMoves
<1> QED
  BY <1>2, DatabaseUnchanged DEF LocalGoal, IndInv

\* Committing the rows of the target year: factors stay within the family's next year.
LEMMA CommitInsertInd ==
  ASSUME IndInv, NEW r \in Runners, CommitInsert(r)
  PROVE  IndInv'
<1>1. TypeOK /\ StepOK(r) /\ ResultsOK(r)
  BY DEF IndInv
<1>2. pc[r] = "committing" /\ pc'[r] = "recording"
  BY <1>1 DEF TypeOK, CommitInsert, Continue, Goto
<1>3. PICK f \in Families, y \in Years, c \in Contents, b \in Batches :
        /\ f = family[r] /\ y = target[r] /\ c = fetched[r] /\ b = parsed[r]
        /\ y \in FirstIngested(f)..TargetYear(f)
  BY <1>1, <1>2 DEF TypeOK, StepOK, Slot, InYearStep, WithSlot, WithContent, WithBatch
<1>4. factors' = [factors EXCEPT ![<<f, y, c>>] = @ \cup {b}]
  BY <1>3 DEF CommitInsert, Master
<1>5. UNCHANGED <<yearStates, history, archive, configured, published>>
  BY DEF CommitInsert, worldVars
<1>6. TypeOK'
  <2>1. factors' \in [Families \X Years \X Contents -> SUBSET Batches]
    BY <1>1, <1>3, <1>4 DEF TypeOK
  <2>2. pc' \in [Runners -> Locations]
    BY <1>1 DEF TypeOK, CommitInsert, Continue, Goto, Locations
  <2> QED
    BY <1>1, <1>5, <2>1, <2>2 DEF TypeOK, CommitInsert, Continue
<1>7. \A g \in Families : Recorded(g)' /\ TargetYear(g)' = TargetYear(g)
  BY <1>5, TargetYearStable DEF IndInv
<1>8. \A k \in Families \X Years \X Contents : factors[k] \subseteq factors'[k]
  BY <1>1, <1>4 DEF TypeOK
<1>9. Grows
  BY <1>5, <1>7, <1>8 DEF Grows, IndInv, Recorded
<1>10. RecordedHasFactors'
  BY <1>5, <1>8 DEF IndInv, RecordedHasFactors, HasFactors
<1>11. HasFactors(f, y)'
  BY <1>1, <1>3, <1>4 DEF TypeOK, HasFactors
<1>12. FactorsWithinNextYear'
  <2> SUFFICES ASSUME NEW g \in Families, NEW z \in Years, HasFactors(g, z)'
               PROVE  z \in FirstIngested(g)..TargetYear(g)
    BY <1>7 DEF FactorsWithinNextYear, FirstIngested
  <2>1. CASE g = f /\ z = y
    BY <1>3, <2>1
  <2>2. CASE ~(g = f /\ z = y)
    <3>1. HasFactors(g, z)
      BY <1>1, <1>4, <2>2 DEF TypeOK, HasFactors
    <3> QED
      BY <3>1 DEF IndInv, FactorsWithinNextYear
  <2> QED
    BY <2>1, <2>2
<1>13. OnlyMoves(r)
  BY <1>1 DEF TypeOK, CommitInsert, Continue, Goto, OnlyMoves, Rests
<1>14. StepOK(r)'
  <2>1. f = family'[r] /\ y = target'[r] /\ c = fetched'[r] /\ b = parsed'[r]
    BY <1>3 DEF CommitInsert, Continue
  <2>2. target'[r] \in (FirstIngested(family[r])..TargetYear(family[r]))'
    BY <1>3, <1>7, <2>1
  <2>3. Slot(r)' \in loaded'[r]
    BY <1>1, <1>2 DEF StepOK, CommitInsert, Continue, Slot, WithSlot, InYearStep
  <2>4. HasFactors(family[r], target[r])'
    BY <1>11, <2>1
  <2> QED
    BY <1>2, <2>1, <2>2, <2>3, <2>4 DEF StepOK
<1>15. ResultsOK(r)'
  BY <1>1, <1>5 DEF CommitInsert, Continue, ResultsOK
<1>16. \A q \in Runners : StepOK(q)' /\ ResultsOK(q)'
  BY <1>9, <1>13, <1>14, <1>15, RestsOK DEF OnlyMoves
<1>17. HistoryIsTrue'
  BY <1>5 DEF IndInv, HistoryIsTrue
<1> QED
  BY <1>6, <1>7, <1>10, <1>12, <1>16, <1>17 DEF IndInv

\* Recording a year: the interval of recorded years grows by its next year or not at all.
LEMMA RecordYearInd ==
  ASSUME IndInv, NEW r \in Runners, RecordYear(r)
  PROVE  IndInv'
<1>1. TypeOK /\ StepOK(r) /\ ResultsOK(r)
  BY DEF IndInv
<1>2. pc[r] = "recording" /\ pc'[r] = "selecting"
  BY <1>1 DEF TypeOK, RecordYear, Goto
<1>3. PICK f \in Families, y \in Years :
        /\ f = family[r] /\ y = target[r]
        /\ y \in FirstIngested(f)..TargetYear(f)
        /\ f \in EmptyBatchFamilies \/ HasFactors(f, y)
  BY <1>1, <1>2 DEF TypeOK, StepOK, Slot, InYearStep, WithSlot
<1>4. yearStates' = [yearStates EXCEPT ![f] = @ \cup {y}]
  BY <1>3 DEF RecordYear
<1>5. UNCHANGED <<factors, history, archive, configured, published>>
  BY DEF RecordYear, worldVars
<1>6. \A g \in Families \ {f} : yearStates'[g] = yearStates[g]
  BY <1>1, <1>4 DEF TypeOK
<1>7. yearStates'[f] = yearStates[f] \cup {y}
  BY <1>1, <1>4 DEF TypeOK
<1>8. ASSUME NEW g \in Families \ {f}
      PROVE  Recorded(g)' /\ TargetYear(g)' = TargetYear(g)
  <2>1. TargetYear(g)' = TargetYear(g)
    BY <1>6 DEF TargetYear, LatestIngestedYear
  <2> QED
    BY <1>6, <2>1 DEF Recorded, IndInv, FirstIngested
<1>9. Recorded(f)' /\ TargetYear(f)' >= TargetYear(f)
  <2>1. /\ TargetYear(f) \in Nat /\ FirstIngested(f) \in Nat /\ FirstIngested(f) >= 1
        /\ TargetYear(f) >= FirstIngested(f)
        /\ yearStates[f] = FirstIngested(f)..(TargetYear(f) - 1)
    BY FirstIngestedType DEF IndInv, Recorded
  <2>2. CASE y = TargetYear(f)
    <3>1. yearStates'[f] = FirstIngested(f)..((TargetYear(f) + 1) - 1)
      BY <1>7, <2>1, <2>2
    <3>2. TargetYear(f)' = TargetYear(f) + 1
      BY <2>1, <3>1, TargetYearWillBeNext
    <3> QED
      BY <2>1, <3>1, <3>2 DEF Recorded, FirstIngested
  <2>3. CASE y # TargetYear(f)
    <3>1. yearStates'[f] = yearStates[f]
      BY <1>3, <1>7, <2>1, <2>3
    <3>2. TargetYear(f)' = TargetYear(f)
      BY <3>1 DEF TargetYear, LatestIngestedYear
    <3> QED
      BY <2>1, <3>1, <3>2 DEF Recorded, FirstIngested
  <2> QED
    BY <2>2, <2>3
<1>10. TypeOK'
  BY <1>1, <1>3, <1>4, <1>5, CycleAssumption
  DEF TypeOK, RecordYear, FinishFamily, Goto, Locations, Statuses, Results, CycleAssumption, Years
<1>11. Grows
  BY <1>1, <1>5, <1>6, <1>7, <1>8, <1>9 DEF Grows, IndInv, Recorded
<1>12. RecordedHasFactors'
  <2> SUFFICES ASSUME NEW g \in Families, g \notin EmptyBatchFamilies, NEW z \in yearStates'[g]
               PROVE  z \in Years /\ HasFactors(g, z)'
    BY DEF RecordedHasFactors
  <2>1. CASE z \in yearStates[g]
    BY <1>5, <2>1 DEF IndInv, RecordedHasFactors, HasFactors
  <2>2. CASE z \notin yearStates[g]
    <3>1. g = f /\ z = y
      BY <1>6, <1>7, <2>2
    <3> QED
      BY <1>3, <1>5, <3>1 DEF HasFactors
  <2> QED
    BY <2>1, <2>2
<1>13. FactorsWithinNextYear'
  <2> SUFFICES ASSUME NEW g \in Families, NEW z \in Years, HasFactors(g, z)'
               PROVE  z \in FirstIngested(g)..TargetYear(g)'
    BY DEF FactorsWithinNextYear, FirstIngested
  <2>1. z \in FirstIngested(g)..TargetYear(g)
    BY <1>5 DEF IndInv, FactorsWithinNextYear, HasFactors
  <2>2. TargetYear(g) \in Nat /\ TargetYear(g)' \in Nat /\ TargetYear(g)' >= TargetYear(g)
    BY <1>11 DEF Grows, IndInv, Recorded
  <2>3. FirstIngested(g) \in Nat /\ z \in Nat
    BY FirstIngestedType, CycleAssumption DEF Years, CycleAssumption
  <2> QED
    BY <2>1, <2>2, <2>3
<1>14. HistoryIsTrue'
  BY <1>1, <1>5, <1>6, <1>7 DEF IndInv, HistoryIsTrue, TypeOK
<1>15. OnlyMoves(r)
  BY <1>1 DEF TypeOK, RecordYear, FinishFamily, Goto, OnlyMoves, Rests
<1>16. StepOK(r)'
  BY <1>2 DEF StepOK, InYearStep, WithSlot, WithContent, WithBatch
<1>17. ResultsOK(r)'
  BY <1>1, <1>3, <1>6, <1>7 DEF RecordYear, FinishFamily, ResultsOK, TypeOK, Results
<1>18. \A q \in Runners : StepOK(q)' /\ ResultsOK(q)'
  BY <1>11, <1>15, <1>16, <1>17, RestsOK DEF OnlyMoves
<1> QED
  BY <1>8, <1>9, <1>10, <1>12, <1>13, <1>14, <1>18 DEF IndInv

\* Persisting the run history: what is claimed was recorded.
LEMMA PersistHistoryInd ==
  ASSUME IndInv, NEW r \in Runners, PersistHistory(r)
  PROVE  IndInv'
<1>1. TypeOK /\ ResultsOK(r)
  BY DEF IndInv
<1>2. UNCHANGED <<yearStates, factors, archive, worldVars>>
  BY DEF PersistHistory
<1>3. \A f \in Families : Recorded(f)' /\ TargetYear(f)' = TargetYear(f)
  BY <1>2, TargetYearStable DEF IndInv
<1>4. ASSUME NEW entry \in history'
      PROVE  entry \in Families \X Nat /\ entry[2] \in yearStates[entry[1]]
  <2>1. CASE entry \in history
    BY <1>1, <2>1 DEF TypeOK, IndInv, HistoryIsTrue
  <2>2. CASE entry \notin history
    <3>1. PICK x \in results[r] : x.status = "completed" /\ entry = <<x.family, x.year>>
      BY <1>4, <2>2 DEF PersistHistory
    <3>2. x \in Results
      BY <1>1 DEF TypeOK
    <3> QED
      BY <1>1, <3>1, <3>2 DEF ResultsOK, Results
  <2> QED
    BY <2>1, <2>2
<1>5. TypeOK'
  BY <1>1, <1>2, <1>4 DEF TypeOK, PersistHistory, Goto, worldVars, Locations
<1>6. HistoryIsTrue'
  BY <1>2, <1>4 DEF HistoryIsTrue
<1>7. RecordedHasFactors'
  BY <1>2 DEF IndInv, RecordedHasFactors, HasFactors
<1>8. FactorsWithinNextYear'
  BY <1>2, <1>3 DEF IndInv, FactorsWithinNextYear, HasFactors, FirstIngested
<1>9. Grows
  BY <1>2, <1>3 DEF Grows, IndInv, Recorded
<1>10. OnlyMoves(r)
  BY <1>1 DEF TypeOK, PersistHistory, Goto, OnlyMoves, Rests
<1>11. StepOK(r)' /\ ResultsOK(r)'
  BY <1>1
  DEF TypeOK, PersistHistory, Goto, StepOK, ResultsOK, InYearStep, WithSlot, WithContent, WithBatch
<1> QED
  BY <1>3, <1>5, <1>6, <1>7, <1>8, <1>9, <1>10, <1>11, RestsOK DEF OnlyMoves, IndInv

\* The operator, the publisher and stuttering touch no runner and no table.
LEMMA OutsideInd ==
  ASSUME IndInv, WorldStep \/ UNCHANGED vars
  PROVE  IndInv'
<1>1. UNCHANGED <<dbVars, archive, localVars>>
  BY DEF WorldStep, Configure, Publish, vars, dbVars, localVars
<1>2. /\ configured' \subseteq Families \X Years
      /\ published' \in [Families \X Years -> Contents]
  BY DEF IndInv, TypeOK, WorldStep, Configure, Publish, vars
<1>3. TypeOK'
  BY <1>1, <1>2 DEF IndInv, TypeOK, dbVars, localVars
<1>4. \A q \in Runners : Rests(q)
  BY <1>1 DEF Rests, localVars
<1>5. Grows
  BY <1>1, UnchangedGrows
<1> QED
  BY <1>1, <1>3, <1>4, <1>5, DatabaseUnchanged, RestsOK DEF IndInv

\* Every step keeps the inductive invariant.
THEOREM NextInd == IndInv /\ [Next]_vars => IndInv'
<1> SUFFICES ASSUME IndInv, [Next]_vars PROVE IndInv'
  OBVIOUS
<1>1. CASE WorldStep \/ UNCHANGED vars
  BY <1>1, OutsideInd
<1>2. ASSUME NEW r \in Runners, Start(r) \/ YearStep(r) \/ LoopStep(r) \/ Crash(r)
      PROVE  IndInv'
  <2>1. CASE CommitInsert(r)
    BY <2>1, CommitInsertInd
  <2>2. CASE RecordYear(r)
    BY <2>2, RecordYearInd
  <2>3. CASE PersistHistory(r)
    BY <2>3, PersistHistoryInd
  <2>4. CASE ~(CommitInsert(r) \/ RecordYear(r) \/ PersistHistory(r))
    <3>1. LocalGoal(r)
      BY <1>2, <2>4, LocalActions DEF YearStep, LoopStep
    <3> QED
      BY <3>1, LocalGoalInd
  <2> QED
    BY <2>1, <2>2, <2>3, <2>4
<1> QED
  BY <1>1, <1>2 DEF Next

\* The inductive invariant holds of every reachable state.
THEOREM Invariance == Spec => []IndInv
<1> QED
  BY InitInd, NextInd, PTL DEF Spec

--------------------------------------------------------------------------------
(* The results.                                                            *)

\* Every variable of the configured cycle stays in its type.
THEOREM TypeCorrect == Spec => []TypeOK
<1>1. IndInv => TypeOK
  BY DEF IndInv
<1> QED
  BY <1>1, Invariance, PTL

\* The recorded years of a family never skip one and never start late or early,
\* however many runners overlap, fail and crash.
THEOREM LedgerStaysContiguous == Spec => []LedgerContiguous
<1>1. ASSUME IndInv PROVE LedgerContiguous
  <2> SUFFICES ASSUME NEW f \in Families, NEW y \in yearStates[f]
               PROVE  y >= FirstIngested(f) /\ FirstIngested(f)..y \subseteq yearStates[f]
    BY DEF LedgerContiguous
  <2>1. /\ TargetYear(f) \in Nat /\ FirstIngested(f) \in Nat
        /\ yearStates[f] = FirstIngested(f)..(TargetYear(f) - 1)
    BY <1>1, FirstIngestedType DEF IndInv, Recorded
  <2> QED
    BY <2>1
<1> QED
  BY <1>1, Invariance, PTL

\* A recorded year has committed factor rows, unless the family accepts empty batches.
THEOREM RecordedAlwaysHasFactors == Spec => []RecordedHasFactors
<1>1. IndInv => RecordedHasFactors
  BY DEF IndInv
<1> QED
  BY <1>1, Invariance, PTL

\* No factor row is ever committed beyond the family's next year.
THEOREM FactorsStayWithinNextYear == Spec => []FactorsWithinNextYear
<1>1. IndInv => FactorsWithinNextYear
  BY DEF IndInv
<1> QED
  BY <1>1, Invariance, PTL

\* The run history never claims a year that is not recorded.
THEOREM HistoryStaysTrue == Spec => []HistoryIsTrue
<1>1. IndInv => HistoryIsTrue
  BY DEF IndInv
<1> QED
  BY <1>1, Invariance, PTL

--------------------------------------------------------------------------------
(* The cycle implements the ledger.                                        *)

StoredSlots == {slot \in Families \X Years : HasFactors(slot[1], slot[2])}

\* Steps that change neither year states nor factors are stuttering steps of the ledger.
LEMMA QuietIsStutter ==
  ASSUME UNCHANGED <<yearStates, factors>>
  PROVE  UNCHANGED <<yearStates, StoredSlots>>
BY DEF StoredSlots, HasFactors

\* A commit stores rows of the next year or again of a recorded one.
LEMMA CommitIsStore ==
  ASSUME IndInv, NEW r \in Runners, CommitInsert(r)
  PROVE  Ledger!Next
<1>1. TypeOK /\ StepOK(r)
  BY DEF IndInv
<1>2. PICK f \in Families, y \in Years, c \in Contents, b \in Batches :
        /\ f = family[r] /\ y = target[r] /\ c = fetched[r] /\ b = parsed[r]
        /\ y \in FirstIngested(f)..TargetYear(f)
  <2>1. pc[r] = "committing"
    BY DEF CommitInsert, Continue, Goto
  <2> QED
    BY <1>1, <2>1 DEF TypeOK, StepOK, Slot, InYearStep, WithSlot, WithContent, WithBatch
<1>3. factors' = [factors EXCEPT ![<<f, y, c>>] = @ \cup {b}] /\ yearStates' = yearStates
  BY <1>2 DEF CommitInsert, Master
<1>4. StoredSlots' = StoredSlots \cup {<<f, y>>}
  <2>1. HasFactors(f, y)'
    BY <1>1, <1>2, <1>3 DEF TypeOK, HasFactors
  <2>2. ASSUME NEW g \in Families, NEW z \in Years, ~(g = f /\ z = y)
        PROVE  HasFactors(g, z)' <=> HasFactors(g, z)
    BY <1>1, <1>3, <2>2 DEF TypeOK, HasFactors
  <2> QED
    BY <2>1, <2>2, <1>2 DEF StoredSlots
<1>5. /\ TargetYear(f) \in Nat /\ FirstIngested(f) \in Nat /\ y \in Nat /\ y <= LastYear
      /\ yearStates[f] = FirstIngested(f)..(TargetYear(f) - 1)
      /\ LastYear \in Nat
  BY FirstIngestedType, CycleAssumption DEF IndInv, Recorded, Years, CycleAssumption
<1>6. Ledger!IsNextYear(f, y) \/ y \in yearStates[f]
  BY <1>2, <1>5 DEF Ledger!IsNextYear
<1>7. Ledger!Store(f, y)
  BY <1>3, <1>4, <1>6 DEF Ledger!Store, StoredSlots
<1>8. y \in [g \in Families |-> FirstIngested(g)][f]..LastYear
  BY <1>2, <1>5
<1> QED
  BY <1>7, <1>8 DEF Ledger!Next

\* Recording a year advances the ledger, or repeats a year that is there.
LEMMA RecordIsAdvance ==
  ASSUME IndInv, NEW r \in Runners, RecordYear(r)
  PROVE  Ledger!Next \/ UNCHANGED <<yearStates, StoredSlots>>
<1>1. TypeOK /\ StepOK(r)
  BY DEF IndInv
<1>2. PICK f \in Families, y \in Years :
        /\ f = family[r] /\ y = target[r]
        /\ y \in FirstIngested(f)..TargetYear(f)
        /\ f \in EmptyBatchFamilies \/ HasFactors(f, y)
  <2>1. pc[r] = "recording"
    BY DEF RecordYear, Goto
  <2> QED
    BY <1>1, <2>1 DEF TypeOK, StepOK, Slot, InYearStep, WithSlot
<1>3. yearStates' = [yearStates EXCEPT ![f] = @ \cup {y}] /\ factors' = factors
  BY <1>2 DEF RecordYear
<1>4. StoredSlots' = StoredSlots
  BY <1>3 DEF StoredSlots, HasFactors
<1>5. /\ TargetYear(f) \in Nat /\ FirstIngested(f) \in Nat /\ y \in Nat /\ y <= LastYear
      /\ yearStates[f] = FirstIngested(f)..(TargetYear(f) - 1)
      /\ LastYear \in Nat
  BY FirstIngestedType, CycleAssumption DEF IndInv, Recorded, Years, CycleAssumption
<1>6. CASE y \in yearStates[f]
  BY <1>1, <1>3, <1>4, <1>6 DEF TypeOK
<1>7. CASE y \notin yearStates[f]
  <2>1. Ledger!IsNextYear(f, y)
    BY <1>2, <1>5, <1>7 DEF Ledger!IsNextYear
  <2>2. <<f, y>> \in StoredSlots \/ f \in EmptyBatchFamilies
    BY <1>2 DEF StoredSlots
  <2>3. Ledger!Advance(f, y)
    BY <1>3, <1>4, <2>1, <2>2 DEF Ledger!Advance, StoredSlots
  <2>4. y \in [g \in Families |-> FirstIngested(g)][f]..LastYear
    BY <1>2, <1>5
  <2> QED
    BY <2>3, <2>4 DEF Ledger!Next
<1> QED
  BY <1>6, <1>7

\* The configured cycle, with any number of runners, implements the year ledger.
THEOREM ImplementsLedger == Spec => LedgerImplemented
<1>1. Init => Ledger!Init
  <2> SUFFICES ASSUME Init PROVE Ledger!Init
    OBVIOUS
  <2>1. \A f \in Families, y \in Years : ~HasFactors(f, y)
    BY DEF Init, HasFactors
  <2>2. {slot \in Families \X Years : HasFactors(slot[1], slot[2])} = {}
    BY <2>1
  <2> QED
    BY <2>2 DEF Init, Ledger!Init
<1>2. IndInv /\ [Next]_vars => [Ledger!Next]_(Ledger!ledgerVars)
  <2> SUFFICES ASSUME IndInv, [Next]_vars
               PROVE  Ledger!Next \/ UNCHANGED <<yearStates, StoredSlots>>
    BY DEF Ledger!ledgerVars, StoredSlots
  <2>1. CASE WorldStep \/ UNCHANGED vars
    BY <2>1, QuietIsStutter DEF WorldStep, Configure, Publish, vars, dbVars
  <2>2. ASSUME NEW r \in Runners, Start(r) \/ YearStep(r) \/ LoopStep(r) \/ Crash(r)
        PROVE  Ledger!Next \/ UNCHANGED <<yearStates, StoredSlots>>
    <3>1. CASE CommitInsert(r)
      BY <3>1, CommitIsStore
    <3>2. CASE RecordYear(r)
      BY <3>2, RecordIsAdvance
    <3>3. CASE PersistHistory(r)
      BY <3>3, QuietIsStutter DEF PersistHistory
    <3>4. CASE ~(CommitInsert(r) \/ RecordYear(r) \/ PersistHistory(r))
      <4>1. LocalGoal(r)
        BY <2>2, <3>4, LocalActions DEF YearStep, LoopStep
      <4> QED
        BY <4>1, QuietIsStutter DEF LocalGoal, dbVars
    <3> QED
      BY <3>1, <3>2, <3>3, <3>4
  <2> QED
    BY <2>1, <2>2 DEF Next
<1> QED
  BY <1>1, <1>2, Invariance, PTL DEF Spec, LedgerImplemented, Ledger!Spec

--------------------------------------------------------------------------------
(* Checksums, where there is one runner.                                   *)

\* What the runner knows of the file it works on, as nobody else touches it: before it opens
\* the file, that a file which is there has the download's content; then that the file is its
\* own; and from parsing on, that it has read what it downloaded.
KnowsFile(r) ==
  /\ pc[r] = "creating" => archive[Slot(r)] \in {Absent, fetched[r]}
  /\ pc[r] = "writing" => archive[Slot(r)] = r
  /\ pc[r] = "parsing" => archive[Slot(r)] = fetched[r]
  /\ pc[r] \in WithBatch => parsed[r] = fetched[r]

FileInv == ChecksumNamesContent /\ \A r \in Runners : KnowsFile(r)

\* A step of the runner that neither commits nor leads to where it has to know the file.
LEMMA ElsewhereKnows ==
  ASSUME FileInv, NEW r \in Runners, UNCHANGED factors,
         pc'[r] \notin {"creating", "writing", "parsing"} \cup WithBatch
  PROVE  ChecksumNamesContent' /\ KnowsFile(r)'
BY DEF FileInv, ChecksumNamesContent, KnowsFile, WithBatch

\* The steps that make the archived file what was downloaded.
LEMMA ArchivingKnows ==
  ASSUME IndInv, FileInv, NEW r \in Runners,
         \/ CompareArchived(r) \/ UnlinkArchived(r) \/ CreateArchived(r) \/ ReuseArchived(r)
         \/ WriteArchived(r)
  PROVE  ChecksumNamesContent' /\ KnowsFile(r)'
<1>1. TypeOK /\ StepOK(r) /\ KnowsFile(r) /\ ChecksumNamesContent
  BY DEF IndInv, FileInv
<1>2. pc[r] \in {"comparing", "unlinking", "creating", "writing"}
  BY DEF CompareArchived, UnlinkArchived, CreateArchived, ReuseArchived, WriteArchived, Continue,
         Goto
<1>3. Slot(r) \in Families \X Years /\ fetched[r] \in Contents
  BY <1>1, <1>2 DEF StepOK, TypeOK, WithContent, WithSlot, InYearStep
<1>4. UNCHANGED <<factors, family, target, fetched, parsed>>
  BY DEF CompareArchived, UnlinkArchived, CreateArchived, ReuseArchived, WriteArchived, Continue,
         dbVars
<1>5. Slot(r)' = Slot(r)
  BY <1>4 DEF Slot
<1>6. ChecksumNamesContent'
  BY <1>1, <1>4 DEF ChecksumNamesContent
<1>7. CASE CompareArchived(r)
  <2>1. pc'[r] = IF archive[Slot(r)] \in {Absent, fetched[r]} THEN "creating" ELSE "unlinking"
    BY <1>1, <1>7 DEF CompareArchived, Continue, Goto, TypeOK
  <2>2. archive' = archive
    BY <1>7 DEF CompareArchived
  <2> QED
    BY <1>4, <1>5, <1>6, <2>1, <2>2 DEF KnowsFile, WithBatch
<1>8. CASE UnlinkArchived(r)
  <2>1. pc'[r] = "creating" /\ archive'[Slot(r)] = Absent
    BY <1>1, <1>3, <1>8 DEF UnlinkArchived, Continue, Goto, TypeOK
  <2> QED
    BY <1>5, <1>6, <2>1 DEF KnowsFile, WithBatch
<1>9. CASE CreateArchived(r)
  <2>1. pc'[r] = "writing" /\ archive'[Slot(r)] = r
    BY <1>1, <1>3, <1>9 DEF CreateArchived, Continue, Goto, TypeOK
  <2> QED
    BY <1>5, <1>6, <2>1 DEF KnowsFile, WithBatch
<1>10. CASE ReuseArchived(r)
  <2>1. /\ pc'[r] = "parsing" /\ archive' = archive
        /\ pc[r] = "creating" /\ archive[Slot(r)] # Absent
    BY <1>1, <1>10 DEF ReuseArchived, Continue, Goto, TypeOK
  <2>2. archive[Slot(r)] = fetched[r]
    BY <1>1, <2>1 DEF KnowsFile
  <2> QED
    BY <1>4, <1>5, <1>6, <2>1, <2>2 DEF KnowsFile, WithBatch
<1>11. CASE WriteArchived(r)
  <2>1. /\ pc'[r] = "parsing" /\ pc[r] = "writing"
        /\ archive' = [archive EXCEPT ![Slot(r)] = IF @ = r THEN fetched[r] ELSE @]
    BY <1>1, <1>11 DEF WriteArchived, Continue, Goto, TypeOK
  <2>2. archive[Slot(r)] = r
    BY <1>1, <2>1 DEF KnowsFile
  <2>3. archive'[Slot(r)] = fetched[r]
    BY <1>1, <1>3, <2>1, <2>2 DEF TypeOK
  <2> QED
    BY <1>4, <1>5, <1>6, <2>1, <2>3 DEF KnowsFile, WithBatch
<1> QED
  BY <1>7, <1>8, <1>9, <1>10, <1>11

\* The steps from the file to the committed rows.
LEMMA BatchKnows ==
  ASSUME IndInv, FileInv, NEW r \in Runners,
         \/ Parse(r) \/ Validate(r) \/ InsertNoRecords(r) \/ BeginInsert(r) \/ CommitInsert(r)
  PROVE  ChecksumNamesContent' /\ KnowsFile(r)'
<1>1. TypeOK /\ StepOK(r) /\ KnowsFile(r) /\ ChecksumNamesContent
  BY DEF IndInv, FileInv
<1>2. pc[r] \in {"parsing", "validating", "inserting", "committing"} /\ pc'[r] \in WithBatch
  BY <1>1 DEF Parse, Validate, InsertNoRecords, BeginInsert, CommitInsert, Continue, Goto,
              WithBatch, TypeOK
<1>3. Slot(r) \in Families \X Years /\ fetched[r] \in Contents /\ fetched' = fetched
  BY <1>1, <1>2 DEF StepOK, TypeOK, WithContent, WithSlot, InYearStep, Parse, Validate,
                    InsertNoRecords, BeginInsert, CommitInsert, Continue
<1>4. CASE Parse(r)
  <2>1. archive[Slot(r)] = fetched[r]
    BY <1>1, <1>4 DEF KnowsFile, Parse, Goto
  <2>2. fetched[r] # Absent /\ fetched[r] \notin Runners
    BY <1>3, CycleAssumption DEF CycleAssumption
  <2>3. PICK c \in Parses(family[r], archive[Slot(r)]) : parsed' = [parsed EXCEPT ![r] = c]
    BY <1>4 DEF Parse
  <2>4. c = fetched[r]
    BY <2>1, <2>2, <2>3 DEF Parses
  <2>5. parsed'[r] = fetched'[r] /\ factors' = factors
    BY <1>1, <1>3, <1>4, <2>3, <2>4 DEF TypeOK, Parse, dbVars
  <2> QED
    BY <1>1, <1>2, <2>5 DEF KnowsFile, WithBatch, ChecksumNamesContent
<1>5. ASSUME Validate(r) \/ InsertNoRecords(r) \/ BeginInsert(r) \/ CommitInsert(r)
      PROVE  KnowsFile(r)' /\ parsed[r] = fetched[r]
  <2>1. parsed' = parsed /\ parsed[r] = fetched[r]
    BY <1>1, <1>5 DEF KnowsFile, WithBatch, Validate, InsertNoRecords, BeginInsert, CommitInsert,
                      Continue, Goto
  <2> QED
    BY <1>2, <1>3, <2>1 DEF KnowsFile, WithBatch
<1>6. CASE Validate(r) \/ InsertNoRecords(r) \/ BeginInsert(r)
  BY <1>1, <1>5, <1>6
  DEF Validate, InsertNoRecords, BeginInsert, dbVars, ChecksumNamesContent
<1>7. CASE CommitInsert(r)
  <2>1. factors' = [factors EXCEPT ![Master(r)] = @ \cup {fetched[r]}]
    BY <1>5, <1>7 DEF CommitInsert
  <2>2. SUFFICES ASSUME NEW f \in Families, NEW y \in Years, NEW c \in Contents
                 PROVE  factors'[<<f, y, c>>] \subseteq {c}
    BY <1>5, <1>7 DEF ChecksumNamesContent
  <2>3. factors[<<f, y, c>>] \subseteq {c}
    BY <1>1 DEF ChecksumNamesContent
  <2>4. CASE <<f, y, c>> = Master(r)
    <3>1. c = fetched[r]
      BY <2>4 DEF Master
    <3> QED
      BY <1>1, <2>1, <2>3, <2>4, <3>1 DEF TypeOK
  <2>5. CASE <<f, y, c>> # Master(r)
    BY <1>1, <2>1, <2>3, <2>5 DEF TypeOK
  <2> QED
    BY <2>4, <2>5
<1> QED
  BY <1>4, <1>5, <1>6, <1>7

\* No runner but this one moves, and the operator and the publisher touch no archived file.
LEMMA FileInvInductive ==
  ASSUME \A r, q \in Runners : r = q, IndInv, FileInv, [Next]_vars
  PROVE  FileInv'
<1>1. TypeOK
  BY DEF IndInv
<1>2. ASSUME NEW r \in Runners, Start(r) \/ YearStep(r) \/ LoopStep(r) \/ Crash(r)
      PROVE  ChecksumNamesContent' /\ KnowsFile(r)'
  <2>1. CASE \/ CompareArchived(r) \/ UnlinkArchived(r) \/ CreateArchived(r) \/ ReuseArchived(r)
             \/ WriteArchived(r)
    BY <2>1, ArchivingKnows
  <2>2. CASE \/ Parse(r) \/ Validate(r) \/ InsertNoRecords(r) \/ BeginInsert(r)
             \/ CommitInsert(r)
    BY <2>2, BatchKnows
  <2>3. CASE Exit(r) \/ Crash(r) \/ UnlinkRaises(r)
    <3>1. factors' = factors /\ pc'[r] \in Ended
      BY <1>1, <2>3 DEF Exit, Crash, UnlinkRaises, EndProcess, Ended, TypeOK, dbVars
    <3> QED
      BY <3>1, ElsewhereKnows DEF Ended, WithBatch
  <2>4. CASE \/ DiscoverNothing(r) \/ DownloadFails(r) \/ ParseFails(r) \/ ValidationFails(r)
             \/ InsertFails(r)
    <3>1. factors' = factors /\ pc'[r] = "selecting"
      BY <1>1, <2>4 DEF DiscoverNothing, DownloadFails, ParseFails, ValidationFails, InsertFails,
                        Finish, Goto, TypeOK, dbVars
    <3> QED
      BY <3>1, ElsewhereKnows DEF WithBatch
  <2>5. CASE \/ Start(r) \/ CompleteCycle(r) \/ PersistHistory(r) \/ NextCycle(r)
             \/ SelectTargetYear(r) \/ Discover(r) \/ Download(r) \/ RecordYear(r)
    <3>1. /\ factors' = factors
          /\ pc'[r] \in {"selecting", "reporting", "sleeping", "discovering", "downloading",
                         "comparing"}
      BY <1>1, <2>5 DEF Start, CompleteCycle, PersistHistory, NextCycle, SelectTargetYear,
                        Discover, Download, RecordYear, Continue, Goto, TypeOK, dbVars
    <3> QED
      BY <3>1, ElsewhereKnows DEF WithBatch
  <2> QED
    BY <1>2, <2>1, <2>2, <2>3, <2>4, <2>5 DEF YearStep, LoopStep
<1>3. CASE WorldStep \/ UNCHANGED vars
  <2>1. UNCHANGED <<factors, archive, pc, family, target, fetched, parsed>>
    BY <1>3 DEF WorldStep, Configure, Publish, vars, dbVars, localVars
  <2> QED
    BY <2>1 DEF FileInv, ChecksumNamesContent, KnowsFile, Slot
<1>4. CASE \E r \in Runners : Start(r) \/ YearStep(r) \/ LoopStep(r) \/ Crash(r)
  BY <1>2, <1>4 DEF FileInv
<1> QED
  BY <1>3, <1>4 DEF Next

\* Where there is one runner, the rows under a master come from the artifact whose checksum it
\* bears, however often the runner is killed in the middle of a file and whatever is published
\* meanwhile (_write_archived_artifact).
THEOREM ChecksumsStayTrue ==
  ASSUME \A r, q \in Runners : r = q
  PROVE  Spec => []ChecksumNamesContent
<1>1. Init => FileInv
  BY DEF Init, FileInv, ChecksumNamesContent, KnowsFile, WithBatch
<1>2. IndInv /\ FileInv /\ [Next]_vars => FileInv'
  BY FileInvInductive
<1>3. FileInv => ChecksumNamesContent
  BY DEF FileInv
<1> QED
  BY <1>1, <1>2, <1>3, Invariance, PTL DEF Spec
===============================================================================
