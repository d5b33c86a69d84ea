----------------------- MODULE SourceAcquisition_proofs -----------------------
(***************************************************************************)
(* Proofs about the two parts of source acquisition, which share nothing   *)
(* but their place in the code: SourceDownload, for any number of          *)
(* executions, requests, editions and directories, and the contracts, for  *)
(* any number of chains, sources, catalogues, adapter registries and       *)
(* replacements (OrchestrationContracts and the modules it extends).       *)
(***************************************************************************)
EXTENDS SourceDownload, OrchestrationContracts, FiniteSetTheorems, TLAPS

Takes == INSTANCE FoldTheorems WITH Op <- WithCandidate

-----------------------------------------------------------------------------
(* The download executions: the invariant.  Its parts are stated for an     *)
(* execution r of e and for files F, to compare two states.                 *)

FileType == [state : FileStates, of : Editions \cup {Absent}, by : Executions \cup {Absent}]

Codes == {"symlink_unsafe", "target_not_file", "target_exists", "parent_changed", "parent_failed",
          "existing_read_failed", "existing_empty", "existing_checksum_mismatch",
          "checksum_mismatch", "transport", "write_failed"}

IssueType == Codes \cup UNION {RequestIssues(request) : request \in Requests}

ResultType ==
  [status : {"none", "blocked", "failed", "downloaded"},
   checksum : (FileStates \X (Editions \cup {Absent})) \cup {Absent},
   reused : BOOLEAN, issues : SUBSET IssueType]

\* At these places an execution holds its directory open.
HoldsDirectory == {"exists", "reading", "fetch", "ensure", "open", "write", "close"}

RunType ==
  [pc : HoldsDirectory \cup {"idle", "prepare", "done"}, request : Requests \cup {Absent},
   dir : 0..MaxDirectories, content : Editions \cup {Absent}, result : ResultType]

\* A file that is being written where nobody overwrites belongs to its writer.
WritesAlone(e, r, F, W) ==
  (r.pc \in {"write", "close"} /\ r.dir \notin W)
    => /\ F[r.dir].by = e
       /\ F[r.dir].of = r.content
       /\ F[r.dir].state = IF r.pc = "write" THEN "empty" ELSE "part"

Downloads(r) == r.pc = "done" /\ r.result.status = "downloaded"

StaysDownloaded(r, F, W) ==
  (/\ Downloads(r)
   /\ r.result.reused => r.request.expected # Absent
   /\ r.dir \notin W)
    => F[r.dir].state = "whole" /\ Checksum(F[r.dir]) = r.result.checksum

Answers(r) ==
  (r.pc = "done" /\ RequestIssues(r.request) = {}) => ResultIssues(r.request, r.result) = {}

RunOK(e, r, F, W, m) ==
  /\ r \in RunType
  /\ r.dir <= m
  /\ r.pc # "idle" => r.request \in Requests
  /\ r.pc \in HoldsDirectory \/ Downloads(r) => r.dir \in Directories
  /\ WritesAlone(e, r, F, W)
  /\ StaysDownloaded(r, F, W)
  /\ Answers(r)

DiskTyped ==
  /\ family \in Families
  /\ made \in 0..MaxDirectories
  /\ here \in -1..made
  /\ files \in [Directories -> FileType]
  /\ overwritten \subseteq Directories

IndInv ==
  /\ DiskTyped
  /\ run \in [Executions -> RunType]
  /\ \A e \in Executions : RunOK(e, run[e], files, overwritten, made)

-----------------------------------------------------------------------------
(* The initial states, and what a step leaves alone.                       *)

\* At the beginning.
LEMMA InitHolds == Init => IndInv
<1> SUFFICES ASSUME Init PROVE IndInv
  OBVIOUS
<1>1. NoFile \in FileType /\ Folder \in FileType
  BY DEF NoFile, Folder, FileType, FileStates
<1>2. MaxDirectories \in Nat \ {0}
  BY DownloadAssumption DEF DownloadAssumption
<1>3. DiskTyped
  <2>1. /\ family \in Families /\ overwritten \subseteq Directories
        /\ made \in 0..MaxDirectories /\ here \in -1..made
    BY <1>2 DEF Init, Missing, Symlink, Directories
  <2>2. files \in [Directories -> FileType]
    BY <1>1 DEF Init
  <2> QED
    BY <2>1, <2>2 DEF DiskTyped
<1>4. NoResult \in ResultType
  BY DEF NoResult, Rejected, ResultType
<1>5. NotRunning \in RunType /\ NotRunning.pc = "idle" /\ NotRunning.dir = 0
  BY <1>2, <1>4 DEF NotRunning, Started, RunType, Missing
<1>6. \A e \in Executions : RunOK(e, NotRunning, files, overwritten, made)
  BY <1>3, <1>5 DEF RunOK, WritesAlone, StaysDownloaded, Downloads, Answers, HoldsDirectory,
     DiskTyped
<1> QED
  BY <1>3, <1>5, <1>6 DEF Init, IndInv

\* What a step may do to the files: to those in directories that are overwritten
\* anything, else only to one that is not there, a folder or its own unfinished one.
FilesKept(e) ==
  /\ overwritten \subseteq overwritten'
  /\ made <= made' /\ made' \in Nat
  /\ \A d \in Directories :
       files'[d] # files[d] =>
         \/ d \in overwritten'
         \/ files[d].state \in {"none", "folder"}
         \/ files[d].state \in {"empty", "part"} /\ files[d].by = e

\* Such a step keeps what holds of another execution.
LEMMA OthersKeep ==
  ASSUME IndInv, NEW e, NEW o \in Executions, o # e, FilesKept(e)
  PROVE  RunOK(o, run[o], files', overwritten', made')
<1> DEFINE r == run[o]
<1>1. RunOK(o, r, files, overwritten, made)
  BY DEF IndInv
<1>2. r \in RunType /\ r.dir <= made' /\ (r.pc # "idle" => r.request \in Requests) /\ Answers(r)
      /\ (r.pc \in HoldsDirectory \/ Downloads(r) => r.dir \in Directories)
  <2>1. made \in Nat /\ r.dir \in Nat
    BY <1>1, DownloadAssumption DEF RunOK, RunType, IndInv, DiskTyped, DownloadAssumption
  <2> QED
    BY <1>1, <2>1 DEF RunOK, FilesKept
<1>3. WritesAlone(o, r, files', overwritten')
  <2> SUFFICES ASSUME r.pc \in {"write", "close"}, r.dir \notin overwritten'
               PROVE  files'[r.dir] = files[r.dir] /\ r.dir \notin overwritten
    BY <1>1 DEF RunOK, WritesAlone
  <2>1. r.dir \in Directories /\ r.dir \notin overwritten
    BY <1>2 DEF HoldsDirectory, FilesKept
  <2>2. files[r.dir].by = o /\ files[r.dir].state \in {"empty", "part"}
    BY <1>1, <2>1 DEF RunOK, WritesAlone
  <2> QED
    BY <2>1, <2>2 DEF FilesKept
<1>4. StaysDownloaded(r, files', overwritten')
  <2> SUFFICES ASSUME Downloads(r), r.result.reused => r.request.expected # Absent,
                      r.dir \notin overwritten'
               PROVE  files'[r.dir] = files[r.dir] /\ r.dir \notin overwritten
    BY <1>1 DEF RunOK, StaysDownloaded
  <2>1. r.dir \in Directories /\ r.dir \notin overwritten
    BY <1>2 DEF FilesKept
  <2>2. files[r.dir].state = "whole"
    BY <1>1, <2>1 DEF RunOK, StaysDownloaded
  <2> QED
    BY <2>1, <2>2 DEF FilesKept
<1> QED
  BY <1>2, <1>3, <1>4 DEF RunOK

\* So it is enough to look at the execution that makes the step.
LEMMA StepKeepsInv ==
  ASSUME IndInv, NEW e \in Executions, FilesKept(e), DiskTyped', NEW r,
         run' = [run EXCEPT ![e] = r], RunOK(e, r, files', overwritten', made')
  PROVE  IndInv'
<1>1. r \in RunType
  BY DEF RunOK
<1>2. run' \in [Executions -> RunType]
  BY <1>1 DEF IndInv
<1>3. \A o \in Executions : RunOK(o, run'[o], files', overwritten', made')
  <2> TAKE o \in Executions
  <2>1. CASE o = e
    BY <2>1 DEF IndInv
  <2>2. CASE o # e
    <3>1. run'[o] = run[o]
      BY <2>2 DEF IndInv
    <3> QED
      BY <2>2, <3>1, OthersKeep
  <2> QED
    BY <2>1, <2>2
<1> QED
  BY <1>2, <1>3 DEF IndInv

-----------------------------------------------------------------------------
(* The execution that makes the step.                                      *)

\* A step that leaves the disk alone.
LEMMA SameFiles ==
  ASSUME IndInv, NEW e, UNCHANGED Files
  PROVE  FilesKept(e) /\ DiskTyped'
BY DownloadAssumption DEF IndInv, DiskTyped, FilesKept, Files, DownloadAssumption

\* The records the code's answers become.
LEMMA RejectedTyped ==
  ASSUME NEW status \in {"blocked", "failed"}, NEW code \in Codes
  PROVE  /\ Rejected(status, {code}) \in ResultType
         /\ Rejected(status, {code}).status # "downloaded"
         /\ StatusIssues(Rejected(status, {code})) = {}
         /\ ArtifactIssues(Rejected(status, {code})) = {}
<1>1. Rejected(status, {code}) \in ResultType
  BY DEF Rejected, ResultType, IssueType
<1> QED
  BY <1>1 DEF Rejected, StatusIssues, ArtifactIssues

\* The answer to a download that is accepted passes the validation of results.
LEMMA DownloadedTyped ==
  ASSUME NEW state \in FileStates \ {"empty"}, NEW content \in Editions \cup {Absent},
         NEW reused \in BOOLEAN
  PROVE  /\ Downloaded(<<state, content>>, reused) \in ResultType
         /\ StatusIssues(Downloaded(<<state, content>>, reused)) = {}
         /\ ArtifactIssues(Downloaded(<<state, content>>, reused)) = {}
<1> DEFINE r == Downloaded(<<state, content>>, reused)
<1>1. r = [status |-> "downloaded", checksum |-> <<state, content>>, reused |-> reused,
           issues |-> {}]
  BY DEF Downloaded
<1>2. <<state, content>> \in FileStates \X (Editions \cup {Absent}) /\ <<state, content>> # Absent
  BY DownloadAssumption DEF DownloadAssumption
<1>3. r \in ResultType
  BY <1>1, <1>2 DEF ResultType
<1> QED
  BY <1>1, <1>2, <1>3 DEF StatusIssues, ArtifactIssues

\* An execution that ends keeps the invariant when its answer passes the
\* validation and, downloaded, tells the truth about the file.
LEMMA EndKeepsInv ==
  ASSUME IndInv, NEW e \in Executions, run[e].pc \notin {"idle", "done"}, FilesKept(e), DiskTyped',
         NEW result \in ResultType, End(e, result),
         StatusIssues(result) = {}, ArtifactIssues(result) = {},
         result.status = "downloaded" => run[e].dir \in Directories,
         (/\ result.status = "downloaded"
          /\ result.reused => run[e].request.expected # Absent
          /\ run[e].dir \notin overwritten')
           => /\ files'[run[e].dir].state = "whole"
              /\ Checksum(files'[run[e].dir]) = result.checksum
  PROVE  IndInv'
<1> DEFINE dir == IF result.status = "downloaded" THEN run[e].dir ELSE 0
           r == [pc |-> "done", request |-> run[e].request, dir |-> dir, content |-> Absent,
                 result |-> result]
<1>1. run[e] \in RunType /\ RunOK(e, run[e], files, overwritten, made)
  BY DEF IndInv
<1>2. run' = [run EXCEPT ![e] = r]
  BY <1>1 DEF End, Missing
<1>3. r \in RunType /\ r.dir <= made'
  <2>1. made \in Nat /\ run[e].dir <= made
    BY <1>1, DownloadAssumption DEF RunOK, IndInv, DiskTyped, DownloadAssumption
  <2>2. dir \in 0..MaxDirectories /\ dir <= made'
    BY <1>1, <2>1, DownloadAssumption DEF RunType, FilesKept, DownloadAssumption
  <2> QED
    BY <1>1, <2>2 DEF RunType
<1>4. Answers(r)
  BY DEF Answers, ResultIssues
<1>5. StaysDownloaded(r, files', overwritten')
  BY DEF StaysDownloaded, Downloads
<1>6. WritesAlone(e, r, files', overwritten')
  BY DEF WritesAlone
<1>7. r.pc \in HoldsDirectory \/ Downloads(r) => r.dir \in Directories
  BY DEF Downloads, HoldsDirectory
<1>8. r.request \in Requests
  BY <1>1 DEF RunOK
<1> HIDE DEF r
<1>9. RunOK(e, r, files', overwritten', made')
  BY <1>3, <1>4, <1>5, <1>6, <1>7, <1>8 DEF RunOK
<1> QED
  BY <1>2, <1>9, StepKeepsInv

\* A rejection is such an answer.
LEMMA RejectKeepsInv ==
  ASSUME IndInv, NEW e \in Executions, run[e].pc \notin {"idle", "done"}, FilesKept(e), DiskTyped',
         NEW status \in {"blocked", "failed"}, NEW code \in Codes, End(e, Rejected(status, {code}))
  PROVE  IndInv'
BY RejectedTyped, EndKeepsInv

\* An execution that goes on to a place where nothing is written yet.
LEMMA AdvanceKeepsInv ==
  ASSUME IndInv, NEW e \in Executions, FilesKept(e), DiskTyped',
         NEW pc \in {"exists", "reading", "fetch", "ensure", "open"},
         NEW dir \in Directories, dir <= made', NEW content \in Editions \cup {Absent},
         run[e].request \in Requests,
         Enter(e, pc, dir, content)
  PROVE  IndInv'
<1> DEFINE r == [pc |-> pc, request |-> run[e].request, dir |-> dir, content |-> content,
                 result |-> run[e].result]
<1>1. r \in RunType
  BY DownloadAssumption DEF IndInv, RunType, HoldsDirectory, Directories, DownloadAssumption
<1>2. RunOK(e, r, files', overwritten', made')
  BY <1>1 DEF RunOK, WritesAlone, StaysDownloaded, Downloads, Answers
<1>3. run' = [run EXCEPT ![e] = r]
  BY DEF Enter
<1> HIDE DEF r
<1> QED
  BY <1>2, <1>3, StepKeepsInv

-----------------------------------------------------------------------------
(* The actions of an execution.                                            *)

\* An execution begins.
LEMMA BeginKeepsInv ==
  ASSUME IndInv, NEW e \in Executions, NEW request \in Requests, Execute(e, request)
  PROVE  IndInv'
<1>1. FilesKept(e) /\ DiskTyped'
  BY SameFiles DEF Execute
<1>2. MaxDirectories \in Nat /\ made' \in Nat
  BY DownloadAssumption DEF DownloadAssumption, Execute, Files, IndInv, DiskTyped
<1>3. NoResult \in ResultType /\ NoResult.status = "none"
  BY DEF NoResult, Rejected, ResultType
<1>4. CASE RequestIssues(request) # {}
  <2> DEFINE result == Rejected("blocked", RequestIssues(request))
             r == Started("done", request, result)
  <2>1. result \in ResultType /\ result.status = "blocked"
    BY DEF Rejected, ResultType, IssueType
  <2> HIDE DEF result
  <2>2. run' = [run EXCEPT ![e] = r]
    BY <1>4 DEF Execute, result
  <2>3. /\ r \in RunType /\ r.pc = "done" /\ r.dir = 0
        /\ r.request = request /\ r.result = result
    BY <1>2, <2>1 DEF Started, Missing, RunType
  <2> HIDE DEF r
  <2>4. RunOK(e, r, files', overwritten', made')
    BY <1>2, <1>4, <2>1, <2>3
    DEF RunOK, WritesAlone, StaysDownloaded, Downloads, Answers, HoldsDirectory
  <2> QED
    BY <1>1, <2>2, <2>4, StepKeepsInv
<1>5. CASE RequestIssues(request) = {}
  <2> DEFINE r == Started("prepare", request, NoResult)
  <2>1. run' = [run EXCEPT ![e] = r]
    BY <1>5 DEF Execute
  <2>2. r \in RunType /\ r.pc = "prepare" /\ r.dir = 0 /\ r.request = request
    BY <1>2, <1>3 DEF Started, Missing, RunType
  <2> HIDE DEF r
  <2>3. RunOK(e, r, files', overwritten', made')
    BY <1>2, <2>2 DEF RunOK, WritesAlone, StaysDownloaded, Downloads, Answers, HoldsDirectory
  <2> QED
    BY <1>1, <2>1, <2>3, StepKeepsInv
<1> QED
  BY <1>4, <1>5

\* The directory is prepared and opened.
LEMMA PrepareKeepsInv ==
  ASSUME IndInv, NEW e \in Executions, Prepare(e)
  PROVE  IndInv'
<1> DEFINE dir == IF here = Missing THEN made + 1 ELSE here
<1>1. run[e] \in RunType /\ run[e].request \in Requests /\ run[e].pc = "prepare"
  BY DEF IndInv, RunOK, Prepare
<1>2. /\ made \in Nat /\ made <= MaxDirectories /\ MaxDirectories \in Nat /\ here \in -1..made
      /\ here' = dir /\ made' = IF here = Missing THEN dir ELSE made
      /\ here = Missing => made < MaxDirectories
  BY DownloadAssumption DEF DownloadAssumption, Prepare, IndInv, DiskTyped
<1>3. made' \in 0..MaxDirectories /\ made <= made' /\ here' \in -1..made'
  BY <1>2 DEF Missing
<1>4. FilesKept(e) /\ DiskTyped'
  BY <1>3 DEF Prepare, FilesKept, IndInv, DiskTyped
<1>5. CASE TargetError(e, dir) # Absent
  <2>1. TargetError(e, dir) \in Codes
    BY <1>5 DEF TargetError, Codes
  <2>2. End(e, Rejected("blocked", {TargetError(e, dir)}))
    BY <1>5 DEF Prepare, Blocked
  <2> QED
    BY <1>1, <1>4, <2>1, <2>2, RejectKeepsInv
<1>6. CASE TargetError(e, dir) = Absent
  <2> DEFINE pc == IF family \in Reusing THEN "exists" ELSE "fetch"
  <2>1. dir # Symlink
    BY <1>6, DownloadAssumption DEF TargetError, DownloadAssumption
  <2>2. dir \in Directories /\ dir <= made'
    BY <1>2, <1>3, <2>1 DEF Directories, Missing, Symlink
  <2>3. Enter(e, pc, dir, Absent)
    BY <1>6 DEF Prepare
  <2> QED
    BY <1>1, <1>4, <2>2, <2>3, AdvanceKeepsInv
<1> QED
  BY <1>5, <1>6

\* An execution that holds its directory goes on in it.
LEMMA GotoKeepsInv ==
  ASSUME IndInv, NEW e \in Executions, run[e].pc \in HoldsDirectory, UNCHANGED Files,
         NEW pc \in {"exists", "reading", "fetch", "ensure", "open"},
         NEW content \in Editions \cup {Absent},
         Enter(e, pc, run[e].dir, content)
  PROVE  IndInv'
<1>1. run[e] \in RunType /\ RunOK(e, run[e], files, overwritten, made)
  BY DEF IndInv
<1>2. /\ run[e].dir \in Directories /\ run[e].dir <= made'
      /\ run[e].request \in Requests
  BY <1>1 DEF RunOK, HoldsDirectory, Files
<1> QED
  BY <1>2, SameFiles, AdvanceKeepsInv

\* The target is looked at.
LEMMA CheckKeepsInv ==
  ASSUME IndInv, NEW e \in Executions, CheckExisting(e)
  PROVE  IndInv'
<1>1. PICK pc \in {"reading", "fetch"} : Goto(e, pc)
  BY DEF CheckExisting
<1>2. run[e].content \in Editions \cup {Absent}
  BY DEF IndInv, RunType
<1> QED
  BY <1>1, <1>2, GotoKeepsInv DEF CheckExisting, HoldsDirectory, Goto

\* The transport answers.
LEMMA FetchKeepsInv ==
  ASSUME IndInv, NEW e \in Executions, NEW edition \in Editions, Fetch(e, edition)
  PROVE  IndInv'
<1>1. CASE Matches(e, <<"whole", edition>>)
  BY <1>1, GotoKeepsInv DEF Fetch, HoldsDirectory
<1>2. CASE ~Matches(e, <<"whole", edition>>)
  <2>1. End(e, Rejected("failed", {"checksum_mismatch"})) /\ run[e].pc = "fetch" /\ UNCHANGED Files
    BY <1>2 DEF Fetch, Failed
  <2>2. "checksum_mismatch" \in Codes
    BY DEF Codes
  <2> QED
    BY <2>1, <2>2, SameFiles, RejectKeepsInv
<1> QED
  BY <1>1, <1>2

\* The path to the directory is checked once more.
LEMMA EnsureKeepsInv ==
  ASSUME IndInv, NEW e \in Executions, EnsureParent(e)
  PROVE  IndInv'
<1>1. CASE ParentError(e) = Absent
  <2>1. run[e].content \in Editions \cup {Absent}
    BY DEF IndInv, RunType
  <2>2. Enter(e, "open", run[e].dir, run[e].content)
    BY <1>1 DEF EnsureParent, Goto
  <2> QED
    BY <2>1, <2>2, GotoKeepsInv DEF EnsureParent, HoldsDirectory
<1>2. CASE ParentError(e) # Absent
  <2>1. ParentError(e) \in Codes
    BY <1>2 DEF ParentError, Codes
  <2> QED
    BY <1>2, <2>1, SameFiles, RejectKeepsInv DEF EnsureParent, Failed
<1> QED
  BY <1>1, <1>2

\* A file that is read and is no folder, missing or empty has a checksum.
LEMMA ReadKeepsInv ==
  ASSUME IndInv, NEW e \in Executions, ReadExisting(e)
  PROVE  IndInv'
<1> DEFINE file == files[run[e].dir]
<1>1. /\ run[e].pc = "reading" /\ run[e].dir \in Directories /\ UNCHANGED Files
      /\ run[e].request \in Requests
  BY DEF IndInv, RunOK, HoldsDirectory, ReadExisting
<1>2. FilesKept(e) /\ DiskTyped'
  BY <1>1, SameFiles
<1>3. file \in FileType
  BY <1>1 DEF IndInv, DiskTyped
<1>4. CASE ParentError(e) # Absent
  <2>1. ParentError(e) \in Codes
    BY <1>4 DEF ParentError, Codes
  <2>2. End(e, Rejected("blocked", {ParentError(e)}))
    BY <1>4 DEF ReadExisting, Blocked
  <2> QED
    BY <1>1, <1>2, <2>1, <2>2, RejectKeepsInv
<1>5. CASE ParentError(e) = Absent /\ file.state \in {"none", "folder"}
  <2>1. End(e, Rejected("blocked", {"existing_read_failed"}))
    BY <1>5 DEF ReadExisting, Blocked
  <2>2. "existing_read_failed" \in Codes
    BY DEF Codes
  <2> QED
    BY <1>1, <1>2, <2>1, <2>2, RejectKeepsInv
<1>6. CASE ParentError(e) = Absent /\ file.state = "empty"
  <2>1. End(e, Rejected("failed", {"existing_empty"}))
    BY <1>6 DEF ReadExisting, Failed
  <2>2. "existing_empty" \in Codes
    BY DEF Codes
  <2> QED
    BY <1>1, <1>2, <2>1, <2>2, RejectKeepsInv
<1>7. CASE /\ ParentError(e) = Absent /\ file.state \notin {"none", "folder", "empty"}
           /\ ~Matches(e, Checksum(file))
  <2>1. End(e, Rejected("failed", {"existing_checksum_mismatch"}))
    BY <1>7 DEF ReadExisting, Failed
  <2>2. "existing_checksum_mismatch" \in Codes
    BY DEF Codes
  <2> QED
    BY <1>1, <1>2, <2>1, <2>2, RejectKeepsInv
<1>8. CASE /\ ParentError(e) = Absent /\ file.state \notin {"none", "folder", "empty"}
           /\ Matches(e, Checksum(file))
  <2> DEFINE result == Downloaded(<<file.state, file.of>>, TRUE)
  <2>1. Checksum(file) = <<file.state, file.of>>
    BY DEF Checksum
  <2>2. End(e, result)
    BY <1>8, <2>1 DEF ReadExisting
  <2>3. /\ result \in ResultType /\ StatusIssues(result) = {} /\ ArtifactIssues(result) = {}
    BY <1>3, <1>8, DownloadedTyped DEF FileType
  <2>4. result.status = "downloaded" /\ result.checksum = Checksum(file)
    BY <2>1 DEF Downloaded
  <2>5. run[e].request.expected # Absent => file.state = "whole"
    BY <1>8, <2>1 DEF Matches, Expected
  <2>6. files' = files
    BY <1>1 DEF Files
  <2>7. result.reused
    BY DEF Downloaded
  <2> HIDE DEF result
  <2>8. (/\ result.status = "downloaded"
         /\ result.reused => run[e].request.expected # Absent
         /\ run[e].dir \notin overwritten')
          => /\ files'[run[e].dir].state = "whole"
             /\ Checksum(files'[run[e].dir]) = result.checksum
    BY <2>4, <2>5, <2>6, <2>7
  <2> QED
    BY <1>1, <1>2, <2>2, <2>3, <2>8, EndKeepsInv
<1> QED
  BY <1>4, <1>5, <1>6, <1>7, <1>8

\* The target is created or opened.
LEMMA OpenKeepsInv ==
  ASSUME IndInv, NEW e \in Executions, OpenTarget(e)
  PROVE  IndInv'
<1> DEFINE dir == run[e].dir
           new == [state |-> "empty", of |-> run[e].content, by |-> e]
           r == [pc |-> "write", request |-> run[e].request, dir |-> dir,
                 content |-> run[e].content, result |-> run[e].result]
<1>1. /\ run[e].pc = "open" /\ dir \in Directories /\ UNCHANGED <<family, here, made>>
      /\ run[e].request \in Requests /\ run[e] \in RunType /\ dir <= made
  BY DEF IndInv, RunOK, HoldsDirectory, OpenTarget
<1>2. CASE files[dir].state # "none" /\ ~Overwrites(e)
  <2>1. End(e, Rejected("failed", {"target_exists"})) /\ UNCHANGED Files
    BY <1>1, <1>2 DEF OpenTarget, Failed, Files
  <2>2. "target_exists" \in Codes
    BY DEF Codes
  <2> QED
    BY <1>1, <2>1, <2>2, SameFiles, RejectKeepsInv
<1>3. CASE files[dir].state = "folder" /\ Overwrites(e)
  <2>1. End(e, Rejected("failed", {"write_failed"})) /\ UNCHANGED Files
    BY <1>1, <1>3 DEF OpenTarget, Failed, Files
  <2>2. "write_failed" \in Codes
    BY DEF Codes
  <2> QED
    BY <1>1, <2>1, <2>2, SameFiles, RejectKeepsInv
<1>4. CASE /\ ~(files[dir].state # "none" /\ ~Overwrites(e))
           /\ ~(files[dir].state = "folder" /\ Overwrites(e))
  <2>1. /\ files' = [files EXCEPT ![dir] = new] /\ Goto(e, "write")
        /\ overwritten' = IF Overwrites(e) THEN overwritten \cup {dir} ELSE overwritten
    BY <1>4 DEF OpenTarget
  <2>2. run' = [run EXCEPT ![e] = r]
    BY <2>1 DEF Goto, Enter
  <2>3. r \in RunType
    BY <1>1 DEF RunType, HoldsDirectory
  <2>4. new \in FileType
    BY <1>1 DEF FileType, FileStates, RunType
  <2>5. DiskTyped'
    BY <1>1, <2>1, <2>4 DEF DiskTyped, IndInv
  <2>6. \A d \in Directories : files'[d] # files[d] => d = dir
    BY <2>1 DEF IndInv, DiskTyped
  <2>7. dir \notin overwritten' => files[dir].state = "none"
    BY <1>4, <2>1
  <2>8. made \in Nat
    BY DownloadAssumption DEF IndInv, DiskTyped, DownloadAssumption
  <2>9. FilesKept(e)
    BY <1>1, <2>1, <2>6, <2>7, <2>8 DEF FilesKept
  <2>10. files'[dir] = new
    BY <1>1, <2>1 DEF IndInv, DiskTyped
  <2>11. RunOK(e, r, files', overwritten', made')
    BY <1>1, <2>3, <2>10 DEF RunOK, WritesAlone, StaysDownloaded, Downloads, Answers
  <2> HIDE DEF r
  <2> QED
    BY <2>2, <2>5, <2>9, <2>11, StepKeepsInv
<1> QED
  BY <1>2, <1>3, <1>4

\* What a write does to the files is no more than FilesKept allows.
LEMMA WriteKeepsFiles ==
  ASSUME IndInv, NEW e \in Executions, run[e].pc \in {"write", "close"},
         NEW state \in {"part", "whole"}, NEW file \in AfterWrite(e, state),
         files' = [files EXCEPT ![run[e].dir] = file],
         UNCHANGED <<family, here, made, overwritten>>
  PROVE  /\ FilesKept(e) /\ DiskTyped'
         /\ run[e].dir \in Directories /\ files'[run[e].dir] = file
         /\ run[e].dir \notin overwritten
              => file = [state |-> state, of |-> run[e].content, by |-> e]
<1> DEFINE dir == run[e].dir
<1>1. /\ dir \in Directories /\ RunOK(e, run[e], files, overwritten, made)
      /\ files \in [Directories -> FileType]
  BY DEF IndInv, RunOK, HoldsDirectory, DiskTyped
<1>2. files[dir] \in FileType
  BY <1>1
<1>3. file \in FileType
  BY <1>2 DEF AfterWrite, FileType, FileStates
<1>4. DiskTyped'
  BY <1>1, <1>3 DEF DiskTyped, IndInv
<1>5. dir \notin overwritten =>
        /\ files[dir].by = e /\ files[dir].of = run[e].content
        /\ files[dir].state \in {"empty", "part"}
  BY <1>1 DEF RunOK, WritesAlone
<1>6. dir \notin overwritten => file = [state |-> state, of |-> run[e].content, by |-> e]
  BY <1>2, <1>5 DEF AfterWrite, FileType
<1>7. made \in Nat
  BY DownloadAssumption DEF IndInv, DiskTyped, DownloadAssumption
<1>8. FilesKept(e)
  BY <1>1, <1>5, <1>7 DEF FilesKept
<1> QED
  BY <1>1, <1>4, <1>6, <1>8

\* The content is written.
LEMMA WriteKeepsInv ==
  ASSUME IndInv, NEW e \in Executions, WriteContent(e)
  PROVE  IndInv'
<1> DEFINE r == [pc |-> "close", request |-> run[e].request, dir |-> run[e].dir,
                 content |-> run[e].content, result |-> run[e].result]
<1>1. run[e].pc = "write" /\ run[e] \in RunType /\ RunOK(e, run[e], files, overwritten, made)
  BY DEF WriteContent, IndInv
<1>2. PICK file \in AfterWrite(e, "part") : files' = [files EXCEPT ![run[e].dir] = file]
  BY DEF WriteContent
<1>3. /\ FilesKept(e) /\ DiskTyped' /\ run[e].dir \in Directories
      /\ run[e].dir \notin overwritten'
           => files'[run[e].dir] = [state |-> "part", of |-> run[e].content, by |-> e]
  BY <1>1, <1>2, WriteKeepsFiles DEF WriteContent
<1>4. run' = [run EXCEPT ![e] = r]
  BY DEF WriteContent, Goto, Enter
<1>5. r \in RunType
  BY <1>1 DEF RunType, HoldsDirectory
<1>6. RunOK(e, r, files', overwritten', made')
  BY <1>1, <1>3, <1>5
  DEF RunOK, WritesAlone, StaysDownloaded, Downloads, Answers, WriteContent
<1> HIDE DEF r
<1> QED
  BY <1>3, <1>4, <1>6, StepKeepsInv

\* The file is closed and the answer given.
LEMMA CloseKeepsInv ==
  ASSUME IndInv, NEW e \in Executions, CloseTarget(e)
  PROVE  IndInv'
<1> DEFINE result == Downloaded(<<"whole", run[e].content>>, FALSE)
<1>1. run[e].pc = "close" /\ run[e] \in RunType
  BY DEF CloseTarget, IndInv
<1>2. PICK file \in AfterWrite(e, "whole") : files' = [files EXCEPT ![run[e].dir] = file]
  BY DEF CloseTarget
<1>3. /\ FilesKept(e) /\ DiskTyped' /\ run[e].dir \in Directories
      /\ run[e].dir \notin overwritten'
           => files'[run[e].dir] = [state |-> "whole", of |-> run[e].content, by |-> e]
  BY <1>1, <1>2, WriteKeepsFiles DEF CloseTarget
<1>4. result \in ResultType /\ StatusIssues(result) = {} /\ ArtifactIssues(result) = {}
  BY <1>1, DownloadedTyped DEF RunType, FileStates
<1>5. result.checksum = <<"whole", run[e].content>>
  BY DEF Downloaded
<1>6. End(e, result)
  BY DEF CloseTarget
<1> HIDE DEF result
<1>7. run[e].dir \notin overwritten'
        => /\ files'[run[e].dir].state = "whole"
           /\ Checksum(files'[run[e].dir]) = result.checksum
  BY <1>3, <1>5 DEF Checksum
<1> QED
  BY <1>1, <1>3, <1>4, <1>6, <1>7, EndKeepsInv

\* Failures end an execution with nothing written, a crash without an answer.
LEMMA FailKeepsInv ==
  ASSUME IndInv, NEW e \in Executions, PrepareFails(e) \/ FetchFails(e) \/ WriteFails(e)
  PROVE  IndInv'
<1>1. PICK status \in {"blocked", "failed"}, code \in Codes :
        End(e, Rejected(status, {code})) /\ UNCHANGED Files
  BY DEF PrepareFails, FetchFails, WriteFails, Blocked, Failed, Codes
<1>2. run[e].pc \notin {"idle", "done"}
  BY DEF PrepareFails, FetchFails, WriteFails
<1> QED
  BY <1>1, <1>2, SameFiles, RejectKeepsInv

\* An execution crashes wherever it is.
LEMMA CrashKeepsInv ==
  ASSUME IndInv, NEW e \in Executions, Crash(e)
  PROVE  IndInv'
<1>1. FilesKept(e) /\ DiskTyped'
  BY SameFiles DEF Crash
<1>2. NoResult \in ResultType
  BY DEF NoResult, Rejected, ResultType
<1>3. MaxDirectories \in Nat /\ made' \in Nat
  BY DownloadAssumption DEF DownloadAssumption, Crash, Files, IndInv, DiskTyped
<1>4. NotRunning \in RunType /\ NotRunning.pc = "idle" /\ NotRunning.dir = 0
  BY <1>2, <1>3 DEF NotRunning, Started, RunType, Missing
<1>5. RunOK(e, NotRunning, files', overwritten', made')
  BY <1>3, <1>4 DEF RunOK, WritesAlone, StaysDownloaded, Downloads, Answers, HoldsDirectory
<1> QED
  BY <1>1, <1>5, StepKeepsInv DEF Crash

-----------------------------------------------------------------------------
(* The path, and every step.                                               *)

\* What happens to the path is no step of an execution: e is none of them.
LEMMA PathKeepsInv ==
  ASSUME IndInv, ReplaceParent \/ ClearPath
  PROVE  IndInv'
<1> DEFINE nobody == CHOOSE e : e \notin Executions
<1>1. made \in Nat /\ made <= MaxDirectories /\ MaxDirectories \in Nat /\ here \in -1..made
  BY DownloadAssumption DEF IndInv, DiskTyped, DownloadAssumption
<1>2. UNCHANGED <<family, overwritten, run>> /\ made <= made' /\ made' \in 0..MaxDirectories
  BY <1>1 DEF ReplaceParent, ClearPath
<1>3. here' \in -1..made'
  BY <1>1, <1>2 DEF ReplaceParent, ClearPath, Symlink, Directories
<1>4. NoFile \in FileType
  BY DEF NoFile, FileType, FileStates
<1>5. files' \in [Directories -> FileType]
  BY <1>4 DEF ReplaceParent, ClearPath, IndInv, DiskTyped
<1>6. \A d \in Directories : files'[d] # files[d] => files[d].state = "folder"
  BY DEF ReplaceParent, ClearPath, IndInv, DiskTyped
<1>7. DiskTyped'
  BY <1>2, <1>3, <1>5 DEF DiskTyped, IndInv
<1>8. nobody \notin Executions
  BY NoSetContainsEverything
<1>9. FilesKept(nobody)
  BY <1>1, <1>2, <1>6 DEF FilesKept
<1>10. \A e \in Executions : RunOK(e, run[e], files', overwritten', made')
  BY <1>8, <1>9, OthersKeep
<1> QED
  BY <1>2, <1>7, <1>10 DEF IndInv

\* Every step.
LEMMA NextKeepsInv == IndInv /\ [Next]_downloadVars => IndInv'
<1> SUFFICES ASSUME IndInv, [Next]_downloadVars PROVE IndInv'
  OBVIOUS
<1>1. ASSUME NEW e \in Executions, ExecutionStep(e) PROVE IndInv'
  BY <1>1, BeginKeepsInv, PrepareKeepsInv, CheckKeepsInv, ReadKeepsInv, FetchKeepsInv,
     EnsureKeepsInv, OpenKeepsInv, WriteKeepsInv, CloseKeepsInv, FailKeepsInv, CrashKeepsInv
  DEF ExecutionStep
<1>2. CASE UNCHANGED downloadVars
  BY <1>2 DEF downloadVars, IndInv, DiskTyped
<1> QED
  BY <1>1, <1>2, PathKeepsInv DEF Next

\* The inductive invariant: a file that may not be overwritten belongs to the one that writes it.
THEOREM IndInvHolds == Spec => []IndInv
BY InitHolds, NextKeepsInv, PTL DEF Spec

-----------------------------------------------------------------------------
(* The theorems.                                                           *)

\* The state of the disk and of every execution stays in its type.
THEOREM TypeCorrect == Spec => []TypeOK
<1>1. IndInv => TypeOK
  <2> SUFFICES ASSUME IndInv PROVE TypeOK
    OBVIOUS
  <2>1. \A e \in Executions :
          /\ run[e].pc \in {"idle", "prepare", "exists", "reading", "fetch", "ensure", "open",
                            "write", "close", "done"}
          /\ run[e].pc # "idle" =>
               /\ run[e].request \in Requests
               /\ run[e].request.flags \subseteq Permissions
               /\ run[e].request.badYears \subseteq Years
          /\ run[e].dir \in 0..made
          /\ run[e].content \in Editions \cup {Absent}
          /\ run[e].result.status \in {"none", "blocked", "failed", "downloaded"}
    <3> TAKE e \in Executions
    <3>1. run[e] \in RunType /\ RunOK(e, run[e], files, overwritten, made)
      BY DEF IndInv
    <3>2. run[e].dir \in 0..made
      BY <3>1, DownloadAssumption DEF RunType, RunOK, IndInv, DiskTyped, DownloadAssumption
    <3>3. run[e].pc # "idle" =>
            /\ run[e].request \in Requests
            /\ run[e].request.flags \subseteq Permissions
            /\ run[e].request.badYears \subseteq Years
      BY <3>1, DownloadAssumption DEF RunOK, DownloadAssumption
    <3> QED
      BY <3>1, <3>2, <3>3 DEF RunType, ResultType, HoldsDirectory
  <2> QED
    BY <2>1 DEF TypeOK, IndInv, DiskTyped, FileType
<1> QED
  BY <1>1, IndInvHolds, PTL

\* Whatever other executions and crashes leave at the target, an execution of
\* a valid request ends in a result that passes the boundary's own validation.
THEOREM ResultsStayValid == Spec => []ResultsAreValid
<1>1. IndInv => ResultsAreValid
  BY DEF IndInv, RunOK, Answers, ResultsAreValid
<1> QED
  BY <1>1, IndInvHolds, PTL

\* A download nobody may overwrite stays what its checksum says, however many
\* executions race for its target, fail or crash.
THEOREM DownloadsStay == Spec => []DownloadedStays
<1>1. IndInv => DownloadedStays
  BY DEF IndInv, RunOK, StaysDownloaded, Downloads, DownloadedStays, Expected
<1> QED
  BY <1>1, IndInvHolds, PTL

-----------------------------------------------------------------------------
(* Who writes to a target: those who may overwrite it, and at most one      *)
(* other, who created it.                                                   *)

\* There is a file where one writes; one's own is not whole yet; and of two that write to
\* one target, one may overwrite it.
WriterInv ==
  \A e \in Executions, d \in Directories : Writes(e, d) =>
    /\ files[d].state \notin {"none", "folder"}
    /\ files[d].by = e => files[d].state # "whole"
    /\ ~Overwrites(e) => \A o \in Executions \ {e} : Writes(o, d) => Overwrites(o)

\* Those who write have begun to before, with the request they have.
NoNewWriter ==
  \A e \in Executions, d \in Directories :
    Writes(e, d)' => Writes(e, d) /\ Overwrites(e)' = Overwrites(e)

\* A step after which nobody new writes, and that changes no file somebody writes to.
LEMMA FewerWrite ==
  ASSUME WriterInv, NoNewWriter,
         \A d \in Directories : files'[d] # files[d] => files[d].state \in {"none", "folder"}
  PROVE  WriterInv'
<1> SUFFICES ASSUME NEW e \in Executions, NEW d \in Directories, Writes(e, d)'
             PROVE  /\ files'[d].state \notin {"none", "folder"}
                    /\ files'[d].by = e => files'[d].state # "whole"
                    /\ ~Overwrites(e)' =>
                         \A o \in Executions \ {e} : Writes(o, d)' => Overwrites(o)'
  BY DEF WriterInv
<1>1. Writes(e, d) /\ Overwrites(e)' = Overwrites(e)
  BY DEF NoNewWriter
<1>2. files'[d] = files[d]
  BY <1>1 DEF WriterInv
<1> QED
  BY <1>1, <1>2 DEF WriterInv, NoNewWriter

\* An execution that makes a step begins to write only when it opens its target.
LEMMA OneMoves ==
  ASSUME IndInv, NEW e \in Executions, NEW r, run' = [run EXCEPT ![e] = r],
         r.pc \in {"write", "close"} =>
           r.dir = run[e].dir /\ r.request = run[e].request /\ run[e].pc \in {"write", "close"}
  PROVE  NoNewWriter
<1> SUFFICES ASSUME NEW o \in Executions, NEW d \in Directories, Writes(o, d)'
             PROVE  Writes(o, d) /\ Overwrites(o)' = Overwrites(o)
  BY DEF NoNewWriter
<1>1. run'[o] = IF o = e THEN r ELSE run[o]
  BY DEF IndInv
<1> QED
  BY <1>1 DEF Writes, Overwrites

\* Who opens the target of others may overwrite it.
LEMMA OpenKeepsWriters ==
  ASSUME IndInv, WriterInv, NEW e \in Executions, OpenTarget(e)
  PROVE  WriterInv'
<1> DEFINE dir == run[e].dir
           new == [state |-> "empty", of |-> run[e].content, by |-> e]
<1>0. dir \in Directories /\ run[e].pc = "open"
  BY DEF OpenTarget, IndInv, RunOK, HoldsDirectory
<1>1. CASE \E result : End(e, result) /\ UNCHANGED files
  <2>1. NoNewWriter
    BY <1>1, OneMoves DEF End
  <2> QED
    BY <1>1, <2>1, FewerWrite
<1>2. CASE /\ files' = [files EXCEPT ![dir] = new] /\ Goto(e, "write")
           /\ files[dir].state = "none" \/ Overwrites(e)
  <2>1. files'[dir] = new /\ \A d \in Directories : d # dir => files'[d] = files[d]
    BY <1>0, <1>2 DEF IndInv, DiskTyped
  <2>2. /\ run'[e].pc = "write" /\ run'[e].dir = dir /\ run'[e].request = run[e].request
        /\ \A o \in Executions : o # e => run'[o] = run[o]
    BY <1>2 DEF Goto, Enter, IndInv
  <2>3. \A o \in Executions, d \in Directories :
          /\ Overwrites(o)' = Overwrites(o)
          /\ Writes(o, d)' <=> Writes(o, d) \/ (o = e /\ d = dir)
    BY <1>0, <2>2 DEF Writes, Overwrites
  <2>4. \A o \in Executions : Writes(o, dir) => Overwrites(e)
    BY <1>0, <1>2 DEF WriterInv
  <2> SUFFICES ASSUME NEW o \in Executions, NEW d \in Directories, Writes(o, d)'
               PROVE  /\ files'[d].state \notin {"none", "folder"}
                      /\ files'[d].by = o => files'[d].state # "whole"
                      /\ ~Overwrites(o)' =>
                           \A u \in Executions \ {o} : Writes(u, d)' => Overwrites(u)'
    BY DEF WriterInv
  <2>5. CASE d = dir
    <3>1. files'[d].state = "empty"
      BY <2>1, <2>5
    <3>2. ASSUME ~Overwrites(o), NEW u \in Executions \ {o}, Writes(u, d)'
          PROVE  Overwrites(u)
      <4>1. Writes(o, d) \/ o = e
        BY <2>3
      <4>2. Writes(u, d) \/ u = e
        BY <2>3, <3>2
      <4>3. CASE Overwrites(e)
        <5>1. Writes(o, d)
          BY <3>2, <4>1, <4>3
        <5> QED
          BY <3>2, <4>2, <4>3, <5>1 DEF WriterInv
      <4>4. CASE ~Overwrites(e)
        BY <2>4, <2>5, <3>2, <4>1, <4>2, <4>4
      <4> QED
        BY <4>3, <4>4
    <3> QED
      BY <2>3, <3>1, <3>2
  <2>6. CASE d # dir
    BY <2>1, <2>3, <2>6 DEF WriterInv
  <2> QED
    BY <2>5, <2>6
<1> QED
  BY <1>1, <1>2 DEF OpenTarget

\* Who writes makes no file whole that it did not open last.
LEMMA WriteKeepsWriters ==
  ASSUME IndInv, WriterInv, NEW e \in Executions, WriteContent(e) \/ CloseTarget(e)
  PROVE  WriterInv'
<1> DEFINE dir == run[e].dir
<1>0. dir \in Directories /\ run[e].pc \in {"write", "close"}
  BY DEF WriteContent, CloseTarget, IndInv, RunOK, HoldsDirectory
<1>1. NoNewWriter
  <2>1. CASE WriteContent(e)
    BY <2>1, OneMoves DEF WriteContent, Goto, Enter
  <2>2. CASE CloseTarget(e)
    BY <2>2, OneMoves DEF CloseTarget, End
  <2> QED
    BY <2>1, <2>2
<1>a. PICK state \in {"part", "whole"} :
        /\ \E file \in AfterWrite(e, state) : files' = [files EXCEPT ![dir] = file]
        /\ state = "whole" => run'[e].pc = "done"
  <2>1. CASE WriteContent(e)
    BY <2>1 DEF WriteContent
  <2>2. CASE CloseTarget(e)
    <3>1. run'[e].pc = "done"
      BY <2>2 DEF CloseTarget, End, IndInv
    <3> QED
      BY <2>2, <3>1 DEF CloseTarget
  <2> QED
    BY <2>1, <2>2
<1>2. PICK file \in AfterWrite(e, state) : files' = [files EXCEPT ![dir] = file]
  BY <1>a
<1>3. files'[dir] = file /\ \A d \in Directories : d # dir => files'[d] = files[d]
  BY <1>0, <1>2 DEF IndInv, DiskTyped
<1>4. files[dir] \in FileType /\ files[dir].state \notin {"none", "folder"}
  BY <1>0 DEF IndInv, DiskTyped, WriterInv, Writes
<1>5. /\ file.by = files[dir].by /\ file.state \in {files[dir].state, "part", state}
      /\ file.by # e => file.state \in {files[dir].state, "part"}
      /\ file.by = e => file.state = state
  BY <1>4 DEF AfterWrite, FileType
<1> SUFFICES ASSUME NEW o \in Executions, NEW d \in Directories, Writes(o, d)'
             PROVE  /\ files'[d].state \notin {"none", "folder"}
                    /\ files'[d].by = o => files'[d].state # "whole"
                    /\ ~Overwrites(o)' =>
                         \A u \in Executions \ {o} : Writes(u, d)' => Overwrites(u)'
  BY DEF WriterInv
<1>6. Writes(o, d) /\ Overwrites(o)' = Overwrites(o)
  BY <1>1 DEF NoNewWriter
<1>7. ~Overwrites(o)' => \A u \in Executions \ {o} : Writes(u, d)' => Overwrites(u)'
  BY <1>1, <1>6 DEF NoNewWriter, WriterInv
<1>8. CASE d # dir
  BY <1>3, <1>6, <1>7, <1>8 DEF WriterInv
<1>9. CASE d = dir
  <2>1. files'[d].state \notin {"none", "folder"}
    BY <1>3, <1>4, <1>5, <1>9
  <2>2. files'[d].by = o => files'[d].state # "whole"
    <3>1. CASE o = e
      BY <1>a, <1>3, <1>5, <1>9, <3>1 DEF Writes
    <3>2. CASE o # e
      BY <1>3, <1>5, <1>6, <1>9, <3>2 DEF WriterInv
    <3> QED
      BY <3>1, <3>2
  <2> QED
    BY <1>7, <2>1, <2>2
<1> QED
  BY <1>8, <1>9

\* Every step.
LEMMA NextKeepsWriters == IndInv /\ WriterInv /\ [Next]_downloadVars => WriterInv'
<1> SUFFICES ASSUME IndInv, WriterInv, [Next]_downloadVars PROVE WriterInv'
  OBVIOUS
<1>1. ASSUME NEW e \in Executions, ExecutionStep(e),
             ~(OpenTarget(e) \/ WriteContent(e) \/ CloseTarget(e))
      PROVE  WriterInv'
  <2>1. UNCHANGED files
    BY <1>1 DEF ExecutionStep, Execute, Prepare, PrepareFails, CheckExisting, ReadExisting, Fetch,
                FetchFails, EnsureParent, WriteFails, Crash, Files
  <2>2. \E r : run' = [run EXCEPT ![e] = r] /\ r.pc \notin {"write", "close"}
    <3>1. CASE \E result : End(e, result)
      <4>1. PICK result : End(e, result)
        BY <3>1
      <4> DEFINE done == [pc |-> "done", request |-> run[e].request, content |-> Absent,
                          result |-> result,
                          dir |-> IF result.status = "downloaded" THEN run[e].dir ELSE Missing]
      <4>2. run' = [run EXCEPT ![e] = done] /\ done.pc = "done"
        BY <4>1 DEF End
      <4> QED
        BY <4>2
    <3>2. CASE \E pc \in {"exists", "reading", "fetch", "ensure", "open"} :
                 \E dir, content : Enter(e, pc, dir, content)
      <4>0. PICK pc \in {"exists", "reading", "fetch", "ensure", "open"} :
              \E dir, content : Enter(e, pc, dir, content)
        BY <3>2
      <4>1. PICK dir, content : Enter(e, pc, dir, content)
        BY <4>0
      <4> DEFINE next == [pc |-> pc, request |-> run[e].request, dir |-> dir,
                          content |-> content, result |-> run[e].result]
      <4>2. run' = [run EXCEPT ![e] = next] /\ next.pc = pc
        BY <4>1 DEF Enter
      <4> QED
        BY <4>1, <4>2
    <3>3. CASE Crash(e)
      <4>1. run' = [run EXCEPT ![e] = NotRunning] /\ NotRunning.pc = "idle"
        BY <3>3 DEF Crash, NotRunning, Started
      <4> QED
        BY <4>1
    <3>4. CASE \E request \in Requests : Execute(e, request)
      BY <3>4 DEF Execute, Started
    <3> QED
      BY <1>1, <3>1, <3>2, <3>3, <3>4
      DEF ExecutionStep, Prepare, PrepareFails, CheckExisting, ReadExisting, Fetch, FetchFails,
          EnsureParent, WriteFails, Goto
  <2>3. NoNewWriter
    BY <2>2, OneMoves
  <2> QED
    BY <2>1, <2>3, FewerWrite
<1>2. CASE ReplaceParent \/ ClearPath
  <2>1. NoNewWriter
    BY <1>2 DEF ReplaceParent, ClearPath, NoNewWriter, Writes, Overwrites
  <2>2. \A d \in Directories : files'[d] # files[d] => files[d].state = "folder"
    BY <1>2 DEF ReplaceParent, ClearPath, IndInv, DiskTyped
  <2> QED
    BY <2>1, <2>2, FewerWrite
<1>3. CASE UNCHANGED downloadVars
  <2>1. NoNewWriter
    BY <1>3 DEF downloadVars, NoNewWriter, Writes, Overwrites
  <2> QED
    BY <1>3, <2>1, FewerWrite DEF downloadVars
<1> QED
  BY <1>1, <1>2, <1>3, OpenKeepsWriters, WriteKeepsWriters DEF Next

\* Nobody writes without permission beside another who has none.
LEMMA WritersHold == Spec => []WriterInv
<1>1. Init => WriterInv
  BY DEF Init, WriterInv, Writes, NotRunning, Started
<1> QED
  BY <1>1, NextKeepsWriters, IndInvHolds, PTL DEF Spec

\* A whole file is touched only by an execution whose own request may overwrite it, or by
\* the one that created it, through its open handle, after another that may overwrite has
\* truncated and completed it, for any executions, requests and directories.
THEOREM OnlyOverwritersReplace == Spec => OnlyOverwriteReplaces
<1> DEFINE Touches(e, d) ==
      /\ run'[e] # run[e] /\ run[e].dir = d
      /\ \/ Overwrites(e)
         \/ /\ Writes(e, d) /\ files[d].by # e /\ d \in overwritten
            /\ \A o \in Executions \ {e} : Writes(o, d) => Overwrites(o)
<1>1. IndInv /\ WriterInv /\ [Next]_downloadVars =>
        [\A d \in Directories :
           (files[d].state = "whole" /\ files'[d] # files[d])
             => \E e \in Executions : Touches(e, d)]_downloadVars
  <2> SUFFICES ASSUME IndInv, WriterInv, Next, NEW d \in Directories, files[d].state = "whole",
                      files'[d] # files[d]
               PROVE  \E e \in Executions : Touches(e, d)
    BY DEF downloadVars
  <2>1. files \in [Directories -> FileType]
    BY DEF IndInv, DiskTyped
  <2>2. ~(ReplaceParent \/ ClearPath)
    BY <2>1 DEF ReplaceParent, ClearPath
  <2>3. PICK e \in Executions : OpenTarget(e) \/ WriteContent(e) \/ CloseTarget(e)
    BY <2>2 DEF Next, ExecutionStep, Execute, Prepare, PrepareFails, CheckExisting, ReadExisting,
       Fetch, FetchFails, EnsureParent, WriteFails, Crash, Files
  <2>4. RunOK(e, run[e], files, overwritten, made) /\ run \in [Executions -> RunType]
    BY DEF IndInv
  <2>5. CASE OpenTarget(e)
    <3>1. Goto(e, "write") /\ run[e].dir = d
      BY <2>1, <2>5 DEF OpenTarget
    <3>2. Overwrites(e)
      BY <2>1, <2>5, <3>1 DEF OpenTarget
    <3>3. run'[e].pc = "write" /\ run[e].pc = "open"
      BY <2>4, <2>5, <3>1 DEF OpenTarget, Goto, Enter
    <3> QED
      BY <3>1, <3>2, <3>3
  <2>6. CASE WriteContent(e) \/ CloseTarget(e)
    <3>1. run[e].dir = d /\ run[e].pc \in {"write", "close"}
      BY <2>1, <2>6 DEF WriteContent, CloseTarget
    <3>2. d \in overwritten
      BY <2>4, <3>1 DEF RunOK, WritesAlone
    <3>3. Writes(e, d) /\ files[d].by # e
          /\ (~Overwrites(e) => \A o \in Executions \ {e} : Writes(o, d) => Overwrites(o))
      BY <3>1 DEF Writes, WriterInv
    <3>4. CASE WriteContent(e)
      <4>1. run[e].pc = "write" /\ run'[e].pc = "close"
        BY <2>4, <3>4 DEF WriteContent, Goto, Enter
      <4> QED
        BY <3>1, <3>2, <3>3, <4>1
    <3>5. CASE CloseTarget(e)
      <4>1. run[e].pc = "close" /\ run'[e].pc = "done"
        BY <2>4, <3>5 DEF CloseTarget, End
      <4> QED
        BY <3>1, <3>2, <3>3, <4>1
    <3> QED
      BY <2>6, <3>4, <3>5
  <2> QED
    BY <2>3, <2>5, <2>6
<1> QED
  BY <1>1, IndInvHolds, WritersHold, PTL DEF Spec, OnlyOverwriteReplaces

-----------------------------------------------------------------------------
(* What a request takes of the candidates.                                  *)

\* A request that has taken these candidates.
RequestWith(key, id, wrong, taken) ==
  [family |-> Descriptors[key].family, key |-> key, run |-> id, bad |-> wrong,
   candidates |-> taken]

OfSource(candidates, key) == {c \in Range(candidates) : c.key = key}

\* What one candidate does to a request.
LEMMA Extended ==
  ASSUME NEW key, NEW id, NEW wrong, NEW taken, NEW c
  PROVE  WithCandidate(RequestWith(key, id, wrong, taken), c)
           = IF c.key = key THEN RequestWith(key, id, wrong, Append(taken, c))
             ELSE RequestWith(key, id, wrong, taken)
BY DEF WithCandidate, RequestWith

\* RunRequest is the fold whose steps are stated here.
LEMMA RequestIsFold ==
  ASSUME NEW key, NEW candidates, NEW id, NEW wrong
  PROVE  RunRequest(key, candidates, id, wrong)
           = Takes!Fold(RequestWith(key, id, wrong, <<>>), candidates)
BY DEF RunRequest, RequestWith, Takes!Fold, Takes!FoldLeft, FoldLeft, MapThenFoldSet,
       Takes!MapThenFoldSet, Max, Takes!Max

\* The fields of a request, and that it takes candidates of its source only.
LEMMA RequestTakes ==
  ASSUME NEW key, NEW candidates, candidates \in Seq(Range(candidates)), NEW id, NEW wrong
  PROVE  \E taken \in Seq(OfSource(candidates, key)) :
           RunRequest(key, candidates, id, wrong) = RequestWith(key, id, wrong, taken)
<1> DEFINE n == Len(candidates)
           With(taken) == RequestWith(key, id, wrong, taken)
           base == With(<<>>)
           T == OfSource(candidates, key)
           I == {With(taken) : taken \in Seq(T)}
<1>1. n \in Nat /\ DOMAIN candidates = 1..n
  OBVIOUS
<1>2. <<>> \in Seq(T)
  OBVIOUS
<1>3. base \in I
  BY <1>2
<1>4. ASSUME NEW x \in I, NEW k \in 1..n PROVE WithCandidate(x, candidates[k]) \in I
  <2>1. PICK taken \in Seq(T) : x = With(taken)
    OBVIOUS
  <2>2. candidates[k] \in Range(candidates)
    BY <1>1 DEF Range
  <2>3. CASE candidates[k].key = key
    <3>1. candidates[k] \in T
      BY <2>2, <2>3 DEF OfSource
    <3> HIDE DEF T
    <3>2. Append(taken, candidates[k]) \in Seq(T)
      BY <3>1
    <3>3. WithCandidate(x, candidates[k]) = With(Append(taken, candidates[k]))
      BY <2>1, <2>3, Extended
    <3> QED
      BY <3>2, <3>3
  <2>4. CASE candidates[k].key # key
    BY <2>1, <2>4, Extended
  <2> QED
    BY <2>3, <2>4
<1> HIDE DEF I, base, n
<1>5. Takes!Fold(base, candidates) \in I
  BY <1>1, <1>3, <1>4, Takes!FoldInvariant, Zenon
<1>6. PICK taken \in Seq(T) : Takes!Fold(base, candidates) = With(taken)
  BY <1>5 DEF I
<1> QED
  BY <1>6, RequestIsFold DEF base

\* A request of a source some candidate is of has candidates.
LEMMA RequestTakesSome ==
  ASSUME NEW key, NEW candidates, candidates \in Seq(Range(candidates)), NEW id, NEW wrong,
         NEW m \in DOMAIN candidates, candidates[m].key = key
  PROVE  RunRequest(key, candidates, id, wrong).candidates # <<>>
<1> DEFINE n == Len(candidates)
           With(taken) == RequestWith(key, id, wrong, taken)
           base == With(<<>>)
           U == Range(candidates)
           I == {With(taken) : taken \in Seq(U)}
           J == {With(taken) : taken \in Seq(U) \ {<<>>}}
<1>1. n \in Nat /\ DOMAIN candidates = 1..n
  OBVIOUS
<1>2. <<>> \in Seq(U)
  OBVIOUS
<1>3. base \in I
  BY <1>2
<1>4. ASSUME NEW taken \in Seq(U), NEW k \in 1..n
      PROVE  /\ Append(taken, candidates[k]) \in Seq(U) \ {<<>>}
             /\ WithCandidate(With(taken), candidates[k])
                  = IF candidates[k].key = key THEN With(Append(taken, candidates[k]))
                    ELSE With(taken)
  <2>1. candidates[k] \in U
    BY <1>1 DEF Range
  <2> HIDE DEF U
  <2>2. Append(taken, candidates[k]) \in Seq(U) \ {<<>>}
    BY <2>1
  <2> QED
    BY <2>2, Extended
<1> HIDE DEF With, U, base, n
<1>5. \A x \in I, k \in 1..n : WithCandidate(x, candidates[k]) \in I
  BY <1>4
<1>6. \A x \in J, k \in 1..n : WithCandidate(x, candidates[k]) \in J
  BY <1>4
<1>7. m \in 1..n
  BY <1>1
<1>8. \A x \in I : WithCandidate(x, candidates[m]) \in J
  BY <1>4, <1>7
<1> HIDE DEF I, J
<1>9. Takes!Fold(base, candidates) \in J
  BY <1>1, <1>3, <1>5, <1>6, <1>7, <1>8, Takes!FoldReaches, Zenon
<1>10. PICK taken \in Seq(U) \ {<<>>} : Takes!Fold(base, candidates) = With(taken)
  BY <1>9 DEF J
<1>11. With(taken).candidates = taken
  BY DEF With, RequestWith
<1> QED
  BY <1>10, <1>11, RequestIsFold DEF base, With

-----------------------------------------------------------------------------
(* The contracts: the invariant, what is known of the parts of a plan,      *)
(* whichever plans they were made for.                                      *)

CandidatesOK(candidates) ==
  /\ candidates \in Seq(Range(candidates))
  /\ \A c \in Range(candidates) : c.bad \subseteq CandidateFields

ArtifactsOK(artifacts) ==
  /\ artifacts \in Seq(Range(artifacts))
  /\ \A a \in Range(artifacts) : a.bad \subseteq ArtifactFields

RequestOK(request) ==
  request.bad \subseteq RunRequestFields /\ CandidatesOK(request.candidates)

ResultOK(result) ==
  /\ result.bad \subseteq {"version_label"}
  /\ CandidatesOK(result.candidates) /\ ArtifactsOK(result.artifacts)

BridgeOK(bridge) ==
  /\ bridge \in Seq(Range(bridge))
  /\ \A i \in DOMAIN bridge : bridge[i].artifact.bad \subseteq ArtifactFields

\* A request made under a registry that has an adapter of its family.
MadeUnder(request, reg) ==
  /\ request.family \in DOMAIN reg
  /\ request.key = request.family /\ request.parser = reg[request.family].parser

\* A dry run is made under the registry its request was made under.
BoundaryOK(boundary) ==
  \E reg \in Registries :
    MadeUnder(boundary.request, reg) /\ boundary = DryRun(boundary.request, reg)

BoundariesOK(boundaries) ==
  /\ boundaries \in Seq(Range(boundaries))
  /\ \A b \in Range(boundaries) : BoundaryOK(b)

ParserPlanFields ==
  {"family", "key", "run", "result", "bridge", "requests", "issues", "summary"}

ParserPlanOK(plan) ==
  /\ DOMAIN plan = ParserPlanFields
  /\ ResultOK(plan.result) /\ BridgeOK(plan.bridge)

PlanFields ==
  {"family", "key", "request", "result", "parserPlan", "requests", "boundaries", "issues",
   "summary"}

PlanOK(plan) ==
  /\ DOMAIN plan = PlanFields
  /\ RequestOK(plan.request) /\ ResultOK(plan.result) /\ ParserPlanOK(plan.parserPlan)
  /\ plan.requests \in Seq(Range(plan.requests)) /\ BoundariesOK(plan.boundaries)

ContractsInv ==
  /\ DOMAIN runs = Slots /\ DOMAIN plans = Slots
  /\ \A s \in Slots : runs[s] # NoChain => ResultOK(runs[s])
  /\ \A s \in Slots : plans[s] # NoChain => PlanOK(plans[s])

-----------------------------------------------------------------------------
\* A request of this source, whose candidates are among those it was given.
IsRequest(request, key, candidates, id, wrong) ==
  /\ request.family = Descriptors[key].family /\ request.key = key
  /\ request.run = id /\ request.bad = wrong
  /\ CandidatesOK(request.candidates)
  /\ \A i \in DOMAIN request.candidates : request.candidates[i] \in OfSource(candidates, key)

\* What a request takes is as good as what it is given.
LEMMA RequestFacts ==
  ASSUME NEW key, NEW candidates, CandidatesOK(candidates), NEW id, NEW wrong
  PROVE  IsRequest(RunRequest(key, candidates, id, wrong), key, candidates, id, wrong)
<1> DEFINE request == RunRequest(key, candidates, id, wrong)
<1>1. PICK taken \in Seq(OfSource(candidates, key)) :
        RunRequest(key, candidates, id, wrong) = RequestWith(key, id, wrong, taken)
  BY RequestTakes DEF CandidatesOK
<1>2. /\ request.family = Descriptors[key].family /\ request.key = key
      /\ request.run = id /\ request.bad = wrong /\ request.candidates = taken
  BY <1>1 DEF RequestWith
<1>3. \A i \in DOMAIN taken : taken[i] \in OfSource(candidates, key)
  OBVIOUS
<1>4. OfSource(candidates, key) \subseteq Range(candidates)
  BY DEF OfSource
<1>5. taken \in Seq(Range(taken))
  BY DEF Range
<1>6. CandidatesOK(taken)
  BY <1>3, <1>4, <1>5 DEF CandidatesOK, Range
<1> HIDE DEF request
<1>7. IsRequest(request, key, candidates, id, wrong)
  BY <1>2, <1>3, <1>6 DEF IsRequest
<1> QED
  BY <1>7 DEF request

\* Artifacts declared for candidates are no worse than they are.
LEMMA DeclaredFacts ==
  ASSUME NEW candidates, candidates \in Seq(Range(candidates))
  PROVE  ArtifactsOK(DeclaredArtifacts(candidates))
<1> DEFINE artifacts == DeclaredArtifacts(candidates)
<1>1. Len(candidates) \in Nat /\ DOMAIN artifacts = 1..Len(candidates)
  BY DEF DeclaredArtifacts
<1>2. \A i \in DOMAIN artifacts :
        artifacts[i] = ArtifactFrom(candidates[i], <<i, candidates[i].key>>,
                                    <<"download", candidates[i].key>>, {}, {})
  BY DEF DeclaredArtifacts
<1>3. artifacts = [i \in DOMAIN artifacts |-> artifacts[i]]
  BY DEF DeclaredArtifacts
<1>4. \A i \in DOMAIN artifacts : artifacts[i].bad \subseteq ArtifactFields
  BY <1>2 DEF ArtifactFrom
<1> HIDE DEF artifacts
<1>5. artifacts \in Seq(Range(artifacts))
  BY <1>1, <1>3 DEF Range
<1>6. \A a \in Range(artifacts) : a.bad \subseteq ArtifactFields
  BY <1>4 DEF Range
<1> QED
  BY <1>5, <1>6 DEF ArtifactsOK, artifacts

\* Nothing is planned at first.
LEMMA InitInv == ContractsInit => ContractsInv
BY DEF ContractsInit, ContractsInv

\* One lemma for each action.
LEMMA AcquireStep ==
  ASSUME ContractsInv, NEW s \in Slots, NEW key, NEW id, NEW catalogue \in Catalogues,
         NEW issues, Acquire(s, key, id, catalogue, issues)
  PROVE  ContractsInv'
<1>1. CandidatesOK(catalogue)
  BY CatalogueAssumption DEF CandidatesOK
<1>3. PICK request : request = RunRequest(key, catalogue, id, {})
  OBVIOUS
<1>2. CandidatesOK(request.candidates) /\ request.bad = {}
  <2>1. IsRequest(request, key, catalogue, id, {})
    BY <1>1, <1>3, RequestFacts, Zenon
  <2> QED
    BY <2>1 DEF IsRequest
<1>4. PICK batch \in {DeclaredArtifacts(request.candidates)} \cup Batches(catalogue) :
        runs' = [runs EXCEPT ![s] = RunResult(request, batch, issues)]
  BY <1>3 DEF Acquire
<1>5. ArtifactsOK(batch)
  <2>1. CASE batch = DeclaredArtifacts(request.candidates)
    BY <1>2, <2>1, DeclaredFacts DEF CandidatesOK
  <2>2. CASE batch \in Batches(catalogue)
    BY <2>2, CatalogueAssumption DEF ArtifactsOK
  <2> QED
    BY <1>4, <2>1, <2>2
<1>6. ResultOK(RunResult(request, batch, issues))
  BY <1>2, <1>5 DEF ResultOK, RunResult
<1>7. UNCHANGED plans
  BY DEF Acquire
<1> QED
  BY <1>4, <1>6, <1>7 DEF ContractsInv

\* What the plan from acquisition to parser holds of a run.
LEMMA ParserPlanFacts ==
  ASSUME NEW result, NEW reg, NEW plan, plan = ParserPlan(result, reg)
  PROVE  /\ DOMAIN plan = ParserPlanFields
         /\ plan.family = result.family /\ plan.key = result.key /\ plan.run = result.run
         /\ plan.result = result /\ plan.bridge = Bridge(result.artifacts, reg)
         /\ plan.requests
              = <<ParserRequest(result.family, Inputs(plan.bridge), result.run, reg)>>
         /\ plan.issues = <<>>
         /\ plan.summary = ParserPlanSummary(result, plan.bridge, plan.requests, <<>>)
BY DEF ParserPlan, ParserPlanFields

\* What the orchestration plan holds of it.
LEMMA PlanFacts ==
  ASSUME NEW result, NEW reg, NEW plan, plan = Plan(result, <<>>, reg)
  PROVE  /\ DOMAIN plan = PlanFields
         /\ plan.family = result.family /\ plan.key = result.key
         /\ plan.request
              = RunRequest(result.key, result.candidates, result.run, result.bad)
         /\ plan.result = result /\ plan.parserPlan = ParserPlan(result, reg)
         /\ plan.requests = plan.parserPlan.requests
         /\ plan.boundaries
              = [i \in DOMAIN plan.requests |-> DryRun(plan.requests[i], reg)]
         /\ plan.issues = <<>>
         /\ plan.summary = PlanSummary(plan.request, result, plan.parserPlan, plan.requests,
                                       plan.boundaries, <<>>)
BY DEF Plan, PlanFields

\* The bridge has one entry for each artifact.
LEMMA BridgeFacts ==
  ASSUME NEW artifacts, ArtifactsOK(artifacts), NEW reg,
         NEW bridge, bridge = Bridge(artifacts, reg)
  PROVE  /\ BridgeOK(bridge) /\ DOMAIN bridge = DOMAIN artifacts
         /\ Len(bridge) = Len(artifacts)
         /\ \A i \in DOMAIN bridge : bridge[i] = BridgeEntry(artifacts[i], reg)
<1>1. Len(artifacts) \in Nat /\ DOMAIN artifacts = 1..Len(artifacts)
  BY DEF ArtifactsOK
<1>2. /\ DOMAIN bridge = DOMAIN artifacts /\ bridge = [i \in DOMAIN bridge |-> bridge[i]]
      /\ \A i \in DOMAIN bridge : bridge[i] = BridgeEntry(artifacts[i], reg)
  BY DEF Bridge
<1>3. bridge \in Seq(Range(bridge))
  BY <1>1, <1>2 DEF Range
<1>4. Len(bridge) = Len(artifacts)
  BY <1>1, <1>2, <1>3
<1>5. \A i \in DOMAIN bridge : bridge[i].artifact.bad \subseteq ArtifactFields
  BY <1>2 DEF BridgeEntry, ArtifactsOK, Range
<1> QED
  BY <1>2, <1>3, <1>4, <1>5 DEF BridgeOK

\* A plan is made of a run of a registered family.
LEMMA BuiltIsOK ==
  ASSUME NEW result, ResultOK(result), NEW reg \in Registries, CanPlan(result, reg),
         NEW plan, plan = Plan(result, <<>>, reg)
  PROVE  PlanOK(plan)
<1>1. PICK parserPlan : parserPlan = ParserPlan(result, reg)
  OBVIOUS
<1>2. /\ DOMAIN plan = PlanFields
      /\ plan.request = RunRequest(result.key, result.candidates, result.run, result.bad)
      /\ plan.result = result /\ plan.parserPlan = parserPlan
      /\ plan.requests = parserPlan.requests
      /\ plan.boundaries = [i \in DOMAIN plan.requests |-> DryRun(plan.requests[i], reg)]
  BY <1>1, PlanFacts
<1>3. RequestOK(plan.request)
  <2>1. CandidatesOK(result.candidates)
    BY DEF ResultOK
  <2>2. IsRequest(RunRequest(result.key, result.candidates, result.run, result.bad),
                  result.key, result.candidates, result.run, result.bad)
    BY <2>1, RequestFacts, Zenon
  <2>3. IsRequest(plan.request, result.key, result.candidates, result.run, result.bad)
    BY <1>2, <2>2, Zenon
  <2> QED
    BY <2>3 DEF IsRequest, ResultOK, RequestOK, RunRequestFields
<1>4. /\ DOMAIN parserPlan = ParserPlanFields
      /\ parserPlan.result = result /\ parserPlan.bridge = Bridge(result.artifacts, reg)
      /\ parserPlan.requests
           = <<ParserRequest(result.family, Inputs(parserPlan.bridge), result.run, reg)>>
  BY <1>1, ParserPlanFacts
<1>5. BridgeOK(parserPlan.bridge)
  BY <1>4, BridgeFacts DEF ResultOK
<1>6. PICK request :
        request = ParserRequest(result.family, Inputs(parserPlan.bridge), result.run, reg)
  OBVIOUS
<1>7. plan.requests = <<request>>
  BY <1>2, <1>4, <1>6
<1>8. MadeUnder(request, reg)
  BY <1>6 DEF MadeUnder, ParserRequest, CanPlan
<1>9. plan.requests \in Seq(Range(plan.requests)) /\ DOMAIN plan.requests = 1..1
  BY <1>7 DEF Range
<1>10. BoundariesOK(plan.boundaries)
  <2>1. DOMAIN plan.boundaries = 1..1 /\ plan.boundaries[1] = DryRun(request, reg)
    BY <1>2, <1>7, <1>9
  <2>2. Range(plan.boundaries) = {DryRun(request, reg)}
    BY <2>1 DEF Range
  <2>3. plan.boundaries = [i \in 1..1 |-> plan.boundaries[i]]
    BY <1>2, <1>9
  <2>4. plan.boundaries \in Seq(Range(plan.boundaries))
    BY <2>1, <2>3 DEF Range
  <2>5. DryRun(request, reg).request = request
    BY DEF DryRun
  <2> QED
    BY <1>8, <2>2, <2>4, <2>5 DEF BoundariesOK, BoundaryOK
<1> QED
  BY <1>2, <1>3, <1>4, <1>5, <1>9, <1>10 DEF PlanOK, ParserPlanOK

\* A new plan is made of a result that is well formed, under one of the registries.
LEMMA PlanStep ==
  ASSUME ContractsInv, NEW s \in Slots, NEW reg \in Registries, PlanOrchestration(s, reg)
  PROVE  ContractsInv'
<1>1. PICK plan : plan = Plan(runs[s], <<>>, reg)
  OBVIOUS
<1>2. /\ ResultOK(runs[s]) /\ CanPlan(runs[s], reg)
      /\ plans' = [plans EXCEPT ![s] = plan] /\ UNCHANGED runs
  BY <1>1 DEF PlanOrchestration, ContractsInv
<1>3. PlanOK(plan)
  BY <1>1, <1>2, BuiltIsOK
<1> QED
  BY <1>2, <1>3 DEF ContractsInv

\* A thing with parts of another has the fields of the two.
LEMMA PartsFacts ==
  ASSUME NEW thing, NEW other, NEW parts, NEW new, new = PartsOf(thing, other, parts)
  PROVE  /\ DOMAIN new = DOMAIN thing
         /\ \A f \in DOMAIN thing : new[f] = IF f \in parts THEN other[f] ELSE thing[f]
BY DEF PartsOf

\* What is put into a plan comes from another, where it was well formed as well.
LEMMA ReplaceStep ==
  ASSUME ContractsInv, NEW s \in Slots, NEW t \in Slots, NEW parts, NEW inner,
         ReplaceParts(s, t, parts, inner)
  PROVE  ContractsInv'
<1>1. PICK plan, other : plan = plans[s] /\ other = plans[t]
  OBVIOUS
<1>2. PICK outer : outer = PartsOf(plan, other, parts)
  OBVIOUS
<1>3. PICK new : new = [outer EXCEPT !.parserPlan = PartsOf(@, other.parserPlan, inner)]
  OBVIOUS
<1>4. /\ PlanOK(plan) /\ PlanOK(other)
      /\ plans' = [plans EXCEPT ![s] = new] /\ UNCHANGED runs
  BY <1>1, <1>2, <1>3 DEF ReplaceParts, ContractsInv
<1>5. DOMAIN outer = PlanFields /\ DOMAIN other = PlanFields
      /\ \A f \in PlanFields : outer[f] = IF f \in parts THEN other[f] ELSE plan[f]
  BY <1>2, <1>4, PartsFacts DEF PlanOK
<1>6. /\ RequestOK(outer.request) /\ ResultOK(outer.result) /\ ParserPlanOK(outer.parserPlan)
      /\ outer.requests \in Seq(Range(outer.requests)) /\ BoundariesOK(outer.boundaries)
  BY <1>4, <1>5 DEF PlanOK, PlanFields
<1>7. PICK mixed : mixed = PartsOf(outer.parserPlan, other.parserPlan, inner)
  OBVIOUS
<1>8. /\ DOMAIN mixed = ParserPlanFields
      /\ \A f \in ParserPlanFields :
           mixed[f] = IF f \in inner THEN other.parserPlan[f] ELSE outer.parserPlan[f]
  BY <1>6, <1>7, PartsFacts DEF ParserPlanOK
<1>9. ParserPlanOK(mixed)
  BY <1>4, <1>6, <1>8 DEF PlanOK, ParserPlanOK, ParserPlanFields
<1>10. new = [outer EXCEPT !.parserPlan = mixed]
  BY <1>3, <1>7
<1>11. /\ DOMAIN new = PlanFields /\ new.parserPlan = mixed
       /\ new.request = outer.request /\ new.result = outer.result
       /\ new.requests = outer.requests /\ new.boundaries = outer.boundaries
  BY <1>5, <1>10 DEF PlanFields
<1>12. PlanOK(new)
  BY <1>6, <1>9, <1>11 DEF PlanOK
<1> QED
  BY <1>4, <1>12 DEF ContractsInv

\* The invariant holds of every behaviour.
LEMMA ContractsInvHolds == ContractsSpec => []ContractsInv
<1>1. ContractsInv /\ [ContractsNext]_contractVars => ContractsInv'
  <2> SUFFICES ASSUME ContractsInv, [ContractsNext]_contractVars
               PROVE  ContractsInv'
    OBVIOUS
  <2>1. CASE ContractsNext
    BY <2>1, AcquireStep, PlanStep, ReplaceStep DEF ContractsNext
  <2>2. CASE UNCHANGED contractVars
    BY <2>2 DEF contractVars, ContractsInv
  <2> QED
    BY <2>1, <2>2
<1> QED
  BY InitInv, <1>1, PTL DEF ContractsSpec

-----------------------------------------------------------------------------
(* What the validators accept.                                              *)

Sound(thing, plan) == SameSource(thing, plan) /\ thing.bad = {}

\* Accepted candidates are flawless and of the source they are accepted for.
LEMMA CandidatesSound ==
  ASSUME NEW whole, CandidatesOK(whole.candidates), CandidatesAccepted(whole)
  PROVE  \A i \in DOMAIN whole.candidates : Sound(whole.candidates[i], whole)
<1> SUFFICES ASSUME NEW i \in DOMAIN whole.candidates PROVE Sound(whole.candidates[i], whole)
  OBVIOUS
<1>1. whole.candidates[i].bad \subseteq CandidateFields
  BY DEF CandidatesOK, Range
<1>2. SameSource(whole.candidates[i], whole) /\ whole.candidates[i].bad \cap CandidateFields = {}
  BY DEF CandidatesAccepted, CandidateValid
<1> QED
  BY <1>1, <1>2 DEF Sound

\* So are accepted artifacts.
LEMMA ArtifactsSound ==
  ASSUME NEW whole, ArtifactsOK(whole.artifacts), ArtifactsAccepted(whole)
  PROVE  \A i \in DOMAIN whole.artifacts : Sound(whole.artifacts[i], whole)
<1> SUFFICES ASSUME NEW i \in DOMAIN whole.artifacts PROVE Sound(whole.artifacts[i], whole)
  OBVIOUS
<1>1. whole.artifacts[i].bad \subseteq ArtifactFields
  BY DEF ArtifactsOK, Range
<1>2. SameSource(whole.artifacts[i], whole) /\ whole.artifacts[i].bad \cap ArtifactFields = {}
  BY DEF ArtifactsAccepted, ArtifactValid
<1> QED
  BY <1>1, <1>2 DEF Sound

\* What is sound in a part of a plan is sound in the plan.
LEMMA SoundIn ==
  ASSUME NEW thing, NEW whole, NEW plan, Sound(thing, whole), SameSource(whole, plan)
  PROVE  Sound(thing, plan)
BY DEF Sound, SameSource

\* An accepted request of a plan.
LEMMA RequestSound ==
  ASSUME NEW request, NEW plan, RequestOK(request), RunRequestValid(request),
         SameSource(request, plan)
  PROVE  /\ Sound(request, plan)
         /\ \A i \in DOMAIN request.candidates : Sound(request.candidates[i], plan)
<1>1. request.bad = {}
  BY DEF RequestOK, RunRequestValid
<1>2. \A i \in DOMAIN request.candidates : Sound(request.candidates[i], request)
  BY CandidatesSound DEF RequestOK, RunRequestValid, RequestCandidatesAccepted
<1> QED
  BY <1>1, <1>2, SoundIn DEF Sound

\* An accepted result of a plan.
LEMMA ResultSound ==
  ASSUME NEW result, NEW plan, ResultOK(result), RunResultValid(result),
         SameSource(result, plan)
  PROVE  /\ Sound(result, plan)
         /\ \A i \in DOMAIN result.candidates : Sound(result.candidates[i], plan)
         /\ \A i \in DOMAIN result.artifacts : Sound(result.artifacts[i], plan)
<1>1. result.bad = {}
  BY DEF RunResultValid
<1>2. \A i \in DOMAIN result.candidates : Sound(result.candidates[i], result)
  BY CandidatesSound DEF ResultOK, RunResultValid
<1>3. \A i \in DOMAIN result.artifacts : Sound(result.artifacts[i], result)
  BY ArtifactsSound DEF ResultOK, RunResultValid
<1> QED
  BY <1>1, <1>2, <1>3, SoundIn DEF Sound

\* A request that one registry accepts is accepted by the one it was made under.
LEMMA AcceptedWhereMade ==
  ASSUME NEW request, NEW reg, NEW maker, ParserRequestValid(request, reg),
         MadeUnder(request, maker)
  PROVE  ParserRequestIssues(request, maker) = {}
<1>1. /\ IdentityIssues(request, reg) = {} /\ InputIssues(request) = {}
      /\ request.correlation # Blank
  BY DEF ParserRequestValid, ParserRequestIssues
<1>2. {<<"missing", f>> : f \in {g \in {"family", "key", "parser"} : request[g] = Blank}} = {}
  BY <1>1 DEF IdentityIssues
<1>3. IdentityIssues(request, maker) = {}
  BY <1>2 DEF IdentityIssues, MadeUnder
<1> QED
  BY <1>1, <1>3 DEF ParserRequestIssues

\* A dry run of an accepted request is planned, eligible and without issues.
LEMMA BoundarySound ==
  ASSUME NEW boundary, NEW reg, BoundaryOK(boundary),
         ParserRequestValid(boundary.request, reg)
  PROVE  /\ boundary.status = "planned" /\ boundary.eligibility.eligible
         /\ boundary.issues = <<>>
<1>1. PICK maker \in Registries :
        MadeUnder(boundary.request, maker) /\ boundary = DryRun(boundary.request, maker)
  BY DEF BoundaryOK
<1>2. PICK request : request = boundary.request
  OBVIOUS
<1>3. ParserRequestIssues(request, maker) = {}
  BY <1>1, <1>2, AcceptedWhereMade
<1>4. request.family \in DOMAIN maker
  BY <1>1, <1>2 DEF MadeUnder
<1>5. /\ boundary.status = DryRunStatus(request, maker)
      /\ boundary.eligibility = Eligibility(request, maker)
      /\ boundary.issues = DryRunIssues(request, maker)
  BY <1>1, <1>2 DEF DryRun
<1>6. DryRunStatus(request, maker) = "planned"
  BY <1>3, <1>4 DEF DryRunStatus, ParserRequestValid
<1>7. Eligibility(request, maker).eligible
  BY <1>3, <1>4 DEF Eligibility, ParserRequestValid
<1>8. DryRunIssues(request, maker) = <<>>
  <2>1. Cardinality(ParserRequestIssues(request, maker)) = 0
    BY <1>3, FS_EmptySet
  <2>2. 1..0 = {}
    OBVIOUS
  <2> QED
    BY <1>4, <2>1, <2>2 DEF DryRunIssues
<1> QED
  BY <1>5, <1>6, <1>7, <1>8

\* All of some boundaries are eligible.
LEMMA AllEligible ==
  ASSUME NEW boundaries, boundaries \in Seq(Range(boundaries)),
         \A i \in DOMAIN boundaries : boundaries[i].eligibility.eligible
  PROVE  Eligible(boundaries) = Len(boundaries)
<1>1. Len(boundaries) \in Nat /\ DOMAIN boundaries = 1..Len(boundaries)
  OBVIOUS
<1>2. {i \in DOMAIN boundaries : boundaries[i].eligibility.eligible} = 1..Len(boundaries)
  BY <1>1
<1>3. Cardinality(1..Len(boundaries)) = Len(boundaries)
  BY <1>1, FS_Interval
<1> QED
  BY <1>2, <1>3 DEF Eligible

\* The parts of an accepted plan.
LEMMA PartsOfAccepted ==
  ASSUME NEW plan, NEW reg, PlanValid(plan, reg)
  PROVE  /\ SameSource(plan.request, plan) /\ SameSource(plan.result, plan)
         /\ SameSource(plan.parserPlan, plan)
         /\ SameSource(plan.parserPlan.result, plan.parserPlan)
         /\ RunRequestValid(plan.request) /\ RunResultValid(plan.result)
         /\ RunResultValid(plan.parserPlan.result)
         /\ BridgeValid(plan.parserPlan.bridge, reg)
         /\ BridgeOfPlan(plan.parserPlan)
         /\ plan.parserPlan.requests = plan.requests
         /\ \A i \in DOMAIN plan.requests :
              /\ ParserRequestValid(plan.requests[i], reg)
              /\ plan.requests[i].inputs = Inputs(plan.parserPlan.bridge)
         /\ [i \in DOMAIN plan.boundaries |-> plan.boundaries[i].request] = plan.requests
         /\ plan.summary.eligible = Eligible(plan.boundaries)
<1>1. /\ SameSource(plan.request, plan) /\ SameSource(plan.result, plan)
      /\ RunRequestValid(plan.request) /\ RunResultValid(plan.result)
      /\ ParserPlanValid(plan.parserPlan, reg)
      /\ SameSource(plan.parserPlan, plan) /\ plan.parserPlan.requests = plan.requests
      /\ [i \in DOMAIN plan.boundaries |-> plan.boundaries[i].request] = plan.requests
  BY DEF PlanValid, AcquisitionOfPlan, ParserPlanOfPlan, BoundariesOfPlan
<1>2. plan.summary.eligible = Eligible(plan.boundaries)
  BY DEF PlanValid, PlanSummaryAccepted, PlanSummary
<1>3. /\ SameSource(plan.parserPlan.result, plan.parserPlan)
      /\ RunResultValid(plan.parserPlan.result)
      /\ BridgeValid(plan.parserPlan.bridge, reg) /\ BridgeOfPlan(plan.parserPlan)
  BY <1>1 DEF ParserPlanValid, ResultOfPlan
<1>4. \A i \in DOMAIN plan.requests :
        /\ ParserRequestValid(plan.requests[i], reg)
        /\ plan.requests[i].inputs = Inputs(plan.parserPlan.bridge)
  BY <1>1 DEF ParserPlanValid, RequestsAccepted, RequestsOfPlan
<1> QED
  BY <1>1, <1>2, <1>3, <1>4

\* An accepted entry of a bridge joins an artifact and the parser input made of it.
LEMMA EntrySound ==
  ASSUME NEW entry, NEW reg, NEW plan, EntryValid(entry, reg), SameSource(entry, plan),
         entry.artifact.bad \subseteq ArtifactFields
  PROVE  /\ Sound(entry.input, plan)
         /\ entry.input.reference = entry.artifact.reference
         /\ entry.input.parser = reg[plan.family].parser
         /\ Sound(entry.artifact, plan)
<1>1. entry.artifact.bad = {}
  BY DEF EntryValid, ArtifactValid
<1> QED
  BY <1>1 DEF EntryValid, EntryOfArtifact, EntryOfInput, SameAdapter, InputValid,
              AdapterAligned, Sound, SameSource

\* An accepted artifact of a bridge is flawless.
LEMMA BridgeSound ==
  ASSUME NEW plan, NEW reg, ParserPlanOK(plan), BridgeValid(plan.bridge, reg),
         BridgeOfPlan(plan), RunResultValid(plan.result), SameSource(plan.result, plan)
  PROVE  /\ Len(plan.bridge) = Len(plan.result.artifacts)
         /\ \A i \in DOMAIN plan.bridge :
              /\ EntryValid(plan.bridge[i], reg)
              /\ SameSource(plan.bridge[i], plan)
<1>1. /\ plan.bridge \in Seq(Range(plan.bridge))
      /\ plan.result.artifacts \in Seq(Range(plan.result.artifacts))
  BY DEF ParserPlanOK, BridgeOK, ResultOK, ArtifactsOK
<1>2. DOMAIN plan.bridge = DOMAIN plan.result.artifacts
  <2> DEFINE f == [i \in DOMAIN plan.bridge |-> plan.bridge[i].artifactId]
             g == [i \in DOMAIN plan.result.artifacts |-> plan.result.artifacts[i].id]
  <2>1. f = g
    BY DEF BridgeOfPlan
  <2>2. DOMAIN f = DOMAIN plan.bridge /\ DOMAIN g = DOMAIN plan.result.artifacts
    OBVIOUS
  <2> QED
    BY <2>1, <2>2
<1>3. Len(plan.bridge) = Len(plan.result.artifacts)
  BY <1>1, <1>2
<1> QED
  BY <1>3 DEF BridgeValid, BridgeOfPlan

\* What AcceptedIsSound says of a plan.
SoundPlan(plan, reg) ==
  LET bridge == plan.parserPlan.bridge IN
  /\ \A whole \in {plan.request, plan.result, plan.parserPlan.result} :
       /\ Sound(whole, plan)
       /\ \A i \in DOMAIN whole.candidates : Sound(whole.candidates[i], plan)
  /\ \A whole \in {plan.result, plan.parserPlan.result} :
       \A i \in DOMAIN whole.artifacts : Sound(whole.artifacts[i], plan)
  /\ Len(bridge) = Len(plan.parserPlan.result.artifacts)
  /\ \A i \in DOMAIN bridge :
       /\ Sound(bridge[i].artifact, plan)
       /\ \A j \in DOMAIN plan.requests :
            /\ Sound(plan.requests[j].inputs[i], plan)
            /\ plan.requests[j].inputs[i].reference = bridge[i].artifact.reference
            /\ plan.requests[j].inputs[i].parser = reg[plan.family].parser
  /\ \A i \in DOMAIN plan.boundaries :
       /\ plan.boundaries[i].request = plan.requests[i]
       /\ plan.boundaries[i].status = "planned"
       /\ plan.boundaries[i].eligibility.eligible
       /\ plan.boundaries[i].issues = <<>>
  /\ plan.summary.eligible = Len(plan.requests)

\* Whatever plans its parts are from, an accepted plan is sound.
LEMMA AcceptedPlanSound ==
  ASSUME NEW plan, NEW reg, PlanOK(plan), PlanValid(plan, reg)
  PROVE  SoundPlan(plan, reg)
<1> DEFINE bridge == plan.parserPlan.bridge
<1>1. /\ RequestOK(plan.request) /\ ResultOK(plan.result) /\ ParserPlanOK(plan.parserPlan)
      /\ ResultOK(plan.parserPlan.result) /\ BridgeOK(bridge)
      /\ plan.requests \in Seq(Range(plan.requests)) /\ BoundariesOK(plan.boundaries)
  BY DEF PlanOK, ParserPlanOK
<1>2. /\ SameSource(plan.request, plan) /\ SameSource(plan.result, plan)
      /\ SameSource(plan.parserPlan, plan)
      /\ SameSource(plan.parserPlan.result, plan.parserPlan)
      /\ RunRequestValid(plan.request) /\ RunResultValid(plan.result)
      /\ RunResultValid(plan.parserPlan.result)
      /\ BridgeValid(bridge, reg) /\ BridgeOfPlan(plan.parserPlan)
      /\ \A i \in DOMAIN plan.requests :
           ParserRequestValid(plan.requests[i], reg) /\ plan.requests[i].inputs = Inputs(bridge)
      /\ [i \in DOMAIN plan.boundaries |-> plan.boundaries[i].request] = plan.requests
      /\ plan.summary.eligible = Eligible(plan.boundaries)
  BY PartsOfAccepted
<1>3. SameSource(plan.parserPlan.result, plan)
  BY <1>2 DEF SameSource
<1>4. /\ Sound(plan.request, plan)
      /\ \A i \in DOMAIN plan.request.candidates : Sound(plan.request.candidates[i], plan)
  BY <1>1, <1>2, RequestSound
<1>5. ASSUME NEW whole \in {plan.result, plan.parserPlan.result}
      PROVE  /\ Sound(whole, plan)
             /\ \A i \in DOMAIN whole.candidates : Sound(whole.candidates[i], plan)
             /\ \A i \in DOMAIN whole.artifacts : Sound(whole.artifacts[i], plan)
  <2>1. ResultOK(whole) /\ RunResultValid(whole) /\ SameSource(whole, plan)
    BY <1>1, <1>2, <1>3
  <2> QED
    BY <2>1, ResultSound
<1>6. /\ Len(bridge) = Len(plan.parserPlan.result.artifacts)
      /\ \A i \in DOMAIN bridge :
           EntryValid(bridge[i], reg) /\ SameSource(bridge[i], plan.parserPlan)
  BY <1>1, <1>2, BridgeSound
<1>7. ASSUME NEW i \in DOMAIN bridge
      PROVE  /\ Sound(bridge[i].artifact, plan)
             /\ Sound(bridge[i].input, plan)
             /\ bridge[i].input.reference = bridge[i].artifact.reference
             /\ bridge[i].input.parser = reg[plan.family].parser
  <2>1. SameSource(bridge[i], plan)
    BY <1>2, <1>6 DEF SameSource
  <2>2. bridge[i].artifact.bad \subseteq ArtifactFields
    BY <1>1 DEF BridgeOK
  <2> QED
    BY <1>6, <2>1, <2>2, EntrySound
<1>8. ASSUME NEW j \in DOMAIN plan.requests, NEW i \in DOMAIN bridge
      PROVE  plan.requests[j].inputs[i] = bridge[i].input
  BY <1>2 DEF Inputs
<1>9. ASSUME NEW i \in DOMAIN plan.boundaries
      PROVE  /\ plan.boundaries[i].request = plan.requests[i]
             /\ plan.boundaries[i].status = "planned"
             /\ plan.boundaries[i].eligibility.eligible
             /\ plan.boundaries[i].issues = <<>>
  <2>1. plan.boundaries[i].request = plan.requests[i] /\ i \in DOMAIN plan.requests
    BY <1>2
  <2>2. BoundaryOK(plan.boundaries[i])
    BY <1>1 DEF BoundariesOK, Range
  <2>3. ParserRequestValid(plan.boundaries[i].request, reg)
    BY <1>2, <2>1
  <2> QED
    BY <2>1, <2>2, <2>3, BoundarySound
<1>10. plan.summary.eligible = Len(plan.requests)
  <2>1. plan.boundaries \in Seq(Range(plan.boundaries))
    BY <1>1 DEF BoundariesOK
  <2>2. Eligible(plan.boundaries) = Len(plan.boundaries)
    BY <1>9, <2>1, AllEligible
  <2>3. DOMAIN plan.boundaries = DOMAIN plan.requests
    BY <1>2
  <2>4. Len(plan.boundaries) = Len(plan.requests)
    BY <1>1, <2>1, <2>3
  <2> QED
    BY <1>2, <2>2, <2>4
<1> HIDE DEF bridge
<1>11. \A i \in DOMAIN bridge : \A j \in DOMAIN plan.requests :
         /\ Sound(plan.requests[j].inputs[i], plan)
         /\ plan.requests[j].inputs[i].reference = bridge[i].artifact.reference
         /\ plan.requests[j].inputs[i].parser = reg[plan.family].parser
  BY <1>7, <1>8
<1> QED
  BY <1>4, <1>5, <1>6, <1>7, <1>9, <1>10, <1>11 DEF bridge, SoundPlan

\* What the last validator accepts holds nothing an earlier one would reject, whichever
\* plans its parts were made for and whichever registries they were made under
\* (validate_phase1_orchestration_executor_boundary).
THEOREM AcceptedStaysSound == ContractsSpec => []AcceptedIsSound
<1>1. ASSUME ContractsInv PROVE AcceptedIsSound
  <2>1. ASSUME NEW s \in Planned, NEW reg \in Registries, Accepted(plans[s], reg)
        PROVE  SoundPlan(plans[s], reg)
    <3>1. PlanOK(plans[s])
      BY <1>1 DEF ContractsInv, Planned
    <3>2. PlanValid(plans[s], reg)
      BY <2>1 DEF Accepted, ExecutorValid, Boundary, Executor, ExecutorRequest
    <3> QED
      BY <3>1, <3>2, AcceptedPlanSound
  <2> QED
    BY <2>1, Zenon DEF AcceptedIsSound, SoundPlan, Sound
<1> QED
  BY <1>1, ContractsInvHolds, PTL

\* Rows are accepted only when they are of inputs of the run's own source and parser
\* (validate_parser_run_result).
THEOREM AcceptedRowsStaySound == ContractsSpec => []AcceptedRowsAreSound
<1>1. AcceptedRowsAreSound
  <2> SUFFICES ASSUME NEW s \in Planned, NEW t \in Planned, NEW wrong \in {{}, {"row_id"}},
                      NEW reg \in Registries,
                      ParserResultValid(Answer(plans[s], plans[t], wrong), reg),
                      NEW i \in DOMAIN plans[t].requests[1].inputs
               PROVE  LET request == plans[s].requests[1]
                          input == plans[t].requests[1].inputs[i]
                      IN /\ SameAdapter(input, request) /\ "reporting_year" \notin input.bad
                         /\ input.parser = reg[input.family].parser
                         /\ wrong = {}
    BY DEF AcceptedRowsAreSound
  <2>1. PICK request, input, inputs, answer :
          /\ request = plans[s].requests[1] /\ inputs = plans[t].requests[1].inputs
          /\ input = inputs[i] /\ answer = Answer(plans[s], plans[t], wrong)
    OBVIOUS
  <2>2. /\ answer.family = request.family /\ answer.key = request.key
        /\ answer.parser = request.parser
        /\ answer.rows = [j \in DOMAIN inputs |-> OutputRow(inputs[j], j, wrong)]
    BY <2>1 DEF Answer, ParserResult
  <2>3. i \in DOMAIN answer.rows /\ answer.rows[i] = OutputRow(input, i, wrong)
    BY <2>1, <2>2
  <2>4. RowValid(answer.rows[i], reg) /\ SameAdapter(answer.rows[i], answer)
    BY <2>1, <2>3 DEF ParserResultValid, RowsAccepted
  <2>5. /\ wrong \cup (input.bad \cap {"reporting_year"}) = {}
        /\ input.parser = reg[input.family].parser
    BY <2>3, <2>4 DEF RowValid, AdapterAligned, OutputRow
  <2>6. SameAdapter(input, request)
    BY <2>2, <2>3, <2>4 DEF SameAdapter, SameSource, OutputRow
  <2> QED
    BY <2>1, <2>5, <2>6
<1> QED
  BY <1>1, PTL

-----------------------------------------------------------------------------
(* What the builders make.                                                  *)

\* A run that was accepted, has artifacts and can be planned.
Plannable(result, reg) ==
  /\ ResultOK(result) /\ RunResultValid(result) /\ result.artifacts # <<>>
  /\ reg \in Registries /\ CanPlan(result, reg)

\* What is known of such a run.
LEMMA PlannableFacts ==
  ASSUME NEW result, NEW reg, Plannable(result, reg)
  PROVE  /\ result.family = result.key /\ result.key \in DOMAIN Descriptors
         /\ Descriptors[result.key].family = result.key
         /\ Blank \notin {result.family, result.key, result.run} /\ result.bad = {}
         /\ result.family \in DOMAIN reg /\ reg[result.family].parser # Blank
         /\ \A i \in DOMAIN result.artifacts :
              /\ ArtifactValid(result.artifacts[i]) /\ result.artifacts[i].bad = {}
              /\ result.artifacts[i].family = result.family
              /\ result.artifacts[i].key = result.key
<1>1. /\ Registered(result) /\ result.family \in DOMAIN reg
      /\ Blank \notin {result.family, result.key, result.run} /\ result.bad = {}
  BY DEF Plannable, RunResultValid, CanPlan
<1>2. /\ result.key \in DOMAIN Descriptors /\ Descriptors[result.key].family = result.key
      /\ result.family = result.key
  BY <1>1, AcquisitionAssumption DEF Registered
<1>3. reg[result.family].parser # Blank
  BY <1>1, RegistryAssumption DEF Plannable
<1>4. ArtifactsOK(result.artifacts) /\ ArtifactsAccepted(result)
  BY DEF Plannable, ResultOK, RunResultValid
<1>5. \A i \in DOMAIN result.artifacts : Sound(result.artifacts[i], result)
  BY <1>4, ArtifactsSound
<1> QED
  BY <1>1, <1>2, <1>3, <1>4, <1>5 DEF ArtifactsAccepted, Sound, SameSource

\* The acquisition request made again is accepted.
LEMMA RequestAgainAccepted ==
  ASSUME NEW result, NEW reg, Plannable(result, reg),
         NEW request,
         request = RunRequest(result.key, result.candidates, result.run, result.bad)
  PROVE  RunRequestValid(request) /\ SameSource(request, result)
<1>1. CandidatesOK(result.candidates) /\ CandidatesAccepted(result)
  BY DEF Plannable, ResultOK, RunResultValid
<1>2. IsRequest(RunRequest(result.key, result.candidates, result.run, result.bad),
                result.key, result.candidates, result.run, result.bad)
  BY <1>1, RequestFacts, Zenon
<1>3. /\ request.family = Descriptors[result.key].family /\ request.key = result.key
      /\ request.run = result.run /\ request.bad = result.bad
      /\ \A i \in DOMAIN request.candidates :
           request.candidates[i] \in OfSource(result.candidates, result.key)
  BY <1>2 DEF IsRequest
<1>4. request.candidates # <<>>
  <2>1. result.artifacts \in Seq(Range(result.artifacts)) /\ result.artifacts # <<>>
    BY DEF Plannable, ResultOK, ArtifactsOK
  <2>2. 1 \in DOMAIN result.artifacts
    BY <2>1
  <2>3. PICK j \in DOMAIN result.candidates :
          result.candidates[j].id = result.artifacts[1].candidate
    BY <2>2 DEF Plannable, RunResultValid, ArtifactsAccepted
  <2>4. result.candidates[j].key = result.key
    BY <1>1 DEF CandidatesAccepted, SameSource
  <2>5. result.candidates \in Seq(Range(result.candidates))
    BY <1>1 DEF CandidatesOK
  <2>6. RunRequest(result.key, result.candidates, result.run, result.bad).candidates # <<>>
    BY <2>4, <2>5, RequestTakesSome, Zenon
  <2> QED
    BY <2>6
<1>5. request.family = result.family /\ request.key = result.key
  BY <1>3, PlannableFacts
<1>6. ASSUME NEW i \in DOMAIN request.candidates
      PROVE  CandidateValid(request.candidates[i]) /\ SameSource(request.candidates[i], request)
  <2>1. PICK j \in DOMAIN result.candidates : request.candidates[i] = result.candidates[j]
    BY <1>3 DEF OfSource, Range
  <2> QED
    BY <1>1, <1>5, <2>1 DEF CandidatesAccepted, SameSource
<1>7. Registered(request)
  BY <1>3, PlannableFacts DEF Registered
<1>8. Blank \notin {request.family, request.key, request.run}
      /\ request.bad \cap RunRequestFields = {}
  BY <1>3, <1>5, PlannableFacts
<1> QED
  BY <1>4, <1>5, <1>6, <1>7, <1>8
     DEF RunRequestValid, RequestCandidatesAccepted, CandidatesAccepted, SameSource

\* An entry of a flawless artifact is accepted.
LEMMA EntryAccepted ==
  ASSUME NEW a, NEW reg \in Registries, ArtifactValid(a), a.bad = {}, a.family = a.key,
         a.family \in DOMAIN reg
  PROVE  EntryValid(BridgeEntry(a, reg), reg)
<1> DEFINE entry == BridgeEntry(a, reg)
<1>1. /\ entry.family = a.family /\ entry.key = a.key /\ entry.parser = reg[a.family].parser
      /\ entry.artifactId = a.id /\ entry.kind = a.kind /\ entry.reference = a.reference
      /\ entry.bad = {} /\ entry.artifact = a
      /\ entry.input = ParserInput(a.family, a.reference, a.bad, reg)
  BY DEF BridgeEntry
<1>2. /\ entry.input.family = a.family /\ entry.input.key = a.family
      /\ entry.input.parser = reg[a.family].parser
      /\ entry.input.format = reg[a.family].format /\ entry.input.reference = a.reference
      /\ entry.input.bad = {}
  BY <1>1 DEF ParserInput
<1> HIDE DEF entry
<1>3. Blank \notin {a.family, a.key, a.id, a.kind, a.reference, reg[a.family].parser}
  BY RegistryAssumption DEF ArtifactValid
<1>4. InputValid(entry.input, reg)
  BY <1>2, <1>3 DEF InputValid, Named, AdapterAligned
<1>5. Named(entry) /\ AdapterAligned(entry, reg)
  BY <1>1, <1>3 DEF Named, AdapterAligned
<1>6. EntryOfArtifact(entry)
  BY <1>1 DEF EntryOfArtifact, SameSource
<1>7. EntryOfInput(entry)
  BY <1>1, <1>2 DEF EntryOfInput, SameAdapter, SameSource
<1>8. EntryValid(entry, reg)
  BY <1>1, <1>3, <1>4, <1>5, <1>6, <1>7 DEF EntryValid
<1> QED
  BY <1>8 DEF entry

\* The one request for everything the run downloaded, with its inputs.
LEMMA OneRequest ==
  ASSUME NEW result, NEW reg, Plannable(result, reg),
         NEW bridge, bridge = Bridge(result.artifacts, reg),
         NEW request,
         request = ParserRequest(result.family, Inputs(bridge), result.run, reg)
  PROVE  /\ ParserRequestIssues(request, reg) = {}
         /\ request.family = result.family /\ request.key = result.key
         /\ request.parser = reg[result.family].parser /\ request.inputs = Inputs(bridge)
         /\ \A j \in DOMAIN request.inputs :
              /\ request.inputs[j].family = request.family
              /\ request.inputs[j].key = request.key
              /\ request.inputs[j].parser = request.parser
<1>1. /\ request.family = result.family /\ request.key = result.family
      /\ request.parser = reg[result.family].parser
      /\ request.inputs = Inputs(bridge) /\ request.correlation = result.run
  BY DEF ParserRequest
<1>2. /\ result.family = result.key /\ Blank \notin {result.family, result.run}
      /\ result.family \in DOMAIN reg /\ reg[result.family].parser # Blank
      /\ \A i \in DOMAIN result.artifacts : result.artifacts[i].family = result.family
  BY PlannableFacts
<1>3. /\ DOMAIN bridge = DOMAIN result.artifacts
      /\ \A i \in DOMAIN bridge : bridge[i] = BridgeEntry(result.artifacts[i], reg)
  BY BridgeFacts DEF Plannable, ResultOK
<1>4. DOMAIN request.inputs = DOMAIN result.artifacts
  BY <1>1, <1>3 DEF Inputs
<1>5. ASSUME NEW j \in DOMAIN request.inputs
      PROVE  /\ request.inputs[j].family = request.family
             /\ request.inputs[j].key = request.key
             /\ request.inputs[j].parser = request.parser
  <2>1. request.inputs[j] = bridge[j].input
    BY <1>1, <1>3, <1>4 DEF Inputs
  <2>2. bridge[j] = BridgeEntry(result.artifacts[j], reg)
    BY <1>3, <1>4
  <2> QED
    BY <1>1, <1>2, <1>4, <2>1, <2>2 DEF BridgeEntry, ParserInput
<1>6. request.inputs # <<>>
  <2>1. result.artifacts \in Seq(Range(result.artifacts)) /\ result.artifacts # <<>>
    BY DEF Plannable, ResultOK, ArtifactsOK
  <2>2. 1 \in DOMAIN request.inputs
    BY <1>4, <2>1
  <2> QED
    BY <2>2
<1>7. InputIssues(request) = {}
  <2>1. \A i \in DOMAIN request.inputs :
          {g \in {"family", "key", "parser"} : request.inputs[i][g] # request[g]} = {}
    BY <1>5
  <2> QED
    BY <1>6, <2>1 DEF InputIssues
<1>8. IdentityIssues(request, reg) = {}
  <2>1. {g \in {"family", "key", "parser"} : request[g] = Blank} = {}
    BY <1>1, <1>2
  <2> QED
    BY <1>1, <1>2, <2>1 DEF IdentityIssues
<1>9. ParserRequestIssues(request, reg) = {}
  BY <1>1, <1>2, <1>7, <1>8 DEF ParserRequestIssues
<1> QED
  BY <1>1, <1>2, <1>5, <1>9

\* The plan from acquisition to parser is accepted.
LEMMA ParserPlanAccepted ==
  ASSUME NEW result, NEW reg, Plannable(result, reg),
         NEW plan, plan = ParserPlan(result, reg)
  PROVE  ParserPlanValid(plan, reg)
<1>1. PICK bridge : bridge = Bridge(result.artifacts, reg)
  OBVIOUS
<1>2. PICK request : request = ParserRequest(result.family, Inputs(bridge), result.run, reg)
  OBVIOUS
<1>3. /\ plan.family = result.family /\ plan.key = result.key /\ plan.run = result.run
      /\ plan.result = result /\ plan.bridge = bridge /\ plan.requests = <<request>>
      /\ plan.issues = <<>>
      /\ plan.summary = ParserPlanSummary(result, plan.bridge, plan.requests, <<>>)
  BY <1>1, <1>2, ParserPlanFacts
<1>4. /\ result.family = result.key /\ Blank \notin {result.family, result.key, result.run}
      /\ result.family \in DOMAIN reg /\ RunResultValid(result) /\ reg \in Registries
      /\ \A i \in DOMAIN result.artifacts :
           /\ ArtifactValid(result.artifacts[i]) /\ result.artifacts[i].bad = {}
           /\ result.artifacts[i].family = result.family
           /\ result.artifacts[i].key = result.key
  BY PlannableFacts DEF Plannable
<1>5. /\ DOMAIN bridge = DOMAIN result.artifacts
      /\ \A i \in DOMAIN bridge : bridge[i] = BridgeEntry(result.artifacts[i], reg)
  BY <1>1, BridgeFacts DEF Plannable, ResultOK
<1>6. /\ ParserRequestIssues(request, reg) = {}
      /\ request.family = result.family /\ request.key = result.key
      /\ request.inputs = Inputs(bridge)
      /\ \A j \in DOMAIN request.inputs :
           request.inputs[j].key = request.key /\ request.inputs[j].parser = request.parser
  BY <1>1, <1>2, OneRequest
<1>7. DOMAIN plan.requests = {1} /\ plan.requests[1] = request
  BY <1>3
<1>8. ResultOfPlan(plan)
  BY <1>3 DEF ResultOfPlan, SameSource
<1>9. BridgeOfPlan(plan)
  <2>1. \A i \in DOMAIN bridge :
          /\ bridge[i].artifactId = result.artifacts[i].id
          /\ bridge[i].family = result.family /\ bridge[i].key = result.key
    <3> SUFFICES ASSUME NEW i \in DOMAIN bridge
                 PROVE  /\ bridge[i].artifactId = result.artifacts[i].id
                        /\ bridge[i].family = result.family /\ bridge[i].key = result.key
      OBVIOUS
    <3>1. PICK a : a = result.artifacts[i]
      OBVIOUS
    <3>2. a.family = result.family /\ a.key = result.key
      BY <1>4, <1>5, <3>1
    <3>3. bridge[i] = BridgeEntry(a, reg)
      BY <1>5, <3>1
    <3>4. bridge[i].artifactId = a.id /\ bridge[i].family = a.family /\ bridge[i].key = a.key
      BY <3>3 DEF BridgeEntry
    <3> QED
      BY <3>1, <3>2, <3>4
  <2> QED
    BY <1>3, <1>5, <2>1 DEF BridgeOfPlan, SameSource
<1>10. RequestsOfPlan(plan)
  BY <1>3, <1>6, <1>7 DEF RequestsOfPlan, SameSource
<1>11. BridgeValid(plan.bridge, reg)
  BY <1>3, <1>4, <1>5, EntryAccepted DEF BridgeValid
<1>12. RequestsAccepted(plan, reg)
  BY <1>6, <1>7 DEF RequestsAccepted, ParserRequestValid
<1>13. ParserPlanSummaryAccepted(plan) /\ IssuesAccepted(plan.issues)
  BY <1>3 DEF ParserPlanSummaryAccepted, IssuesAccepted
<1> QED
  BY <1>3, <1>4, <1>8, <1>9, <1>10, <1>11, <1>12, <1>13 DEF ParserPlanValid

\* The dry run of a request without issues is accepted.
LEMMA DryRunAccepted ==
  ASSUME NEW request, NEW reg, ParserRequestIssues(request, reg) = {},
         request.family \in DOMAIN reg, request.key = request.family,
         request.parser = reg[request.family].parser,
         Blank \notin {request.family, request.parser}
  PROVE  DryRunValid(DryRun(request, reg), reg)
<1> DEFINE boundary == DryRun(request, reg)
<1>1. /\ boundary.family = request.family /\ boundary.key = request.key
      /\ boundary.parser = request.parser /\ boundary.request = request
      /\ boundary.eligibility = Eligibility(request, reg)
      /\ boundary.issues = DryRunIssues(request, reg)
      /\ boundary.summary = DryRunSummary(request.inputs, boundary.issues)
  BY DEF DryRun
<1> HIDE DEF boundary
<1>2. boundary.issues = <<>>
  <2>1. Cardinality(ParserRequestIssues(request, reg)) = 0
    BY FS_EmptySet
  <2>2. 1..0 = {}
    OBVIOUS
  <2> QED
    BY <1>1, <2>1, <2>2 DEF DryRunIssues
<1>3. /\ boundary.eligibility.family = request.family
      /\ boundary.eligibility.key = request.family
      /\ boundary.eligibility.parser = reg[request.family].parser
  BY <1>1 DEF Eligibility
<1>4. EligibilityAccepted(boundary)
  BY <1>1, <1>3 DEF EligibilityAccepted, Named, SameAdapter, SameSource
<1>5. Named(boundary) /\ DryRunIdentityAccepted(boundary, reg)
  BY <1>1 DEF Named, DryRunIdentityAccepted
<1>6. SameAdapter(boundary.request, boundary)
  BY <1>1 DEF SameAdapter, SameSource
<1>7. DryRunIssuesAccepted(boundary) /\ DryRunSummaryAccepted(boundary)
  BY <1>1, <1>2 DEF DryRunIssuesAccepted, DryRunSummaryAccepted
<1>8. DryRunValid(boundary, reg)
  BY <1>4, <1>5, <1>6, <1>7 DEF DryRunValid
<1> QED
  BY <1>8 DEF boundary

\* The orchestration plan of such a run is accepted.
LEMMA PlanAccepted ==
  ASSUME NEW result, NEW reg, Plannable(result, reg),
         NEW plan, plan = Plan(result, <<>>, reg)
  PROVE  PlanValid(plan, reg)
<1>1. PICK parserPlan : parserPlan = ParserPlan(result, reg)
  OBVIOUS
<1>2. PICK bridge : bridge = Bridge(result.artifacts, reg)
  OBVIOUS
<1>3. PICK request : request = ParserRequest(result.family, Inputs(bridge), result.run, reg)
  OBVIOUS
<1>4. /\ plan.family = result.family /\ plan.key = result.key
      /\ plan.request = RunRequest(result.key, result.candidates, result.run, result.bad)
      /\ plan.result = result /\ plan.parserPlan = parserPlan
      /\ plan.requests = parserPlan.requests
      /\ plan.boundaries = [i \in DOMAIN plan.requests |-> DryRun(plan.requests[i], reg)]
      /\ plan.issues = <<>>
      /\ plan.summary = PlanSummary(plan.request, plan.result, plan.parserPlan, plan.requests,
                                    plan.boundaries, plan.issues)
  BY <1>1, PlanFacts
<1>5. /\ parserPlan.family = result.family /\ parserPlan.key = result.key
      /\ parserPlan.bridge = bridge /\ parserPlan.requests = <<request>>
  BY <1>1, <1>2, <1>3, ParserPlanFacts
<1>6. /\ result.family = result.key /\ Blank \notin {result.family, result.key, result.run}
      /\ result.family \in DOMAIN reg /\ reg[result.family].parser # Blank
      /\ RunResultValid(result)
  BY PlannableFacts DEF Plannable
<1>7. /\ ParserRequestIssues(request, reg) = {}
      /\ request.family = result.family /\ request.key = result.key
      /\ request.parser = reg[result.family].parser
  BY <1>2, <1>3, OneRequest
<1>8. RunRequestValid(plan.request) /\ SameSource(plan.request, result)
  BY <1>4, RequestAgainAccepted
<1>9. ParserPlanValid(parserPlan, reg)
  BY <1>1, ParserPlanAccepted
<1>10. DOMAIN plan.requests = {1} /\ plan.requests[1] = request
  BY <1>4, <1>5
<1>11. DOMAIN plan.boundaries = {1} /\ plan.boundaries[1] = DryRun(request, reg)
  BY <1>4, <1>10
<1>12. DryRunValid(DryRun(request, reg), reg)
  BY <1>6, <1>7, DryRunAccepted
<1>13. BoundariesAccepted(plan, reg)
  BY <1>11, <1>12 DEF BoundariesAccepted
<1>14. BoundariesOfPlan(plan)
  <2>1. /\ DryRun(request, reg).request = request
        /\ SameSource(DryRun(request, reg), plan)
    BY <1>4, <1>7 DEF DryRun, SameSource
  <2>2. [i \in DOMAIN plan.boundaries |-> plan.boundaries[i].request]
          = [i \in {1} |-> request]
    BY <1>11, <2>1
  <2>3. plan.requests = [i \in {1} |-> request]
    BY <1>4, <1>5, <1>10
  <2> QED
    BY <1>11, <2>1, <2>2, <2>3 DEF BoundariesOfPlan
<1>15. AcquisitionOfPlan(plan) /\ ParserPlanOfPlan(plan) /\ ParserRequestsOfPlan(plan)
  BY <1>4, <1>5, <1>7, <1>8, <1>10
     DEF AcquisitionOfPlan, ParserPlanOfPlan, ParserRequestsOfPlan, SameSource
<1>16. PlanSummaryAccepted(plan) /\ IssuesAccepted(plan.issues)
  <2>1. PlanSummaryAccepted(plan)
    BY <1>4, Zenon DEF PlanSummaryAccepted
  <2> QED
    BY <1>4, <2>1 DEF IssuesAccepted
<1> QED
  BY <1>4, <1>6, <1>8, <1>9, <1>13, <1>14, <1>15, <1>16 DEF PlanValid

\* An executor boundary of an accepted plan is accepted.
LEMMA ExecutorAccepted ==
  ASSUME NEW plan, NEW reg, PlanValid(plan, reg),
         NEW boundary, boundary = Boundary(plan, <<>>, reg)
  PROVE  /\ ExecutorValid(boundary, reg)
         /\ boundary.readiness.reason = "runtime_execution_not_implemented"
<1>1. PICK request : request = ExecutorRequest(plan)
  OBVIOUS
<1>2. request.family = plan.family /\ request.key = plan.key /\ request.plan = plan
  BY <1>1 DEF ExecutorRequest
<1>3. /\ boundary.family = request.family /\ boundary.key = request.key
      /\ boundary.request = request /\ boundary.issues = <<>>
      /\ boundary.readiness = Readiness(request, PlanValid(request.plan, reg))
      /\ boundary.summary = ExecutorSummary(request.plan, <<>>)
  BY <1>1 DEF Boundary, Executor
<1>4. /\ boundary.readiness.family = request.family /\ boundary.readiness.key = request.key
      /\ ~boundary.readiness.executable
      /\ boundary.readiness.reason = "runtime_execution_not_implemented"
  BY <1>2, <1>3 DEF Readiness
<1>5. Blank \notin {plan.family, plan.key}
  BY DEF PlanValid
<1>6. ExecutorRequestAccepted(request) /\ SameSource(boundary.request, boundary)
  BY <1>2, <1>3, <1>5 DEF ExecutorRequestAccepted, SameSource
<1>7. ReadinessAccepted(boundary) /\ IssuesAccepted(boundary.issues)
  BY <1>3, <1>4 DEF ReadinessAccepted, IssuesAccepted, SameSource
<1>8. ExecutorSummaryAccepted(boundary)
  BY <1>3 DEF ExecutorSummaryAccepted
<1> QED
  BY <1>2, <1>3, <1>4, <1>5, <1>6, <1>7, <1>8 DEF ExecutorValid

\* What the builders make of an accepted run with artifacts is accepted by every validator
\* up to the last, and lacks nothing but the execution (create_phase1_orchestration_plan,
\* create_phase1_orchestration_executor_boundary).
THEOREM BuiltStaysAccepted == ContractsSpec => []BuiltIsAccepted
<1>1. ASSUME ContractsInv PROVE BuiltIsAccepted
  <2> SUFFICES ASSUME NEW s \in Slots, NEW reg \in Registries, runs[s] # NoChain,
                      RunResultValid(runs[s]), runs[s].artifacts # <<>>,
                      CanPlan(runs[s], reg),
                      NEW boundary, boundary = Boundary(Plan(runs[s], <<>>, reg), <<>>, reg)
               PROVE  /\ ExecutorValid(boundary, reg)
                      /\ boundary.readiness.reason = "runtime_execution_not_implemented"
    BY DEF BuiltIsAccepted
  <2>1. PICK result : result = runs[s]
    OBVIOUS
  <2>2. PICK plan : plan = Plan(result, <<>>, reg)
    OBVIOUS
  <2>3. Plannable(result, reg)
    BY <1>1, <2>1 DEF Plannable, ContractsInv
  <2>4. PlanValid(plan, reg)
    BY <2>2, <2>3, PlanAccepted
  <2>5. boundary = Boundary(plan, <<>>, reg)
    BY <2>1, <2>2
  <2> QED
    BY <2>4, <2>5, ExecutorAccepted
<1> QED
  BY <1>1, ContractsInvHolds, PTL
===============================================================================
