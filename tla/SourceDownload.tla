--------------------------- MODULE SourceDownload ---------------------------
(***************************************************************************)
(* The download execution boundaries of the three source families          *)
(* ({ipcc,ghg,defra}_source_download_execution_boundary.py): executions    *)
(* that overlap, crash and are repeated on one target file.                *)
(*                                                                         *)
(* They differ in what they do with a target that exists and may not be    *)
(* overwritten: IPCC reuses it, GHG Protocol and DEFRA/DESNZ refuse.       *)
(*                                                                         *)
(* An execution prepares the parent directory and keeps it open, then      *)
(* fetches, and writes below the open directory, wherever the path leads   *)
(* by then.  Directories have ids: "here" is the one the path leads to.    *)
(* A file is not written at once: it is opened (and truncated), part of it *)
(* is there, then all.                                                     *)
(***************************************************************************)
EXTENDS SourceDiscovery, Integers

CONSTANTS Executions,     \* processes that execute download requests
          Families,       \* source families, one of which owns the target
          Reusing,        \* families that reuse an existing target (IPCC)
          Requests,       \* download requests
          MaxDirectories  \* bound: directories that are ever at the parent path

FileStates == {"none", "folder", "empty", "part", "whole"}

\* None is neither an issue's code nor a checksum.
ASSUME DownloadAssumption ==
  /\ Reusing \subseteq Families
  /\ MaxDirectories \in Nat \ {0}
  /\ \A request \in Requests : request.flags \subseteq Permissions /\ request.badYears \subseteq Years
  /\ Absent \notin {"symlink_unsafe", "target_not_file", "target_exists", "parent_changed"}
  /\ Absent \notin FileStates \X (Editions \cup {Absent})

Directories == 1..MaxDirectories
Missing == 0
Symlink == -1

VARIABLES family,        \* the family of the target
          here,          \* the directory at the parent path, Missing or Symlink
          made,          \* how many directories there have been
          files,         \* the target file in each directory
          overwritten,   \* directories in which a target was opened for overwriting
          run            \* what each execution is doing and its last result

downloadVars == <<family, here, made, files, overwritten, run>>

NoFile == [state |-> "none", of |-> Absent, by |-> Absent]
Folder == [state |-> "folder", of |-> Absent, by |-> Absent]
Rejected(status, issues) ==
  [status |-> status, checksum |-> Absent, reused |-> FALSE, issues |-> issues]
NoResult == Rejected("none", {})
Started(pc, request, result) ==
  [pc |-> pc, request |-> request, dir |-> Missing, content |-> Absent, result |-> result]
NotRunning == Started("idle", Absent, NoResult)

\* The checksum of what a file holds: of a whole edition, or of something else.
Checksum(file) ==
  IF file.state = "whole" THEN <<"whole", file.of>> ELSE <<file.state, file.of>>

TypeOK ==
  /\ family \in Families
  /\ made \in 0..MaxDirectories
  /\ here \in -1..made
  /\ files \in [Directories ->
       [state : FileStates, of : Editions \cup {Absent}, by : Executions \cup {Absent}]]
  /\ overwritten \subseteq Directories
  /\ \A e \in Executions :
       /\ run[e].pc \in {"idle", "prepare", "exists", "reading", "fetch", "ensure", "open",
                         "write", "close", "done"}
       /\ run[e].pc # "idle" =>
            /\ run[e].request \in Requests
            /\ run[e].request.flags \subseteq Permissions
            /\ run[e].request.badYears \subseteq Years
       /\ run[e].dir \in 0..made
       /\ run[e].content \in Editions \cup {Absent}
       /\ run[e].result.status \in {"none", "blocked", "failed", "downloaded"}

\* The target may be a directory when the first execution starts.
Init ==
  /\ family \in Families
  /\ \/ here = Missing /\ made = 0 /\ files = [d \in Directories |-> NoFile]
     \/ /\ here = 1 /\ made = 1
        /\ files \in {[d \in Directories |-> IF d = 1 THEN f ELSE NoFile] : f \in {NoFile, Folder}}
     \/ here = Symlink /\ made = 0 /\ files = [d \in Directories |-> NoFile]
  /\ overwritten = {}
  /\ run = [e \in Executions |-> NotRunning]

-----------------------------------------------------------------------------
Enter(e, pc, dir, content) ==
  run' = [run EXCEPT ![e] = [pc |-> pc, request |-> @.request, dir |-> dir,
                             content |-> content, result |-> @.result]]
Goto(e, pc) == Enter(e, pc, run[e].dir, run[e].content)

\* The execution ends with a result and closes the directory.
End(e, result) ==
  run' = [run EXCEPT ![e] =
            [pc |-> "done", request |-> @.request, content |-> Absent, result |-> result,
             dir |-> IF result.status = "downloaded" THEN @.dir ELSE Missing]]

Blocked(code) == Rejected("blocked", {code})
Failed(code) == Rejected("failed", {code})
Downloaded(checksum, reused) ==
  [status |-> "downloaded", checksum |-> checksum, reused |-> reused, issues |-> {}]

Overwrites(e) == "overwrite" \in run[e].request.flags
Expected(e) == run[e].request.expected
Matches(e, checksum) == Expected(e) = Absent \/ checksum = <<"whole", Expected(e)>>
Files == <<family, here, made, files, overwritten>>

Execute(e, request) ==
  /\ run[e].pc \in {"idle", "done"}
  /\ run' = [run EXCEPT ![e] =
       IF RequestIssues(request) # {}
       THEN Started("done", request, Rejected("blocked", RequestIssues(request)))
       ELSE Started("prepare", request, NoResult)]
  /\ UNCHANGED Files

\* MUTANT of Prepare: a symlink in the path is followed.
PrepareThroughLink(e) ==
  /\ run[e].pc = "prepare"
  /\ here = Missing => made < MaxDirectories
  /\ LET dir == IF here = Missing THEN made + 1 ELSE here IN
     /\ here' = dir
     /\ made' = IF here = Missing THEN dir ELSE made
     /\ Enter(e, IF family \in Reusing THEN "exists" ELSE "fetch", dir, Absent)
  /\ UNCHANGED <<family, files, overwritten>>

\* A symlink in its path, or a target that is a directory, blocks an execution,
\* and so does an existing target of a family that refuses to reuse it.
TargetError(e, dir) ==
  IF dir = Symlink THEN "symlink_unsafe"
  ELSE IF files[dir].state = "folder" \/ run[e].request.dotPath THEN "target_not_file"
  ELSE IF family \notin Reusing /\ files[dir].state # "none" /\ ~Overwrites(e)
  THEN "target_exists"
  ELSE Absent

\* The directory is made if it is missing, and opened.
Prepare(e) ==
  /\ run[e].pc = "prepare"
  /\ here = Missing => made < MaxDirectories
  /\ LET dir == IF here = Missing THEN made + 1 ELSE here IN
     /\ here' = dir
     /\ made' = IF here = Missing THEN dir ELSE made
     /\ IF TargetError(e, dir) # Absent THEN End(e, Blocked(TargetError(e, dir)))
        ELSE Enter(e, IF family \in Reusing THEN "exists" ELSE "fetch", dir, Absent)
  /\ UNCHANGED <<family, files, overwritten>>

\* The directory cannot be made, resolved or opened.
PrepareFails(e) ==
  /\ run[e].pc = "prepare"
  /\ End(e, Blocked("parent_failed"))
  /\ UNCHANGED Files

\* Reusing families look for the target, by its path; through a link they may
\* find one somewhere else.
CheckExisting(e) ==
  /\ run[e].pc = "exists"
  /\ \E found \in IF here = Symlink THEN BOOLEAN
                  ELSE {(here \in Directories) /\ files[here].state # "none"} :
       Goto(e, IF found /\ ~Overwrites(e) THEN "reading" ELSE "fetch")
  /\ UNCHANGED Files

\* What ensure_parent_path_still_matches_open_fd raises, if anything.
ParentError(e) ==
  IF here = Symlink THEN "symlink_unsafe"
  ELSE IF here # run[e].dir THEN "parent_changed"
  ELSE Absent

\* MUTANT of ReadExisting: the expected checksum is not compared.
ReadExistingUnchecked(e) ==
  /\ run[e].pc = "reading"
  /\ LET file == files[run[e].dir] IN
     End(e, IF ParentError(e) # Absent THEN Blocked(ParentError(e))
            ELSE IF file.state \in {"none", "folder"} THEN Blocked("existing_read_failed")
            ELSE IF file.state = "empty" THEN Failed("existing_empty")
            ELSE Downloaded(Checksum(file), TRUE))
  /\ UNCHANGED Files

\* MUTANT of ReadExisting: an empty file is reused like any other.
ReadExistingOfAnySize(e) ==
  /\ run[e].pc = "reading"
  /\ LET file == files[run[e].dir] IN
     End(e, IF ParentError(e) # Absent THEN Blocked(ParentError(e))
            ELSE IF file.state \in {"none", "folder"} THEN Blocked("existing_read_failed")
            ELSE IF ~Matches(e, Checksum(file)) THEN Failed("existing_checksum_mismatch")
            ELSE Downloaded(Checksum(file), TRUE))
  /\ UNCHANGED Files

\* The existing target is read below the open directory.
ReadExisting(e) ==
  /\ run[e].pc = "reading"
  /\ LET file == files[run[e].dir] IN
     End(e, IF ParentError(e) # Absent THEN Blocked(ParentError(e))
            ELSE IF file.state \in {"none", "folder"} THEN Blocked("existing_read_failed")
            ELSE IF file.state = "empty" THEN Failed("existing_empty")
            ELSE IF ~Matches(e, Checksum(file)) THEN Failed("existing_checksum_mismatch")
            ELSE Downloaded(Checksum(file), TRUE))
  /\ UNCHANGED Files

\* The transport answers with an edition of the source.
Fetch(e, edition) ==
  /\ run[e].pc = "fetch"
  /\ IF Matches(e, <<"whole", edition>>)
     THEN Enter(e, "ensure", run[e].dir, edition)
     ELSE End(e, Failed("checksum_mismatch"))
  /\ UNCHANGED Files

\* The transport raises, or its response is missing, empty or no bytes, or has
\* a blank content type or final URI.
FetchFails(e) ==
  /\ run[e].pc = "fetch"
  /\ End(e, Failed("transport"))
  /\ UNCHANGED Files

EnsureParent(e) ==
  /\ run[e].pc = "ensure"
  /\ IF ParentError(e) = Absent THEN Goto(e, "open") ELSE End(e, Failed(ParentError(e)))
  /\ UNCHANGED Files

\* MUTANT of OpenTarget: the target is opened without O_EXCL.
OpenTargetShared(e) ==
  /\ run[e].pc = "open"
  /\ IF files[run[e].dir].state = "folder" THEN End(e, Failed("write_failed"))
        /\ UNCHANGED <<files, overwritten>>
     ELSE /\ files' = [files EXCEPT ![run[e].dir] =
                         [state |-> "empty", of |-> run[e].content, by |-> e]]
          /\ overwritten' = IF Overwrites(e) THEN overwritten \cup {run[e].dir} ELSE overwritten
          /\ Goto(e, "write")
  /\ UNCHANGED <<family, here, made>>

\* The target is created with O_EXCL or, to overwrite it, truncated.
OpenTarget(e) ==
  /\ run[e].pc = "open"
  /\ LET dir == run[e].dir
         opened == /\ files' = [files EXCEPT ![dir] =
                                  [state |-> "empty", of |-> run[e].content, by |-> e]]
                   /\ Goto(e, "write")
     IN CASE files[dir].state # "none" /\ ~Overwrites(e) ->
               End(e, Failed("target_exists")) /\ UNCHANGED <<files, overwritten>>
          [] files[dir].state = "folder" /\ Overwrites(e) ->
               End(e, Failed("write_failed")) /\ UNCHANGED <<files, overwritten>>
          [] OTHER ->
               opened /\ overwritten' = IF Overwrites(e) THEN overwritten \cup {dir} ELSE overwritten
  /\ UNCHANGED <<family, here, made>>

\* What the file is after an execution wrote to it: its own content if no other
\* opened the file since, else what the other made of it, or a mixture.
AfterWrite(e, state) ==
  LET file == files[run[e].dir] IN
  IF file.by = e THEN {[file EXCEPT !.state = state]}
  ELSE {file, [file EXCEPT !.state = "part", !.of = Absent]}

WriteContent(e) ==
  /\ run[e].pc = "write"
  /\ \E file \in AfterWrite(e, "part") : files' = [files EXCEPT ![run[e].dir] = file]
  /\ Goto(e, "close")
  /\ UNCHANGED <<family, here, made, overwritten>>

CloseTarget(e) ==
  /\ run[e].pc = "close"
  /\ \E file \in AfterWrite(e, "whole") : files' = [files EXCEPT ![run[e].dir] = file]
  /\ End(e, Downloaded(<<"whole", run[e].content>>, FALSE))
  /\ UNCHANGED <<family, here, made, overwritten>>

\* The file stays as far as it was written.
WriteFails(e) ==
  /\ run[e].pc \in {"open", "write", "close"}
  /\ End(e, Failed("write_failed"))
  /\ UNCHANGED Files

Crash(e) ==
  /\ run[e].pc \notin {"idle", "done"}
  /\ run' = [run EXCEPT ![e] = NotRunning]
  /\ UNCHANGED Files

-----------------------------------------------------------------------------
\* The parent directory is moved away, and another one or a link put there.
ReplaceParent ==
  /\ here \in Directories
  /\ \/ here' = Symlink /\ UNCHANGED <<made, files>>
     \/ made < MaxDirectories /\ here' = made + 1 /\ made' = made + 1 /\ UNCHANGED files
  /\ UNCHANGED <<family, overwritten, run>>

\* A link or a directory in the way is removed, or a directory put back.
ClearPath ==
  /\ \/ here = Symlink /\ here' \in 0..made /\ UNCHANGED files
     \/ /\ here \in Directories /\ files[here].state = "folder"
        /\ files' = [files EXCEPT ![here] = NoFile] /\ UNCHANGED here
  /\ UNCHANGED <<family, made, overwritten, run>>

ExecutionStep(e) ==
  \/ \E request \in Requests : Execute(e, request)
  \/ Prepare(e) \/ PrepareFails(e) \/ CheckExisting(e) \/ ReadExisting(e)
  \/ \E edition \in Editions : Fetch(e, edition)
  \/ FetchFails(e) \/ EnsureParent(e) \/ OpenTarget(e) \/ WriteContent(e) \/ CloseTarget(e)
  \/ WriteFails(e) \/ Crash(e)

Next ==
  \/ \E e \in Executions : ExecutionStep(e)
  \/ ReplaceParent
  \/ ClearPath

Spec == Init /\ [][Next]_downloadVars

-----------------------------------------------------------------------------
(* Properties.                                                             *)

\* The boundary's own validation of a result: what it says of the request, of
\* the status, and of the artifact, whose size has to be positive.
ArtifactIssues(result) ==
  IF result.checksum # Absent /\ result.checksum[1] = "empty"
  THEN {<<"invalid_size", "artifact.size_bytes">>} ELSE {}

StatusIssues(result) ==
  (IF result.status = "downloaded" /\ result.checksum = Absent
   THEN {<<"missing_artifact", "artifact">>} ELSE {})
    \cup (IF result.status # "downloaded" /\ result.checksum # Absent
          THEN {<<"unexpected_artifact", "artifact">>} ELSE {})
    \cup (IF result.status # "downloaded" /\ result.issues = {}
          THEN {<<"missing_issues", "issues">>} ELSE {})

ResultIssues(request, result) ==
  RequestIssues(request) \cup StatusIssues(result) \cup ArtifactIssues(result)

\* Whatever other executions leave at the target, an execution of a valid
\* request ends in a result that passes the boundary's own validation.
ResultsAreValid ==
  \A e \in Executions :
    (run[e].pc = "done" /\ RequestIssues(run[e].request) = {})
      => ResultIssues(run[e].request, run[e].result) = {}

\* A download nobody may overwrite stays what its checksum says, whatever other
\* executions and crashes follow: a fresh one, and a reused one whose request
\* pinned the checksum.
DownloadedStays ==
  \A e \in Executions :
    LET r == run[e].result IN
    (/\ run[e].pc = "done" /\ r.status = "downloaded"
     /\ r.reused => Expected(e) # Absent
     /\ run[e].dir \notin overwritten)
      => /\ files[run[e].dir].state = "whole"
         /\ Checksum(files[run[e].dir]) = r.checksum

Writes(e, d) == run[e].dir = d /\ run[e].pc \in {"write", "close"}

\* A whole file is touched only by an execution whose own request may overwrite it, or by
\* the one that created it with O_EXCL and goes on writing to its open handle after an
\* execution that may overwrite truncated and completed it (_write_content_to_safe_target).  Nobody
\* else writes there without that permission.
OnlyOverwriteReplaces ==
  [][\A d \in Directories :
       (files[d].state = "whole" /\ files'[d] # files[d]) =>
         \E e \in Executions :
           /\ run'[e] # run[e] /\ run[e].dir = d
           /\ \/ Overwrites(e)
              \/ /\ Writes(e, d) /\ files[d].by # e /\ d \in overwritten
                 /\ \A o \in Executions \ {e} : Writes(o, d) => Overwrites(o)]_downloadVars
=============================================================================
