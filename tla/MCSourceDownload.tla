--------------------------- MODULE MCSourceDownload ---------------------------
(***************************************************************************)
(* An instance of SourceDownload for TLC.                                  *)
(***************************************************************************)
EXTENDS SourceDownload, TLC

CONSTANTS e1, e2, ipcc, ghg, v1, v2

\* The candidate a discovery with a given reference declares, released for
\* download and pinned to a checksum by the caller.
Released(uri, checksum) ==
  LET discovery == [missing |-> {}, identity |-> {}, passive |-> TRUE, flags |-> {}, uri |-> uri]
      declared == DiscoveryResult(discovery).candidates
  IN {[c EXCEPT !.downloadAllowed = TRUE, !.checksum = checksum] : c \in declared}

Granted == {"download_execution", "file_write"}

Pinned(checksums, flags, dot) ==
  {RequestOf(c, flags, {}, dot) : c \in UNION {Released("memory", sum) : sum \in checksums}}

\* Requests that may and may not overwrite, with and without a pinned checksum,
\* one for the root itself, and one whose reference is still the discovery's.
SomeRequests ==
  Pinned({Absent, v1}, Granted, FALSE)
    \cup Pinned({Absent}, Granted \cup {"overwrite"}, FALSE)
    \cup Pinned({Absent}, Granted, TRUE)
    \cup {RequestOf(c, Granted, {}, FALSE) : c \in Released("discovery", Absent)}

ExecutionSymmetry == Permutations(Executions)
===============================================================================
