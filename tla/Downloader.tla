----------------------------- MODULE Downloader -----------------------------
(***************************************************************************)
(* download.Downloader: a file is fetched into target.tmp and renamed to   *)
(* target once it is complete; errors clean up; a file at target is taken  *)
(* for a finished download.                                                *)
(*                                                                         *)
(* All downloads are of one URL. The file system is a map from the two     *)
(* paths to files (inodes), a file is the sequence of chunks written to it *)
(* (0 for a hole), an open file keeps its own offset. The process may      *)
(* crash at any time; files survive, downloads in progress do not.         *)
(***************************************************************************)
EXTENDS Integers, Sequences, FiniteSets

CONSTANTS
  Downloads,   \* callers of Download
  Parallel,    \* how many of them run at the same time
  N            \* number of chunks of the remote file

ASSUME DownloadAssumption == IsFiniteSet(Downloads) /\ Parallel \in Nat \ {0} /\ N \in Nat \ {0}

VARIABLES
  pc,      \* per caller: where it is in Download
  fd,      \* per caller: the file it has open, or NoFile
  off,     \* per caller: offset of its open file, in chunks
  got,     \* per caller: chunks of the current response written so far
  path,    \* the file at "tmp" and at "target", or NoFile
  content, \* the chunks of each file
  result,  \* per caller: what the last Download returned
  stuck    \* history: the paths whose file os.Remove failed to remove

vars == <<pc, fd, off, got, path, content, result, stuck>>

NoFile == 0

Files == 1 .. Cardinality(Downloads) + 2

Complete == [c \in 1 .. N |-> c]

Exists(p) == path[p] # NoFile

Running == {d \in Downloads : pc[d] \notin {"idle", "done"}}

(* A file that neither a path nor an open descriptor refers to.            *)
FreshFile ==
  CHOOSE f \in Files : f \notin {path["tmp"], path["target"]} \union {fd[d] : d \in Downloads}

-----------------------------------------------------------------------------
Init ==
  /\ pc = [d \in Downloads |-> "idle"]
  /\ fd = [d \in Downloads |-> NoFile]
  /\ off = [d \in Downloads |-> 0]
  /\ got = [d \in Downloads |-> 0]
  /\ path = [p \in {"tmp", "target"} |-> NoFile]
  /\ content = [f \in Files |-> <<>>]
  /\ result = [d \in Downloads |-> "none"]
  /\ stuck = {}

Goto(d, l) == pc' = [pc EXCEPT ![d] = l]

(* Download returns; its deferred function has nothing to clean up.        *)
Succeed(d) == Goto(d, "done") /\ result' = [result EXCEPT ![d] = "ok"]

(* Mutant: the deferred function is skipped.                               *)
Fail_NoCleanup(d) == Goto(d, "done") /\ result' = [result EXCEPT ![d] = "err"]

(* An error: the deferred cleanup comes next.                              *)
Fail(d) == Goto(d, "cleanup") /\ result' = [result EXCEPT ![d] = "none"]

Start(d) ==
  /\ pc[d] \in {"idle", "done"}
  /\ Cardinality(Running) < Parallel
  /\ Goto(d, "check")
  /\ result' = [result EXCEPT ![d] = "none"]
  /\ UNCHANGED <<fd, off, got, path, content, stuck>>

(* isCached.                                                               *)
CheckCached(d) ==
  /\ pc[d] = "check"
  /\ IF Exists("target") THEN Succeed(d) ELSE Goto(d, "open") /\ UNCHANGED result
  /\ UNCHANGED <<fd, off, got, path, content, stuck>>

(* Mutant: the download is written to its final place.                     *)
Tmp_IsTarget == "target"

Tmp == "tmp"

(* MkdirAll and OpenFile with O_CREATE|O_TRUNC.                            *)
Open(d) ==
  /\ pc[d] = "open"
  /\ LET f == IF Exists(Tmp) THEN path[Tmp] ELSE FreshFile IN
       /\ path' = [path EXCEPT ![Tmp] = f]
       /\ content' = [content EXCEPT ![f] = <<>>]
       /\ fd' = [fd EXCEPT ![d] = f]
  /\ off' = [off EXCEPT ![d] = 0]
  /\ got' = [got EXCEPT ![d] = 0]
  /\ stuck' = stuck \ {Tmp}
  /\ Goto(d, "get")
  /\ UNCHANGED result

OpenFails(d) ==
  /\ pc[d] = "open"
  /\ Fail(d)
  /\ UNCHANGED <<fd, off, got, path, content, stuck>>

(* The sequence s with c at position i + 1, holes before it if needed.     *)
WriteAt(s, i, c) ==
  [j \in 1 .. (IF Len(s) > i THEN Len(s) ELSE i + 1) |->
     IF j = i + 1 THEN c ELSE IF j <= Len(s) THEN s[j] ELSE 0]

(* io.Copy writes the next chunk of the response.                          *)
Write(d) ==
  /\ pc[d] = "get"
  /\ got[d] < N
  /\ content' = [content EXCEPT ![fd[d]] = WriteAt(@, off[d], got[d] + 1)]
  /\ off' = [off EXCEPT ![d] = @ + 1]
  /\ got' = [got EXCEPT ![d] = @ + 1]
  /\ UNCHANGED <<pc, fd, path, result, stuck>>

ClearedOff(d) == 0

(* DeadlineExceeded, while waiting for or reading the response: clearFile, *)
(* then another attempt from the start.                                    *)
Retry(d) ==
  /\ pc[d] = "get"
  /\ content' = [content EXCEPT ![fd[d]] = <<>>]
  /\ off' = [off EXCEPT ![d] = ClearedOff(d)]
  /\ got' = [got EXCEPT ![d] = 0]
  /\ UNCHANGED <<pc, fd, path, result, stuck>>

(* Any other error of the call, the end of the retries, or an error of     *)
(* clearFile or of closing the file: downloadFile fails with it closed.    *)
GetFails(d) ==
  /\ pc[d] = "get"
  /\ Fail(d)
  /\ fd' = [fd EXCEPT ![d] = NoFile]
  /\ UNCHANGED <<off, got, path, content, stuck>>

(* The response is read to its end and the file closed.                    *)
GetDone(d) ==
  /\ pc[d] = "get"
  /\ got[d] = N
  /\ Goto(d, "rename")
  /\ fd' = [fd EXCEPT ![d] = NoFile]
  /\ UNCHANGED <<off, got, path, content, result, stuck>>

(* os.Rename may fail, and does when the temporary file is gone.           *)
Rename(d) ==
  /\ pc[d] = "rename"
  /\ \/ /\ Exists(Tmp)
        /\ path' = [path EXCEPT !["target"] = path[Tmp], !["tmp"] = NoFile]
        /\ stuck' = {}
        /\ Succeed(d)
     \/ /\ Fail(d)
        /\ UNCHANGED <<path, stuck>>
  /\ UNCHANGED <<fd, off, got, content>>

(* os.Remove of p, whose error is ignored.                                 *)
OsRemove(p) ==
  \/ path' = [path EXCEPT ![p] = NoFile] /\ stuck' = stuck \ {p}
  \/ Exists(p) /\ stuck' = stuck \union {p} /\ UNCHANGED path

(* cleanup: the deferred Removes run last in, first out.                   *)
RemoveTmp(d) ==
  /\ pc[d] = "cleanup"
  /\ OsRemove("tmp")
  /\ Goto(d, "cleanup2")
  /\ UNCHANGED <<fd, off, got, content, result>>

RemoveTarget(d) ==
  /\ pc[d] = "cleanup2"
  /\ OsRemove("target")
  /\ Goto(d, "done")
  /\ result' = [result EXCEPT ![d] = "err"]
  /\ UNCHANGED <<fd, off, got, content>>

-----------------------------------------------------------------------------
(* Downloader.Remove, while no Download runs; one that fails, which is not *)
(* told, changes nothing.                                                  *)
Remove ==
  /\ Running = {}
  /\ Exists("target")
  /\ path' = [path EXCEPT !["target"] = NoFile]
  /\ stuck' = stuck \ {"target"}
  /\ pc' = [d \in Downloads |-> "idle"]
  /\ result' = [d \in Downloads |-> "none"]
  /\ UNCHANGED <<fd, off, got, content>>

Crash ==
  /\ Running # {}
  /\ pc' = [d \in Downloads |-> "idle"]
  /\ fd' = [d \in Downloads |-> NoFile]
  /\ off' = [d \in Downloads |-> 0]
  /\ got' = [d \in Downloads |-> 0]
  /\ result' = [d \in Downloads |-> "none"]
  /\ UNCHANGED <<path, content, stuck>>

Step(d) ==
  \/ CheckCached(d) \/ Open(d) \/ OpenFails(d) \/ Write(d) \/ Retry(d) \/ GetFails(d) \/ GetDone(d)
  \/ Rename(d) \/ RemoveTmp(d) \/ RemoveTarget(d)

Next ==
  \/ Remove \/ Crash
  \/ \E d \in Downloads : Start(d) \/ Step(d)

Spec == Init /\ [][Next]_vars

(* A download goes on, and the retries end (their elapsed time is bounded) *)
(* with a response or an error.                                            *)
Fairness == \A d \in Downloads : WF_vars(Step(d)) /\ SF_vars(GetFails(d) \/ GetDone(d))

FairSpec == Spec /\ Fairness

-----------------------------------------------------------------------------

(* A file at the target path is a complete download, also after a crash at *)
(* any point: isCached may trust it. When Download has returned the path,  *)
(* the file is there.                                                      *)
TargetComplete ==
  /\ Exists("target") => content[path["target"]] = Complete
  /\ (\E d \in Downloads : result[d] = "ok") => Exists("target")

(* "Don't leave half-downloaded or invalid downloads hanging around": once *)
(* a Download has returned an error and until the next one starts, there   *)
(* is no temporary file, and a target only if another Download made it,    *)
(* except a file that os.Remove failed to remove.                          *)
FailedLeavesNothing ==
  Running = {} /\ (\E d \in Downloads : result[d] = "err") =>
    /\ Exists("tmp") => "tmp" \in stuck
    /\ Exists("target") => "target" \in stuck \/ \E d \in Downloads : result[d] = "ok"
=============================================================================
