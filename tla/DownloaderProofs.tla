-------------------------- MODULE DownloaderProofs --------------------------
(***************************************************************************)
(* A file at the target path is a complete download and a failed Download  *)
(* leaves nothing but what os.Remove fails to remove, for any number of    *)
(* callers and chunks, as long as one Download of the target runs at a     *)
(* time (Parallel = 1): crashes, retries and removals included.            *)
(*                                                                         *)
(* With two at a time neither holds: both write to the same temporary      *)
(* file. The proof uses the assumption in one place, AtMostOne.            *)
(***************************************************************************)
EXTENDS Downloader, FiniteSetTheorems, SequenceTheorems, TLAPS

Labels == {"idle", "check", "open", "get", "rename", "cleanup", "cleanup2", "done"}

TypeInv ==
  /\ pc \in [Downloads -> Labels]
  /\ fd \in [Downloads -> Files \union {NoFile}]
  /\ off \in [Downloads -> 0 .. N]
  /\ got \in [Downloads -> 0 .. N]
  /\ path \in [{"tmp", "target"} -> Files \union {NoFile}]
  /\ content \in [Files -> Seq(Nat)]
  /\ result \in [Downloads -> {"none", "ok", "err"}]

(* The first k chunks of the remote file.                                  *)
Prefix(k) == [c \in 1 .. k |-> c]

AtMostOne == \A d, e \in Running : d = e

(* The temporary file of a download that is being fetched holds what has   *)
(* been read of this response, and is complete before it is renamed. Once  *)
(* Download has found no target none appears until it renames.             *)
Fetching(d) ==
  /\ pc[d] # "get" => fd[d] = NoFile
  /\ pc[d] \in {"get", "rename"} => Exists("tmp")
  /\ pc[d] = "get" => /\ fd[d] = path["tmp"]
                      /\ off[d] = got[d]
                      /\ content[fd[d]] = Prefix(got[d])
  /\ pc[d] = "rename" => content[path["tmp"]] = Complete
  /\ pc[d] \in {"open", "get", "rename", "cleanup", "cleanup2"} => ~Exists("target")
  /\ pc[d] = "cleanup2" /\ Exists("tmp") => "tmp" \in stuck
  /\ result[d] # "none" => pc[d] = "done"

(* The two paths name different files.                                     *)
TwoFiles == Exists("tmp") => path["tmp"] # path["target"]

(* A failed Download has removed the temporary file, and the target unless *)
(* another has made it since, when os.Remove could; meanwhile one may run. *)
Leftovers ==
  (\E d \in Downloads : result[d] = "err") =>
    /\ Exists("tmp") => "tmp" \in stuck \/ \E d \in Downloads : pc[d] \in {"get", "rename", "cleanup"}
    /\ Exists("target") => \E d \in Downloads : result[d] = "ok" \/ pc[d] = "check"

IInv ==
  /\ TypeInv /\ AtMostOne /\ TwoFiles
  /\ \A d \in Downloads : Fetching(d)
  /\ TargetComplete
  /\ Leftovers

-----------------------------------------------------------------------------
(* What io.Copy and clearFile leave in the temporary file.                 *)

(* The first k chunks are a sequence of k numbers.                         *)
LEMMA PrefixSeq ==
  ASSUME NEW k \in Nat
  PROVE  Prefix(k) \in Seq(Nat) /\ Len(Prefix(k)) = k /\ DOMAIN Prefix(k) = 1 .. k
<1>1. Prefix(k) \in [1 .. k -> Nat]
  BY DEF Prefix
<1>2. Prefix(k) \in Seq(Nat)
  BY <1>1, SeqDef
<1> QED BY <1>1, <1>2, LenProperties

(* A truncated file holds the first 0 chunks.                              *)
LEMMA PrefixZero == Prefix(0) = <<>>
<1>1. Prefix(0) \in Seq(Nat) /\ Len(Prefix(0)) = 0
  BY PrefixSeq
<1> QED BY <1>1, EmptySeq

(* Writing the next chunk at the end of the prefix read so far.            *)
LEMMA WriteNext ==
  ASSUME NEW k \in Nat
  PROVE  WriteAt(Prefix(k), k, k + 1) = Prefix(k + 1)
<1>1. Len(Prefix(k)) = k
  BY PrefixSeq
<1>2. WriteAt(Prefix(k), k, k + 1) =
        [j \in 1 .. k + 1 |-> IF j = k + 1 THEN k + 1 ELSE IF j <= k THEN Prefix(k)[j] ELSE 0]
  BY <1>1 DEF WriteAt
<1>3. \A j \in 1 .. k + 1 : j # k + 1 => j <= k /\ Prefix(k)[j] = j
  BY DEF Prefix
<1> QED BY <1>2, <1>3 DEF Prefix

(* All chunks are the first N.                                             *)
LEMMA CompletePrefix == Complete = Prefix(N)
BY DEF Complete, Prefix

(* Files are numbers other than the one for no file.                       *)
LEMMA FilesAreNat == Files \subseteq Nat \ {NoFile}
BY DownloadAssumption, FS_CardinalityType DEF Files, NoFile

-----------------------------------------------------------------------------
(* Only the download that takes a step runs.                               *)

(* While one Download runs, every other has not started or has returned.   *)
LEMMA OthersRest ==
  ASSUME IInv, NEW d \in Running
  PROVE  \A e \in Downloads \ {d} : pc[e] \in {"idle", "done"}
BY DEF IInv, AtMostOne, Running

(* A Download that moves while no other runs remains the only one.         *)
LEMMA StillOne ==
  ASSUME IInv, NEW d \in Downloads, NEW l, pc' = [pc EXCEPT ![d] = l],
         \A e \in Downloads \ {d} : pc[e] \in {"idle", "done"}
  PROVE  AtMostOne'
<1>1. \A e \in Downloads \ {d} : pc'[e] = pc[e]
  BY DEF IInv, TypeInv
<1> QED BY <1>1 DEF AtMostOne, Running

(* With every descriptor closed a file is free: the paths name two.        *)
LEMMA FreshFileFree ==
  ASSUME IInv, NEW d \in Downloads, \A e \in Downloads : fd[e] = NoFile
  PROVE  FreshFile \in Files /\ FreshFile \notin {path["tmp"], path["target"]}
<1>1. Cardinality(Downloads) \in Nat /\ Cardinality(Downloads) # 0
  BY DownloadAssumption, FS_CardinalityType, FS_EmptySet
<1>2. {1, 2, 3} \subseteq Files
  BY <1>1 DEF Files
<1>3. {fd[e] : e \in Downloads} \subseteq {NoFile}
  OBVIOUS
<1>4. \E f \in {1, 2, 3} : f \notin {path["tmp"], path["target"]} \union {fd[e] : e \in Downloads}
  BY <1>3 DEF NoFile
<1>5. \E f \in Files : f \notin {path["tmp"], path["target"]} \union {fd[e] : e \in Downloads}
  BY <1>2, <1>4
<1> QED BY <1>5 DEF FreshFile

-----------------------------------------------------------------------------
(* At first there is no file and no Download.                              *)
LEMMA Initially == Init => IInv
<1> SUFFICES ASSUME Init PROVE IInv
  OBVIOUS
<1> USE DownloadAssumption
<1>1. TypeInv
  BY DEF Init, TypeInv, Labels
<1>2. AtMostOne /\ TwoFiles
  BY DEF Init, AtMostOne, Running, TwoFiles, Exists
<1>3. \A d \in Downloads : Fetching(d)
  BY DEF Init, Fetching, Exists
<1>4. TargetComplete /\ Leftovers
  BY DEF Init, TargetComplete, Leftovers, Exists
<1> QED BY <1>1, <1>2, <1>3, <1>4 DEF IInv

(* A Download starts only when none runs.                                  *)
LEMMA StartKeeps ==
  ASSUME IInv, Parallel = 1, NEW d \in Downloads, Start(d) PROVE IInv'
<1> USE DEF IInv
<1>1. Running = {}
  <2>1. IsFiniteSet(Running)
    BY DownloadAssumption, FS_Subset DEF Running
  <2>2. Cardinality(Running) = 0
    BY <2>1, FS_CardinalityType DEF Start
  <2> QED BY <2>1, <2>2, FS_EmptySet
<1>2. \A e \in Downloads : pc[e] \in {"idle", "done"}
  BY <1>1 DEF Running
<1>3. /\ pc' = [pc EXCEPT ![d] = "check"]
      /\ result' = [result EXCEPT ![d] = "none"]
      /\ UNCHANGED <<fd, off, got, path, content, stuck>>
  BY DEF Start, Goto
<1>4. TypeInv'
  BY <1>3 DEF TypeInv, Labels
<1>5. AtMostOne'
  BY <1>2, <1>3, StillOne
<1>6. TwoFiles' /\ TargetComplete'
  BY <1>3 DEF TwoFiles, TargetComplete, Exists, TypeInv
<1>7. ASSUME NEW e \in Downloads PROVE Fetching(e)'
  BY <1>2, <1>3 DEF Fetching, Exists, TypeInv
<1>8. Leftovers'
  BY <1>2, <1>3 DEF Leftovers, Exists, TypeInv
<1> QED BY <1>4, <1>5, <1>6, <1>7, <1>8

(* isCached finds a complete target, or Download goes on without one.      *)
LEMMA CheckCachedKeeps ==
  ASSUME IInv, NEW d \in Downloads, CheckCached(d) PROVE IInv'
<1> USE DEF IInv
<1>1. pc[d] = "check" /\ \A e \in Downloads \ {d} : pc[e] \in {"idle", "done"}
  BY OthersRest DEF CheckCached, Running
<1>2. UNCHANGED <<fd, off, got, path, content, stuck>>
  BY DEF CheckCached
<1>3. CASE Exists("target")
  <2>1. pc' = [pc EXCEPT ![d] = "done"] /\ result' = [result EXCEPT ![d] = "ok"]
    BY <1>3 DEF CheckCached, Succeed, Goto
  <2>2. TypeInv'
    BY <1>2, <2>1 DEF TypeInv, Labels
  <2>3. AtMostOne'
    BY <1>1, <2>1, StillOne
  <2>4. TwoFiles' /\ TargetComplete'
    BY <1>2, <1>3 DEF TwoFiles, TargetComplete, Exists
  <2>5. ASSUME NEW e \in Downloads PROVE Fetching(e)'
    BY <1>1, <1>2, <2>1 DEF Fetching, Exists, TypeInv
  <2>6. Leftovers'
    BY <1>1, <1>2, <2>1 DEF Leftovers, Exists, TypeInv
  <2> QED BY <2>2, <2>3, <2>4, <2>5, <2>6
<1>4. CASE ~Exists("target")
  <2>1. pc' = [pc EXCEPT ![d] = "open"] /\ result' = result
    BY <1>4 DEF CheckCached, Goto
  <2>2. TypeInv'
    BY <1>2, <2>1 DEF TypeInv, Labels
  <2>3. AtMostOne'
    BY <1>1, <2>1, StillOne
  <2>4. TwoFiles' /\ TargetComplete'
    BY <1>2, <1>4, <2>1 DEF TwoFiles, TargetComplete, Exists
  <2>5. ASSUME NEW e \in Downloads PROVE Fetching(e)'
    BY <1>1, <1>2, <1>4, <2>1 DEF Fetching, Exists, TypeInv
  <2>6. Leftovers'
    BY <1>1, <1>2, <1>4, <2>1 DEF Leftovers, Exists, TypeInv
  <2> QED BY <2>2, <2>3, <2>4, <2>5, <2>6
<1> QED BY <1>3, <1>4

(* O_TRUNC: whatever a crash left in the temporary file is gone.           *)
LEMMA OpenKeeps ==
  ASSUME IInv, NEW d \in Downloads, Open(d) PROVE IInv'
<1> USE DEF IInv
<1>1. pc[d] = "open" /\ ~Exists("target") /\ \A e \in Downloads \ {d} : pc[e] \in {"idle", "done"}
  BY OthersRest DEF Open, Running, Fetching
<1>2. \A e \in Downloads : fd[e] = NoFile
  BY <1>1 DEF Fetching
<1> DEFINE f == IF Exists("tmp") THEN path["tmp"] ELSE FreshFile
<1>3. f \in Files
  BY <1>2, FreshFileFree DEF Exists, TypeInv
<1>4. /\ path' = [path EXCEPT !["tmp"] = f]
      /\ content' = [content EXCEPT ![f] = <<>>]
      /\ fd' = [fd EXCEPT ![d] = f]
      /\ off' = [off EXCEPT ![d] = 0]
      /\ got' = [got EXCEPT ![d] = 0]
      /\ pc' = [pc EXCEPT ![d] = "get"]
      /\ result' = result
  BY DEF Open, Tmp, Goto
<1> HIDE DEF f
<1>5. f # NoFile
  BY <1>3, FilesAreNat
<1>6. TypeInv'
  BY <1>3, <1>4, DownloadAssumption, EmptySeq DEF TypeInv, Labels
<1>7. AtMostOne'
  BY <1>1, <1>4, StillOne
<1>8. path'["tmp"] = f /\ path'["target"] = NoFile /\ content'[f] = Prefix(0)
  BY <1>1, <1>3, <1>4, PrefixZero DEF TypeInv, Exists
<1>9. \A e \in Downloads : result[e] # "ok"
  BY <1>1 DEF TargetComplete
<1>10. TwoFiles' /\ TargetComplete'
  BY <1>4, <1>5, <1>8, <1>9 DEF TwoFiles, TargetComplete, Exists
<1>11. ASSUME NEW e \in Downloads PROVE Fetching(e)'
  BY <1>1, <1>4, <1>5, <1>8 DEF Fetching, Exists, TypeInv
<1>12. Leftovers'
  BY <1>4, <1>8 DEF Leftovers, Exists, TypeInv
<1> QED BY <1>6, <1>7, <1>10, <1>11, <1>12

(* When the file cannot be opened or renamed, or the fetch fails for good, *)
(* the clean-up begins.                                                    *)
LEMMA FailKeeps ==
  ASSUME IInv, NEW d \in Downloads, OpenFails(d) \/ GetFails(d) \/ (Rename(d) /\ Fail(d))
  PROVE  IInv'
<1> USE DEF IInv
<1>1. /\ pc[d] \in {"open", "get", "rename"} /\ ~Exists("target")
      /\ \A e \in Downloads \ {d} : pc[e] \in {"idle", "done"}
  BY OthersRest DEF OpenFails, GetFails, Rename, Running, Fetching
<1>2. /\ pc' = [pc EXCEPT ![d] = "cleanup"]
      /\ result' = [result EXCEPT ![d] = "none"]
      /\ fd' = [fd EXCEPT ![d] = NoFile]
      /\ UNCHANGED <<off, got, path, content, stuck>>
  <2>1. CASE OpenFails(d) \/ GetFails(d)
    BY <2>1 DEF OpenFails, GetFails, Fail, Goto, Fetching, TypeInv
  <2>2. CASE Rename(d) /\ Fail(d)
    <3>1. pc'[d] = "cleanup" /\ fd[d] = NoFile
      BY <2>2 DEF Rename, Fail, Goto, Fetching, TypeInv
    <3>2. ~Succeed(d)
      BY <3>1 DEF Succeed, Goto, TypeInv
    <3> QED BY <2>2, <3>1, <3>2 DEF Rename, Fail, Goto, TypeInv
  <2> QED BY <2>1, <2>2
<1>3. TypeInv'
  BY <1>2 DEF TypeInv, Labels
<1>4. AtMostOne'
  BY <1>1, <1>2, StillOne
<1>5. TwoFiles' /\ TargetComplete'
  BY <1>1, <1>2 DEF TwoFiles, TargetComplete, Exists, TypeInv
<1>6. ASSUME NEW e \in Downloads PROVE Fetching(e)'
  BY <1>1, <1>2 DEF Fetching, Exists, TypeInv
<1>7. Leftovers'
  BY <1>1, <1>2 DEF Leftovers, Exists, TypeInv
<1> QED BY <1>3, <1>4, <1>5, <1>6, <1>7

(* A chunk is written at the end, or the file is cleared: the temporary    *)
(* file is a prefix in step with the response.                             *)
LEMMA WriteKeeps ==
  ASSUME IInv, NEW d \in Downloads, Write(d) \/ Retry(d) PROVE IInv'
<1> USE DEF IInv
<1>1. /\ pc[d] = "get" /\ ~Exists("target") /\ Exists("tmp")
      /\ fd[d] = path["tmp"] /\ off[d] = got[d] /\ content[fd[d]] = Prefix(got[d])
      /\ \A e \in Downloads \ {d} : pc[e] \in {"idle", "done"}
  BY OthersRest DEF Write, Retry, Running, Fetching
<1>2. fd[d] \in Files /\ got[d] \in 0 .. N
  BY <1>1 DEF Exists, TypeInv
<1>3. PICK k \in 0 .. N : /\ content' = [content EXCEPT ![fd[d]] = Prefix(k)]
                          /\ off' = [off EXCEPT ![d] = k]
                          /\ got' = [got EXCEPT ![d] = k]
  <2>1. CASE Write(d)
    <3>1. got[d] + 1 \in 0 .. N
      BY <1>2, <2>1, DownloadAssumption DEF Write
    <3>2. WriteAt(content[fd[d]], off[d], got[d] + 1) = Prefix(got[d] + 1)
      BY <1>1, <1>2, WriteNext, DownloadAssumption
    <3> QED BY <1>1, <1>2, <2>1, <3>1, <3>2 DEF Write, TypeInv
  <2>2. CASE Retry(d)
    <3>1. 0 \in 0 .. N
      BY DownloadAssumption
    <3> QED BY <2>2, <3>1, PrefixZero DEF Retry, ClearedOff
  <2> QED BY <2>1, <2>2
<1>4. UNCHANGED <<pc, fd, path, result, stuck>>
  BY DEF Write, Retry
<1>5. k \in Nat /\ Prefix(k) \in Seq(Nat)
  BY PrefixSeq, DownloadAssumption
<1>6. TypeInv'
  BY <1>2, <1>3, <1>4, <1>5 DEF TypeInv
<1>7. AtMostOne' /\ TwoFiles' /\ TargetComplete' /\ Leftovers'
  BY <1>1, <1>4 DEF AtMostOne, Running, TwoFiles, TargetComplete, Leftovers, Exists
<1>8. ASSUME NEW e \in Downloads PROVE Fetching(e)'
  <2>1. pc[e] \in {"get", "rename"} => e = d
    BY <1>1
  <2>2. content'[fd[d]] = Prefix(k) /\ off'[d] = k /\ got'[d] = k
    BY <1>2, <1>3 DEF TypeInv
  <2> QED BY <1>1, <1>4, <2>1, <2>2 DEF Fetching, Exists
<1> QED BY <1>6, <1>7, <1>8

(* A fetch that returns no error has written every chunk.                  *)
LEMMA GetDoneKeeps ==
  ASSUME IInv, NEW d \in Downloads, GetDone(d) PROVE IInv'
<1> USE DEF IInv
<1>1. /\ pc[d] = "get" /\ got[d] = N /\ ~Exists("target") /\ Exists("tmp")
      /\ content[path["tmp"]] = Complete
      /\ \A e \in Downloads \ {d} : pc[e] \in {"idle", "done"}
  BY OthersRest, CompletePrefix DEF GetDone, Running, Fetching
<1>2. /\ pc' = [pc EXCEPT ![d] = "rename"]
      /\ fd' = [fd EXCEPT ![d] = NoFile]
      /\ UNCHANGED <<off, got, path, content, result, stuck>>
  BY DEF GetDone, Goto
<1>3. TypeInv'
  BY <1>2 DEF TypeInv, Labels
<1>4. AtMostOne'
  BY <1>1, <1>2, StillOne
<1>5. TwoFiles' /\ TargetComplete'
  BY <1>1, <1>2 DEF TwoFiles, TargetComplete, Exists
<1>6. ASSUME NEW e \in Downloads PROVE Fetching(e)'
  BY <1>1, <1>2 DEF Fetching, Exists, TypeInv
<1>7. Leftovers'
  BY <1>1, <1>2 DEF Leftovers, Exists, TypeInv
<1> QED BY <1>3, <1>4, <1>5, <1>6, <1>7

(* What is renamed is complete.                                            *)
LEMMA RenameKeeps ==
  ASSUME IInv, NEW d \in Downloads, Rename(d), ~Fail(d) PROVE IInv'
<1> USE DEF IInv
<1>1. /\ pc[d] = "rename" /\ Exists("tmp") /\ content[path["tmp"]] = Complete
      /\ \A e \in Downloads \ {d} : pc[e] \in {"idle", "done"}
  BY OthersRest DEF Rename, Running, Fetching
<1>2. /\ path' = [path EXCEPT !["target"] = path["tmp"], !["tmp"] = NoFile]
      /\ pc' = [pc EXCEPT ![d] = "done"]
      /\ result' = [result EXCEPT ![d] = "ok"]
      /\ UNCHANGED <<fd, off, got, content>>
  BY <1>1 DEF Rename, Tmp, Succeed, Goto
<1>3. path'["tmp"] = NoFile /\ path'["target"] = path["tmp"]
  BY <1>2 DEF TypeInv
<1>4. TypeInv'
  BY <1>2 DEF TypeInv, Labels
<1>5. AtMostOne'
  BY <1>1, <1>2, StillOne
<1>6. TwoFiles' /\ TargetComplete'
  BY <1>1, <1>2, <1>3 DEF TwoFiles, TargetComplete, Exists
<1>7. ASSUME NEW e \in Downloads PROVE Fetching(e)'
  BY <1>1, <1>2 DEF Fetching, Exists, TypeInv
<1>8. Leftovers'
  BY <1>2, <1>3 DEF Leftovers, Exists, TypeInv
<1> QED BY <1>4, <1>5, <1>6, <1>7, <1>8

(* The deferred clean-up removes the temporary file.                       *)
LEMMA RemoveTmpKeeps ==
  ASSUME IInv, NEW d \in Downloads, RemoveTmp(d) PROVE IInv'
<1> USE DEF IInv
<1>1. /\ pc[d] = "cleanup" /\ ~Exists("target")
      /\ \A e \in Downloads \ {d} : pc[e] \in {"idle", "done"}
  BY OthersRest DEF RemoveTmp, Running, Fetching
<1>2. /\ path' \in {path, [path EXCEPT !["tmp"] = NoFile]}
      /\ pc' = [pc EXCEPT ![d] = "cleanup2"]
      /\ UNCHANGED <<fd, off, got, content, result>>
  BY DEF RemoveTmp, OsRemove, Goto
<1>3. path'["target"] = NoFile /\ path["target"] = NoFile
  BY <1>1, <1>2 DEF TypeInv, Exists
<1>9. path'["tmp"] # NoFile => "tmp" \in stuck'
  BY DEF RemoveTmp, OsRemove, TypeInv, Exists
<1>4. TypeInv'
  BY <1>2 DEF TypeInv, Labels
<1>5. AtMostOne'
  BY <1>1, <1>2, StillOne
<1>6. TwoFiles' /\ TargetComplete'
  BY <1>1, <1>2, <1>3 DEF TwoFiles, TargetComplete, Exists
<1>7. ASSUME NEW e \in Downloads PROVE Fetching(e)'
  BY <1>1, <1>2, <1>3, <1>9 DEF Fetching, Exists, TypeInv
<1>8. Leftovers'
  BY <1>3, <1>9 DEF Leftovers, Exists
<1> QED BY <1>4, <1>5, <1>6, <1>7, <1>8

(* cleanup removes the target too: there is none to lose.                  *)
LEMMA RemoveTargetKeeps ==
  ASSUME IInv, NEW d \in Downloads, RemoveTarget(d) PROVE IInv'
<1> USE DEF IInv
<1>1. /\ pc[d] = "cleanup2" /\ ~Exists("target") /\ (Exists("tmp") => "tmp" \in stuck)
      /\ \A e \in Downloads \ {d} : pc[e] \in {"idle", "done"}
  BY OthersRest DEF RemoveTarget, Running, Fetching
<1>2. /\ path' = [path EXCEPT !["target"] = NoFile] /\ stuck' = stuck \ {"target"}
      /\ pc' = [pc EXCEPT ![d] = "done"]
      /\ result' = [result EXCEPT ![d] = "err"]
      /\ UNCHANGED <<fd, off, got, content>>
  BY <1>1 DEF RemoveTarget, OsRemove, Goto
<1>3. path'["target"] = NoFile /\ (path'["tmp"] # NoFile => "tmp" \in stuck')
  BY <1>1, <1>2 DEF TypeInv, Exists
<1>4. TypeInv'
  BY <1>2 DEF TypeInv, Labels
<1>5. AtMostOne'
  BY <1>1, <1>2, StillOne
<1>6. TwoFiles' /\ TargetComplete'
  BY <1>1, <1>2, <1>3 DEF TwoFiles, TargetComplete, Exists, TypeInv
<1>7. ASSUME NEW e \in Downloads PROVE Fetching(e)'
  BY <1>1, <1>2, <1>3 DEF Fetching, Exists, TypeInv
<1>8. Leftovers'
  BY <1>3 DEF Leftovers, Exists
<1> QED BY <1>4, <1>5, <1>6, <1>7, <1>8

(* Remove deletes the target while no Download runs.                       *)
LEMMA RemoveKeeps ==
  ASSUME IInv, Remove PROVE IInv'
<1> USE DEF IInv
<1>1. /\ path' = [path EXCEPT !["target"] = NoFile]
      /\ pc' = [d \in Downloads |-> "idle"]
      /\ result' = [d \in Downloads |-> "none"]
      /\ UNCHANGED <<fd, off, got, content>>
      /\ \A d \in Downloads : pc[d] \in {"idle", "done"}
  BY DEF Remove, Running
<1>2. TypeInv'
  BY <1>1 DEF TypeInv, Labels
<1>3. path'["target"] = NoFile /\ path'["tmp"] = path["tmp"]
  BY <1>1 DEF TypeInv
<1>4. AtMostOne' /\ TwoFiles' /\ TargetComplete' /\ Leftovers'
  BY <1>1, <1>3 DEF AtMostOne, Running, TwoFiles, TargetComplete, Leftovers, Exists
<1>5. ASSUME NEW e \in Downloads PROVE Fetching(e)'
  BY <1>1 DEF Fetching
<1> QED BY <1>2, <1>4, <1>5

(* After a crash nothing runs; what the paths name stays.                  *)
LEMMA CrashKeeps ==
  ASSUME IInv, Crash PROVE IInv'
<1> USE DEF IInv, Crash
<1>1. TypeInv'
  BY DownloadAssumption DEF TypeInv, Labels
<1>2. AtMostOne' /\ TwoFiles' /\ TargetComplete' /\ Leftovers'
  BY DEF AtMostOne, Running, TwoFiles, TargetComplete, Leftovers, Exists
<1>3. ASSUME NEW e \in Downloads PROVE Fetching(e)'
  BY DEF Fetching
<1> QED BY <1>1, <1>2, <1>3

(* Every step preserves the invariant when Downloads run one at a time.    *)
LEMMA OneAtATime == Parallel = 1 /\ IInv /\ [Next]_vars => IInv'
<1> SUFFICES ASSUME Parallel = 1, IInv, [Next]_vars PROVE IInv'
  OBVIOUS
<1>1. CASE Remove
  BY <1>1, RemoveKeeps
<1>2. CASE Crash
  BY <1>2, CrashKeeps
<1>3. ASSUME NEW d \in Downloads, Start(d) PROVE IInv'
  BY <1>3, StartKeeps
<1>4. ASSUME NEW d \in Downloads, Step(d) PROVE IInv'
  BY <1>4, CheckCachedKeeps, OpenKeeps, FailKeeps, WriteKeeps, GetDoneKeeps, RenameKeeps,
     RemoveTmpKeeps, RemoveTargetKeeps DEF Step
<1>5. CASE UNCHANGED vars
  BY <1>5 DEF vars, IInv, TypeInv, AtMostOne, Running, TwoFiles, Fetching, TargetComplete, Leftovers, Exists
<1> QED BY <1>1, <1>2, <1>3, <1>4, <1>5 DEF Next

(* With one Download at a time, what Downloader.Download and Remove leave  *)
(* on disk at any point, a crash included, satisfies IInv.                 *)
THEOREM Invariance == Parallel = 1 => (Spec => []IInv)
<1> SUFFICES ASSUME Parallel = 1 PROVE Spec => []IInv
  OBVIOUS
<1>1. IInv /\ [Next]_vars => IInv'
  BY OneAtATime
<1> QED BY <1>1, Initially, PTL DEF Spec

(* Downloader.Download fetches into a temporary file and renames it: what  *)
(* isCached finds at the target is complete, across crashes and retries,   *)
(* when one Download of the target runs at a time.                         *)
THEOREM CachedIsComplete == Parallel = 1 => (Spec => []TargetComplete)
<1> SUFFICES ASSUME Parallel = 1 PROVE Spec => []TargetComplete
  OBVIOUS
<1>1. IInv => TargetComplete
  BY DEF IInv
<1> QED BY <1>1, Invariance, PTL

(* Download's deferred cleanup: after an error neither a temporary file    *)
(* nor a target of that Download is left, unless os.Remove failed on it,   *)
(* when one runs at a time.                                                *)
THEOREM FailureCleansUp == Parallel = 1 => (Spec => []FailedLeavesNothing)
<1> SUFFICES ASSUME Parallel = 1 PROVE Spec => []FailedLeavesNothing
  OBVIOUS
<1>1. IInv => FailedLeavesNothing
  <2> SUFFICES ASSUME IInv, Running = {}, \E d \in Downloads : result[d] = "err"
               PROVE  /\ Exists("tmp") => "tmp" \in stuck
                      /\ Exists("target") => \E d \in Downloads : result[d] = "ok"
    BY DEF FailedLeavesNothing
  <2>1. \A d \in Downloads : pc[d] \in {"idle", "done"}
    BY DEF Running
  <2> QED BY <2>1 DEF IInv, Leftovers
<1> QED BY <1>1, Invariance, PTL
=============================================================================
