------------------------------ MODULE Releaser ------------------------------
(***************************************************************************)
(* Releaser.Run of plugin/releaser: build every binary, upload them and    *)
(* their checksums (Publish), and then point release.txt to the version    *)
(* (Release). Each binary is compressed into a pipe whose other end the    *)
(* uploader's goroutine reads.                                             *)
(*                                                                         *)
(* Versions are numbered. One may be run again whatever became of its Run: *)
(* nothing in the releaser asks whether it is named already.               *)
(***************************************************************************)
EXTENDS Integers, Sequences

CONSTANTS
  Workers,     \* goroutines of the compiler
  Capacity,    \* of the compiler's channel
  Types,       \* release types: the Environment of Release
  Files,       \* how many binaries there are; walkFiles visits 1 .. Files
  Chunks,      \* writes of a compressed binary to the pipe
  MaxVersion,  \* bound on the versions released
  MaxRuns      \* bound on the calls of Run

ASSUME ReleaserAssumption ==
  /\ Capacity \in Nat /\ Files \in Nat \ {0} /\ Chunks \in Nat \ {0}
  /\ MaxVersion \in Nat \ {0} /\ MaxRuns \in Nat \ {0}

VARIABLES
  compilerPc, toAdd, work, job, started, returned, cancelled, result, compilerErr,  \* see Compiler
  pc,         \* "build", "open", "copy", "gzclose", "pwclose", "wait", "checksums", "release", "failed", "done"
  file,       \* the file walkFiles is at
  sent,       \* chunks the uploader took from the pipe
  footer,     \* gz.Close wrote the end of the archive
  gzErr,      \* a write of the gzip.Writer failed
  closed,     \* the pipe's writer is closed
  eof,        \*   by pw.Close, not with an error
  upload,     \* the goroutine: "none", "reading", "done" or "failed"
  err,        \* uploadBinaries' error
  version,    \* the version that is released
  runs,       \* calls of Run
  objects,    \* the bucket: per version the binaries that are complete
  checksums,  \* the bucket: the versions with a checksums.txt
  txt,        \* the bucket: per release type the version in its file, or 0
  redone      \* history: versions run again since they were named, until Run succeeds

piping == <<sent, footer, gzErr, closed, eof, upload>>
bucket == <<objects, checksums, txt, redone>>
compiling == <<compilerPc, toAdd, work, job, started, returned, cancelled, result, compilerErr>>
vars == <<compiling, pc, file, piping, err, version, runs, bucket>>

C == INSTANCE Compiler WITH Works <- 1 .. Files, pc <- compilerPc, err <- compilerErr

Versions == 1 .. MaxVersion

-----------------------------------------------------------------------------
Init ==
  /\ C!Init
  /\ pc = "build" /\ file = 1
  /\ sent = 0 /\ footer = FALSE /\ gzErr = FALSE
  /\ closed = FALSE /\ eof = FALSE /\ upload = "none"
  /\ err = FALSE
  /\ version = 1 /\ runs = 1
  /\ objects = [v \in Versions |-> {}]
  /\ checksums = {} /\ txt = [t \in Types |-> 0] /\ redone = {}

(* build: the work is added, and the compiler run.                         *)
Compile ==
  /\ pc = "build"
  /\ C!Next
  /\ UNCHANGED <<pc, file, piping, err, version, runs, bucket>>

BuildResult == IF compilerErr THEN "failed" ELSE "open"

Built ==
  /\ pc = "build"
  /\ compilerPc = "returned"
  /\ file' = 1
  /\ pc' = BuildResult
  /\ UNCHANGED <<compiling, piping, err, version, runs, bucket>>

(* uploadBinaries: the file is opened and the goroutine started.           *)
Open ==
  /\ pc = "open"
  /\ \/ pc' = "copy" /\ upload' = "reading"
     \/ pc' = "failed" /\ UNCHANGED upload
  /\ UNCHANGED <<file, sent, footer, gzErr, closed, eof, err, version, runs, bucket>>

(* A write to the pipe returns when the uploader has read it.              *)
Write ==
  /\ pc = "copy"
  /\ sent < Chunks
  /\ upload = "reading" /\ ~closed
  /\ sent' = sent + 1
  /\ UNCHANGED <<pc, file, footer, gzErr, closed, eof, upload, err, version, runs, bucket>>

WriteFails ==
  /\ pc = "copy"
  /\ closed
  /\ pc' = "gzclose"
  /\ gzErr' = TRUE
  /\ err' = TRUE
  /\ UNCHANGED <<file, sent, footer, closed, eof, upload, version, runs, bucket>>

(* The file is read to its end, or reading it fails.                       *)
CopyEnds ==
  /\ pc = "copy"
  /\ pc' = "gzclose"
  /\ err' \in IF sent = Chunks THEN {FALSE, TRUE} ELSE {TRUE}
  /\ UNCHANGED <<file, piping, version, runs, bucket>>

(* The deferred gz.Close writes the footer, unless a write failed before.  *)
GzClose ==
  /\ pc = "gzclose"
  /\ \/ /\ ~gzErr /\ ~closed /\ upload = "reading"
        /\ footer' = TRUE
        /\ UNCHANGED err
     \/ /\ gzErr \/ closed
        /\ err' = TRUE
        /\ UNCHANGED footer
  /\ pc' = "pwclose"
  /\ UNCHANGED <<file, sent, gzErr, closed, eof, upload, version, runs, bucket>>

(* The deferred pw.Close.                                                  *)
PwClose ==
  /\ pc = "pwclose"
  /\ pc' = "wait"
  /\ eof' = ~closed
  /\ closed' = TRUE
  /\ UNCHANGED <<file, sent, footer, gzErr, upload, err, version, runs, bucket>>

(* The goroutine: Upload reads to the end of the file and puts the object, *)
(* also when it is cut short; a file that was not compiled is no binary.   *)
Uploaded ==
  /\ upload = "reading"
  /\ eof
  /\ upload' = "done"
  /\ objects' = [objects EXCEPT ![version] =
                   IF file \in result /\ sent = Chunks /\ footer THEN @ \union {file} ELSE @ \ {file}]
  /\ UNCHANGED <<pc, file, sent, footer, gzErr, closed, eof, err, version, runs, checksums, txt, redone>>

(* Mutant: the pipe is not closed, and its writer waits for a reader.      *)
ClosesPipe_Not == FALSE

(* pw.CloseWithError.                                                      *)
ClosesPipe == TRUE

(* Or the upload fails, at any time.                                       *)
UploadFails ==
  /\ upload = "reading"
  /\ upload' = "failed"
  /\ closed' = (closed \/ ClosesPipe)
  /\ UNCHANGED <<pc, file, sent, footer, gzErr, eof, err, version, runs, bucket>>

(* The deferred g.Wait: its error replaces that of the copy.               *)
UploadError == err \/ upload = "failed"

(* filepath.Walk is at its last file.                                      *)
LastFile == file = Files

(* Mutant: the version is released before its checksums are uploaded.      *)
AfterBinaries_Release == "release"

(* Publish: the checksums come last.                                       *)
AfterBinaries == "checksums"

(* in.Close, deferred first, runs last and may add an error; the locals    *)
(* of the call are gone.                                                   *)
Wait ==
  /\ pc = "wait"
  /\ upload \in {"done", "failed"}
  /\ \/ /\ ~UploadError
        /\ pc' = IF LastFile THEN AfterBinaries ELSE "open"
        /\ file' = IF LastFile THEN file ELSE file + 1
     \/ pc' = "failed" /\ UNCHANGED file
  /\ sent' = 0 /\ footer' = FALSE /\ gzErr' = FALSE
  /\ closed' = FALSE /\ eof' = FALSE /\ upload' = "none"
  /\ err' = FALSE
  /\ UNCHANGED <<version, runs, bucket>>

(* uploadChecksums, which fails with or without an effect.                 *)
UploadChecksums ==
  /\ pc = "checksums"
  /\ \/ pc' = "release" /\ checksums' = checksums \union {version}
     \/ pc' = "failed" /\ checksums' \in {checksums, checksums \union {version}}
  /\ UNCHANGED <<file, piping, err, version, runs, objects, txt, redone>>

(* Release, which fails with or without an effect.                         *)
Release(t) ==
  /\ pc = "release"
  /\ \/ /\ pc' = "done" /\ txt' = [txt EXCEPT ![t] = version]
        /\ redone' = redone \ {version}
     \/ /\ pc' = "failed" /\ txt' \in {txt, [txt EXCEPT ![t] = version]}
        /\ UNCHANGED redone
  /\ UNCHANGED <<file, piping, err, version, runs, objects, checksums>>

(* Another Run, of a Releaser and a compiler of its own: for the next      *)
(* version, or for the same one.                                           *)
Again ==
  /\ pc \in {"done", "failed"}
  /\ runs < MaxRuns
  /\ runs' = runs + 1
  /\ version' \in {version, version + 1} \intersect Versions
  /\ redone' = redone \union {v \in {version'} : \E t \in Types : txt[t] = v}
  /\ pc' = "build"
  /\ C!New
  /\ UNCHANGED <<file, piping, err, objects, checksums, txt>>

Finished ==
  /\ pc \in {"done", "failed"} /\ runs = MaxRuns
  /\ UNCHANGED vars

Publish ==
  \/ Open \/ Write \/ WriteFails \/ CopyEnds \/ GzClose \/ PwClose
  \/ Uploaded \/ UploadFails \/ Wait \/ UploadChecksums

Next ==
  \/ Compile \/ Built \/ Again \/ Finished
  \/ UNCHANGED compiling /\ (Publish \/ \E t \in Types : Release(t))

(* Goroutines run, commands end and S3 answers; nothing has to fail.       *)
Fairness ==
  WF_vars(\/ Compile \/ Built
          \/ UNCHANGED compiling /\
               \/ Open \/ Write \/ WriteFails \/ (sent = Chunks /\ CopyEnds) \/ GzClose \/ PwClose
               \/ Uploaded \/ Wait \/ UploadChecksums \/ \E t \in Types : Release(t))

Spec == Init /\ [][Next]_vars

FairSpec == Spec /\ Fairness

-----------------------------------------------------------------------------

whole(v) == v \in checksums /\ objects[v] = 1 .. Files

(* Run returns whatever fails: no end of the pipe waits for the other for  *)
(* ever.                                                                   *)
RunReturns == pc = "build" ~> pc \in {"failed", "done"}
=============================================================================
