---------------------------- MODULE Distribution ----------------------------
(***************************************************************************)
(* The way of a release: the releaser compiles versions and puts them into *)
(* the bucket, while the release.List of a service polls the files that    *)
(* name the versions and answers requests with what the bucket holds.      *)
(***************************************************************************)
EXTENDS Releaser

CONSTANTS Default, Pins  \* see ReleaseList

VARIABLES pinned, cached, ready, listPc, todo, type, fetched, cache

listVars == <<pinned, cached, ready, listPc, todo, type, fetched, cache>>

L == INSTANCE ReleaseList WITH pc <- listPc, version <- fetched

dvars == <<vars, listVars>>

DInit == Init /\ L!Init

DNext ==
  \/ Next /\ UNCHANGED listVars
  \/ UNCHANGED vars /\ L!Next

(* The list's worker runs, and a fetch ends; a range over the map starts   *)
(* with each of its types now and then, and a file that is there is        *)
(* fetched now and then.                                                   *)
ListFairness ==
  /\ WF_dvars(UNCHANGED vars /\
       \/ L!Store \/ L!StoreDone \/ L!RunAgain \/ L!StoreFails
       \/ \E t \in Types : L!Fetch(t))
  /\ \A t \in Types : SF_dvars(UNCHANGED vars /\ L!Fetch(t))

DSpec == DInit /\ [][DNext]_dvars /\ Fairness /\ ListFairness

-----------------------------------------------------------------------------

(* Once the health check reports ready, every release type has a version,  *)
(* whatever fetches failed or were cancelled on the way.                   *)
ReadyMeansAllKnown == ready => \A t \in Types : L!LatestFor(t) # 0

(* The version of a type is one that was released for it, and never goes   *)
(* back to an earlier one: storeVersions may read, be overtaken by a       *)
(* release, and write afterwards, but there is one writer.                 *)
NeverStepsBack ==
  [][\A t \in Types : cached'[t] \in cached[t] .. txt[t]]_dvars

(* Whatever the releaser is in the middle of and whatever it failed at,    *)
(* the version that the list calls the latest has its checksums and every  *)
(* binary complete in the bucket, so that a client that asks for the       *)
(* latest release and downloads it can succeed. The exception is a version *)
(* that was run again after it was named, which may have replaced a binary *)
(* by one that is cut short; it lasts until a Run of the version returns   *)
(* nil.                                                                    *)
LatestIsDownloadable == \A t \in Types : cached[t] # 0 /\ cached[t] \notin redone => whole(cached[t])

(* A version that is released and stays the latest is the one the list     *)
(* tells in the end, also while another type has no file at all.           *)
CatchesUp == \A t \in Types : <>[](listPc = "down" \/ cached[t] = txt[t])
=============================================================================
