----------------------------- MODULE ReleaseList -----------------------------
(***************************************************************************)
(* release.List: the latest version of every release type, fetched once by *)
(* NewList and again and again by the worker of Run, and read meanwhile by *)
(* the handlers, which look releases up through a cache.                   *)
(*                                                                         *)
(* The versions of a release type are numbered as they are released; 0     *)
(* stands for the empty string.                                            *)
(***************************************************************************)
EXTENDS Integers

CONSTANTS
  Types,        \* release types, DefaultReleaseType among them
  Default,
  MaxVersion,   \* bound on the versions
  Pins          \* values of pinnedVersion

VARIABLES
  txt,        \* the bucket: the version in each type's file; 0: no file
  checksums,  \* the bucket: the versions with a checksums.txt
  pinned,     \* List.pinnedVersion
  cached,     \* List.cachedVersion
  ready,      \* List.ready
  pc,         \* "store", "wait" (the worker backs off), "down"
  todo,       \* storeVersions: the types it has not come to yet
  type,       \* storeVersions: the type it is at
  version,    \* storeVersions: the version fetched for it, or 0
  cache       \* List.cache: the versions of the releases in it; none is evicted

bucket   == <<txt, checksums>>
storing  == <<pc, todo, type, version>>
vars == <<bucket, pinned, cached, ready, storing, cache>>

-----------------------------------------------------------------------------
(* NewList, up to its call of storeVersions.                               *)
Init ==
  /\ pinned \in Pins
  /\ cached = [t \in Types |-> 0]
  /\ ready = FALSE
  /\ pc = "store" /\ todo = Types /\ type = Default /\ version = 0
  /\ cache = {}

(* Each call of storeVersions ranges over the whole map.                   *)
RangeOver == Types

LatestFor(t) == IF pinned # 0 THEN pinned ELSE cached[t]

(* s3List.Version; a map is ranged over in any order. The file holds what  *)
(* Release wrote, never a blank line: New refuses an empty version.        *)
Fetch(t) ==
  /\ pc = "store"
  /\ version = 0
  /\ t \in todo
  /\ txt[t] # 0
  /\ type' = t
  /\ version' = txt[t]
  /\ UNCHANGED <<bucket, pinned, cached, ready, pc, todo, cache>>

(* Mutant: a version is stored once.                                       *)
Changed_Once(t) == LatestFor(t) = 0

Changed(t) == version # LatestFor(t)

(* Mutant: the function literal that stores captures another type.         *)
StoreType_Default(t) == Default

StoreType(t) == t

Store ==
  /\ pc = "store"
  /\ version # 0
  /\ cached' = IF Changed(type) THEN [cached EXCEPT ![StoreType(type)] = version] ELSE cached
  /\ todo' = todo \ {type}
  /\ version' = 0
  /\ type' = Default
  /\ UNCHANGED <<bucket, pinned, ready, pc, cache>>

(* Mutant: the list is ready after the first version.                      *)
AllStored_First == todo # Types

AllStored == todo = {}

(* The end of storeVersions; Run's worker then backs off.                  *)
StoreDone ==
  /\ pc = "store"
  /\ version = 0
  /\ AllStored
  /\ ready' = TRUE
  /\ pc' = "wait"
  /\ todo' = RangeOver
  /\ UNCHANGED <<bucket, pinned, cached, type, version, cache>>

(* A fetch fails. An error makes the worker run again at once; a cancelled *)
(* context is no error, and it backs off, though nothing is ready. The     *)
(* owner of a list whose NewList failed runs it all the same.              *)
StoreFails ==
  /\ pc = "store"
  /\ version = 0
  /\ todo # {}
  /\ pc' \in {"store", "wait"}
  /\ todo' = RangeOver
  /\ UNCHANGED <<bucket, pinned, cached, ready, type, version, cache>>

(* Run's worker: the next WorkFunc, or the end of the loop.                *)
RunAgain ==
  /\ pc = "wait"
  /\ pc' = "store"
  /\ UNCHANGED <<bucket, pinned, cached, ready, todo, type, version, cache>>

Shutdown ==
  /\ pc = "wait"
  /\ pc' = "down"
  /\ UNCHANGED <<bucket, pinned, cached, ready, todo, type, version, cache>>

-----------------------------------------------------------------------------
(* s3List.Lookup finds what has checksums, or fails.                       *)
Answers(v) == {"error", IF v \in checksums THEN "ok" ELSE "notfound"}

Cacheable(a) == a = "ok"

(* List.Lookup, at the moment that its answer is there: cacheGet's, or     *)
(* that of S3, which is cached.                                            *)
Lookup(v) ==
  \/ v \in cache /\ UNCHANGED cache
  \/ /\ v \notin cache
     /\ \E a \in Answers(v) : cache' = IF Cacheable(a) THEN cache \union {v} ELSE cache

(* Handler: the version asked for, or the latest of a type; when there is  *)
(* none yet the lookup of "" finds nothing.                                *)
Handle(v) ==
  /\ v # 0
  /\ Lookup(v)
  /\ UNCHANGED <<bucket, pinned, cached, ready, storing>>

Next ==
  \/ Store \/ StoreDone \/ StoreFails \/ RunAgain \/ Shutdown
  \/ \E t \in Types : Fetch(t) \/ Handle(LatestFor(t))
  \/ \E v \in 1 .. MaxVersion : Handle(v)

-----------------------------------------------------------------------------
=============================================================================
