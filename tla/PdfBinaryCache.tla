---------------------------- MODULE PdfBinaryCache ----------------------------
(***************************************************************************)
(* DefaultPdfBinaryCache.pathFor (apps/duet/lib/domain/src/data): the      *)
(* on-device cache of base PDFs downloaded from Cloud Storage, keyed by    *)
(* checksum.  The pieces modelled are those synced from another device: a  *)
(* piece with its own on-device copy returns that copy and never reaches   *)
(* the cache.                                                              *)
(*                                                                         *)
(* What stands between two awaits is a step; several opens interleave.     *)
(* Every file counts one unit of the size cap.                             *)
(***************************************************************************)
EXTENDS Naturals, FiniteSets

CONSTANTS
    Checksums,      \* the base PDFs, by checksum
    Opens,          \* slots for opens in flight: bounds the concurrency
    MaxFiles,       \* _maxCacheBytes, in files
    MaxClock        \* bounds the clock, which may stand still between two opens

ASSUME CacheAssumption ==
    /\ MaxFiles \in Nat \ {0}
    /\ MaxClock \in Nat \ {0}
    /\ IsFiniteSet(Opens) /\ IsFiniteSet(Checksums)

VARIABLES
    file,           \* file[k]: what is at k's path in the cache directory
    lru,            \* the last-opened map: lru[k] is a time, 0 for no entry
    clock,          \* the time of the latest _touch
    opens,          \* opens[o]: the pathFor call in slot o
    misserved,      \* history: the keys whose path was returned while their file
                    \* was not a verified one
    disturbed,      \* history: the keys of which an open did not run undisturbed
    leftover        \* history: the keys of which a transfer that failed or an app
                    \* that was killed left a file, since the last eviction

vars == <<file, lru, clock, opens, misserved, disturbed, leftover>>

FileState == {"none", "partial", "bad", "good"}

Idle == [pc |-> "idle"]
OpenCall == [pc : {"hit", "request", "download", "verify", "touch", "evict"},
             key : Checksums, attempt : 1..2]

Goto(o, step) == opens' = [opens EXCEPT ![o] = [@ EXCEPT !.pc = step]]
Finish(o) == opens' = [opens EXCEPT ![o] = Idle]

Init ==
    /\ file = [k \in Checksums |-> "none"]
    /\ lru = [k \in Checksums |-> 0]
    /\ clock = 0
    /\ opens = [o \in Opens |-> Idle]
    /\ misserved = {}
    /\ disturbed = {}
    /\ leftover = {}

-----------------------------------------------------------------------------
\* _touch: the key is stamped with the time, which may be that of the touch
\* before it.
Touch(k) ==
    /\ clock' \in {t \in {clock, clock + 1} : 0 < t /\ t <= MaxClock}
    /\ lru' = [lru EXCEPT ![k] = clock']

Begin(o, k, step) ==
    opens' = [opens EXCEPT ![o] = [pc |-> step, key |-> k, attempt |-> 1]]

\* pathFor finds the cached file, takes it as it is and touches it, or downloads.
Open(o, k) ==
    /\ opens[o] = Idle
    /\ \/ file[k] # "none" /\ Touch(k) /\ Begin(o, k, "hit")
       \/ file[k] = "none" /\ Begin(o, k, "request") /\ UNCHANGED <<lru, clock>>
    /\ UNCHANGED <<file, misserved>>

\* The history once o returns its path, over these files.
Returned(o, files) ==
    IF files[opens[o].key] = "good" THEN misserved ELSE misserved \union {opens[o].key}

\* The touch is stored and the hit returned.
ReturnHit(o) ==
    /\ opens[o].pc = "hit"
    /\ misserved' = Returned(o, file)
    /\ Finish(o)
    /\ UNCHANGED <<file, lru, clock>>

\* The first bytes arrive: the file appears at its final path.
DownloadBegins(o) ==
    /\ opens[o].pc = "request"
    /\ file' = [file EXCEPT ![opens[o].key] = "partial"]
    /\ Goto(o, "download")
    /\ UNCHANGED <<lru, clock, misserved>>

\* Another open is writing the same path.
SharedWrite(o) ==
    \E p \in Opens \ {o} : opens[p].pc = "download" /\ opens[p].key = opens[o].key

\* The transfer ends, intact or not; a file evicted meanwhile stays away.
DownloadEnds(o) ==
    LET k == opens[o].key IN
    /\ opens[o].pc = "download"
    /\ \E s \in {"good", "bad"} \union (IF SharedWrite(o) THEN {"partial"} ELSE {}) :
          file' = [file EXCEPT ![k] = IF @ = "none" THEN @ ELSE s]
    /\ Goto(o, "verify")
    /\ UNCHANGED <<lru, clock, misserved>>

\* The transfer fails and so does the call; the store may or may not clean up
\* what it wrote.
DownloadFails(o) ==
    /\ opens[o].pc \in {"request", "download"}
    /\ Finish(o)
    /\ \/ UNCHANGED file
       \/ opens[o].pc = "download" /\ file' = [file EXCEPT ![opens[o].key] = "none"]
    /\ UNCHANGED <<lru, clock, misserved>>

\* Mutant: a file that fails the second verification stays.
MutantVerifyKeepsBad(o) ==
    LET k == opens[o].key IN
    /\ opens[o].pc = "verify"
    /\ IF file[k] \in {"good", "none"} \/ opens[o].attempt = 2
         THEN /\ IF file[k] = "good" THEN Goto(o, "touch") ELSE Finish(o)
              /\ UNCHANGED file
         ELSE /\ file' = [file EXCEPT ![k] = "none"]
              /\ opens' = [opens EXCEPT ![o] = [pc |-> "request", key |-> k, attempt |-> 2]]
    /\ UNCHANGED <<lru, clock, misserved>>

\* Mutant: a mismatch downloads again, however often it was tried.
MutantVerifyRetries(o) ==
    LET k == opens[o].key IN
    /\ opens[o].pc = "verify"
    /\ IF file[k] = "good"
         THEN Goto(o, "touch") /\ UNCHANGED file
         ELSE /\ file' = [file EXCEPT ![k] = "none"]
              /\ opens' = [opens EXCEPT ![o] =
                    [pc |-> "request", key |-> k, attempt |-> opens[o].attempt + 1]]
    /\ UNCHANGED <<lru, clock, misserved>>

\* The checksum of the file as it is now: a match goes on, a mismatch deletes
\* the file and downloads once more or, the second time, fails the call; a file
\* that is gone cannot be read and fails the call too.
Verify(o) ==
    LET k == opens[o].key IN
    /\ opens[o].pc = "verify"
    /\ \/ /\ file[k] = "good"
          /\ Goto(o, "touch")
          /\ UNCHANGED file
       \/ /\ file[k] = "none"
          /\ Finish(o)
          /\ UNCHANGED file
       \/ /\ file[k] \in {"partial", "bad"}
          /\ file' = [file EXCEPT ![k] = "none"]
          /\ opens' = [opens EXCEPT ![o] =
                IF opens[o].attempt = 1
                  THEN [pc |-> "request", key |-> k, attempt |-> 2]
                  ELSE Idle]
    /\ UNCHANGED <<lru, clock, misserved>>

TouchDownloaded(o) ==
    /\ opens[o].pc = "touch"
    /\ Touch(opens[o].key)
    /\ Goto(o, "evict")
    /\ UNCHANGED <<file, misserved>>

-----------------------------------------------------------------------------
(* Eviction.                                                               *)

Cached == {k \in Checksums : file[k] # "none"}

\* Mutant: one file is deleted when the cache is over its cap.
MutantVictims ==
    {v \in SUBSET Cached :
        /\ Cardinality(v) = IF Cardinality(Cached) > MaxFiles THEN 1 ELSE 0
        /\ \A k \in v, j \in Cached \ v : lru[k] <= lru[j]}

\* The files to delete: as many as are over the cap, least recently opened
\* first (the sort leaves the order of equal times, 0 included, open).
Victims ==
    {v \in SUBSET Cached :
        /\ Cardinality(v) = IF Cardinality(Cached) > MaxFiles
                              THEN Cardinality(Cached) - MaxFiles ELSE 0
        /\ \A k \in v, j \in Cached \ v : lru[k] <= lru[j]}

\* _evictIfOverCap, and the path is returned.
EvictAndReturn(o) ==
    /\ opens[o].pc = "evict"
    /\ \E v \in Victims :
          /\ file' = [k \in Checksums |-> IF k \in v THEN "none" ELSE file[k]]
          /\ lru' = [k \in Checksums |-> IF k \in v THEN 0 ELSE lru[k]]
    /\ misserved' = Returned(o, file')
    /\ Finish(o)
    /\ UNCHANGED clock

\* The app is killed: the files and the last-opened map stay.
Crash ==
    /\ opens' = [o \in Opens |-> Idle]
    /\ UNCHANGED <<file, lru, clock, misserved>>

OpenStep(o) ==
    \/ \E k \in Checksums : Open(o, k)
    \/ ReturnHit(o)
    \/ DownloadBegins(o) \/ DownloadEnds(o) \/ DownloadFails(o)
    \/ Verify(o) \/ TouchDownloaded(o) \/ EvictAndReturn(o)

\* The opens of k in flight, now and after the step.
Opening(k) == {o \in Opens : opens[o] # Idle /\ opens[o].key = k}

\* The transfer of o fails and what it wrote stays.
LeavesFile(o) ==
    opens[o].pc = "download" /\ opens'[o] = Idle /\ file'[opens[o].key] # "none"

\* The keys of which an open is past its request: their files may be there
\* without having been counted by an eviction.
Arriving ==
    {k \in Checksums :
        \E o \in Opening(k) : opens[o].pc \in {"download", "verify", "touch", "evict"}}

\* What the history counts as a disturbance of k: two opens of it overlap, a
\* failed transfer leaves what it wrote behind, or the file is taken away under
\* an open.
Disturbs(k) ==
    \/ Cardinality(Opening(k)') > 1
    \/ \E o \in Opening(k) : LeavesFile(o)
    \/ /\ file[k] # "none" /\ file'[k] = "none"
       /\ \E o \in Opening(k) : opens'[o] = opens[o] \/ opens[o].pc = "evict"

Next ==
    \/ \E o \in Opens :
          /\ OpenStep(o)
          /\ disturbed' = disturbed \union {k \in Checksums : Disturbs(k)}
          /\ leftover' =
                IF opens[o].pc = "evict" THEN {}
                  ELSE leftover \union {k \in Checksums : o \in Opening(k) /\ LeavesFile(o)}
    \/ /\ Crash
       /\ disturbed' = disturbed \union {k \in Checksums : Opening(k) # {}}
       /\ leftover' = leftover \union Arriving

Spec == Init /\ [][Next]_vars

-----------------------------------------------------------------------------
(* Properties.                                                             *)

\* The cache keeps its shape: no file is opened later than now, and no open
\* downloads more than twice.
TypeOK ==
    /\ file \in [Checksums -> FileState]
    /\ clock \in 0..MaxClock
    /\ lru \in [Checksums -> 0..clock]
    /\ opens \in [Opens -> {Idle} \union OpenCall]
    /\ misserved \in SUBSET Checksums
    /\ disturbed \in SUBSET Checksums
    /\ leftover \in SUBSET Checksums

\* Every path that pathFor returns names a file that is there and was verified
\* against the piece's checksum, as docs/duet_cloud_schema.md says, as long as
\* no two opens of that piece overlapped, none was cut short and no open of
\* another piece came between and had the file evicted: failed and corrupted
\* transfers, retries and evictions never put a bad file in the way.
ServedIsVerified == misserved \subseteq disturbed

\* The cap of the cache holds but for what no eviction has seen yet: the files
\* that opens in flight are bringing, and those that failed transfers and killed
\* apps left behind since an open last came to its end.  However opens overlap,
\* retry and take each other's files away, one that returns a downloaded file
\* leaves nothing over the cap that is not some other open's.
CapHolds == Cardinality(Cached \ (Arriving \union leftover)) <= MaxFiles

=============================================================================
