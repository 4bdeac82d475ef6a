------------------------- MODULE PdfBinaryCacheProofs -------------------------
(***************************************************************************)
(* Proofs about PdfBinaryCache, for any files, any number of opens in      *)
(* flight and any size of the cache.                                       *)
(***************************************************************************)
EXTENDS PdfBinaryCache, FiniteSetTheorems, TLAPS

\* An open at this step finds its file in this state, as long as nothing
\* disturbed it.
Finds(step, state) ==
    /\ step \in {"hit", "touch", "evict"} => state = "good"
    /\ step = "request" => state = "none"
    /\ step = "download" => state = "partial"
    /\ step = "verify" => state \in {"good", "bad"}

\* The file of a key that was never disturbed: one open of it at a time, with
\* the file its step left, and between two opens a verified file or none.
Undisturbed(k) ==
    /\ \A o, p \in Opening(k) : o = p
    /\ Opening(k) = {} => file[k] \in {"none", "good"}
    /\ \A o \in Opening(k) : Finds(opens[o].pc, file[k])

\* The inductive invariant.
CacheInv ==
    /\ TypeOK
    /\ ServedIsVerified
    /\ CapHolds
    /\ \A k \in Checksums \ disturbed : Undisturbed(k)

-----------------------------------------------------------------------------
(* The shape of the cache.                                                 *)

\* A step of an open leaves the slots of the others alone and its own with a
\* call or free.
LEMMA SlotMoves ==
  ASSUME TypeOK, NEW o \in Opens
  PROVE  /\ Finish(o) => opens' = [p \in Opens |-> IF p = o THEN Idle ELSE opens[p]]
         /\ \A step \in {"hit", "request", "download", "verify", "touch", "evict"} :
              opens[o] # Idle /\ Goto(o, step) =>
                opens' = [p \in Opens |->
                  IF p = o THEN [pc |-> step, key |-> opens[o].key, attempt |-> opens[o].attempt]
                           ELSE opens[p]]
  <1>1. Finish(o) => opens' = [p \in Opens |-> IF p = o THEN Idle ELSE opens[p]]
    BY DEF TypeOK, Finish
  <1>2. ASSUME NEW step \in {"hit", "request", "download", "verify", "touch", "evict"},
               opens[o] # Idle, Goto(o, step)
        PROVE  opens' = [p \in Opens |->
                 IF p = o THEN [pc |-> step, key |-> opens[o].key, attempt |-> opens[o].attempt]
                          ELSE opens[p]]
    <2>1. opens[o] \in OpenCall
      BY <1>2 DEF TypeOK
    <2>2. [opens[o] EXCEPT !.pc = step] =
            [pc |-> step, key |-> opens[o].key, attempt |-> opens[o].attempt]
      BY <2>1 DEF OpenCall
    <2> QED
      BY <1>2, <2>2 DEF Goto, TypeOK
  <1> QED
    BY <1>1, <1>2

\* The time of a _touch is not before any other.
LEMMA TouchType ==
  ASSUME TypeOK, NEW k \in Checksums, Touch(k)
  PROVE  clock' \in 0..MaxClock /\ lru' \in [Checksums -> 0..clock']
  BY CacheAssumption DEF TypeOK, Touch

\* What an open leaves in its slot and in the history has its type.
LEMMA SlotTypes ==
  ASSUME TypeOK, NEW o \in Opens
  PROVE  /\ opens[o] # Idle => opens[o] \in OpenCall /\ opens[o].key \in Checksums
         /\ Finish(o) => opens' \in [Opens -> {Idle} \union OpenCall]
         /\ \A step \in {"hit", "request", "download", "verify", "touch", "evict"} :
              opens[o] # Idle /\ Goto(o, step) => opens' \in [Opens -> {Idle} \union OpenCall]
         /\ \A files : opens[o] # Idle => Returned(o, files) \in SUBSET Checksums
  <1>1. opens[o] # Idle => opens[o] \in OpenCall /\ opens[o].key \in Checksums
    BY DEF TypeOK, OpenCall
  <1>2. Finish(o) => opens' \in [Opens -> {Idle} \union OpenCall]
    BY SlotMoves DEF TypeOK
  <1>3. ASSUME NEW step \in {"hit", "request", "download", "verify", "touch", "evict"},
               opens[o] # Idle, Goto(o, step)
        PROVE  opens' \in [Opens -> {Idle} \union OpenCall]
    <2>1. [pc |-> step, key |-> opens[o].key, attempt |-> opens[o].attempt] \in OpenCall
      BY <1>1, <1>3 DEF OpenCall
    <2> QED
      BY <1>3, <2>1, SlotMoves DEF TypeOK
  <1>4. ASSUME NEW files, opens[o] # Idle
        PROVE  Returned(o, files) \in SUBSET Checksums
    BY <1>1, <1>4 DEF TypeOK, Returned
  <1> QED
    BY <1>1, <1>2, <1>3, <1>4

\* A call at a step holds its slot.
LEMMA Holds ==
  ASSUME NEW o \in Opens, opens[o].pc # "idle"
  PROVE  opens[o] # Idle
  BY DEF Idle

LEMMA OpenStepType ==
  ASSUME TypeOK, NEW o \in Opens, OpenStep(o),
         disturbed' = disturbed \union {k \in Checksums : Disturbs(k)},
         leftover' \in SUBSET Checksums
  PROVE  TypeOK'
  <1> USE DEF FileState
  <1>0. disturbed' \in SUBSET Checksums
    BY DEF TypeOK
  <1>1. ASSUME NEW k \in Checksums, Open(o, k)
        PROVE  TypeOK'
    <2>1. \A step \in {"hit", "request"} : [pc |-> step, key |-> k, attempt |-> 1] \in OpenCall
      BY DEF OpenCall
    <2>2. opens' \in [Opens -> {Idle} \union OpenCall]
      BY <1>1, <2>1 DEF TypeOK, Open, Begin
    <2>3. clock' \in 0..MaxClock /\ lru' \in [Checksums -> 0..clock']
      BY <1>1, TouchType DEF TypeOK, Open
    <2> QED
      BY <1>0, <1>1, <2>2, <2>3 DEF TypeOK, Open
  <1>2. CASE ReturnHit(o)
    <2>1. opens[o] # Idle
      BY <1>2, Holds DEF ReturnHit
    <2> QED
      BY <1>0, <1>2, <2>1, SlotTypes DEF TypeOK, ReturnHit
  <1>3. CASE DownloadBegins(o)
    <2>1. opens[o] # Idle
      BY <1>3, Holds DEF DownloadBegins
    <2> QED
      BY <1>0, <1>3, <2>1, SlotTypes DEF TypeOK, DownloadBegins
  <1>4. CASE DownloadEnds(o)
    <2>1. opens[o] # Idle
      BY <1>4, Holds DEF DownloadEnds
    <2>2. file' \in [Checksums -> FileState]
      BY <1>4, <2>1, SlotTypes DEF TypeOK, DownloadEnds
    <2> QED
      BY <1>0, <1>4, <2>1, <2>2, SlotTypes DEF TypeOK, DownloadEnds
  <1>5. CASE DownloadFails(o)
    <2>1. opens[o] # Idle
      BY <1>5, Holds DEF DownloadFails
    <2>2. file' \in [Checksums -> FileState]
      BY <1>5, <2>1, SlotTypes DEF TypeOK, DownloadFails
    <2> QED
      BY <1>0, <1>5, <2>1, <2>2, SlotTypes DEF TypeOK, DownloadFails
  <1>6. CASE Verify(o)
    <2>1. opens[o] # Idle
      BY <1>6, Holds DEF Verify
    <2>2. opens[o].key \in Checksums
      BY <2>1, SlotTypes
    <2>3. file' \in [Checksums -> FileState]
      BY <1>6, <2>2 DEF TypeOK, Verify
    <2>4. [pc |-> "request", key |-> opens[o].key, attempt |-> 2] \in OpenCall
      BY <2>2 DEF OpenCall
    <2>5. opens' \in [Opens -> {Idle} \union OpenCall]
      BY <1>6, <2>1, <2>4, SlotTypes DEF TypeOK, Verify
    <2> QED
      BY <1>0, <1>6, <2>3, <2>5 DEF TypeOK, Verify
  <1>7. CASE TouchDownloaded(o)
    <2>1. opens[o] # Idle
      BY <1>7, Holds DEF TouchDownloaded
    <2> QED
      BY <1>0, <1>7, <2>1, SlotTypes, TouchType DEF TypeOK, TouchDownloaded
  <1>8. CASE EvictAndReturn(o)
    <2>1. opens[o] # Idle
      BY <1>8, Holds DEF EvictAndReturn
    <2>2. file' \in [Checksums -> FileState] /\ lru' \in [Checksums -> 0..clock]
      BY <1>8 DEF TypeOK, EvictAndReturn
    <2> QED
      BY <1>0, <1>8, <2>1, <2>2, SlotTypes DEF TypeOK, EvictAndReturn
  <1> QED
    BY <1>1, <1>2, <1>3, <1>4, <1>5, <1>6, <1>7, <1>8 DEF OpenStep

-----------------------------------------------------------------------------
(* Files that nothing disturbed.                                           *)

\* A set of opens that counts no more than one has no two.
LEMMA AtMostOne ==
  ASSUME NEW S \in SUBSET Opens, ~(Cardinality(S) > 1)
  PROVE  \A o, p \in S : o = p
  <1> SUFFICES ASSUME NEW o \in S, NEW p \in S, o # p
               PROVE  FALSE
    OBVIOUS
  <1>1. IsFiniteSet(S)
    BY CacheAssumption, FS_Subset
  <1>2. {o, p} \subseteq S /\ IsFiniteSet({o, p})
    BY <1>1, FS_Subset
  <1>3. Cardinality({o, p}) <= Cardinality(S)
    BY <1>1, <1>2, FS_Subset
  <1>4. Cardinality({o}) = 1 /\ IsFiniteSet({o})
    BY FS_Singleton
  <1>5. Cardinality({o} \union {p}) = Cardinality({o}) + 1
    BY <1>4, FS_AddElement
  <1>6. {o, p} = {o} \union {p}
    OBVIOUS
  <1>7. Cardinality(S) \in Nat
    BY <1>1, FS_CardinalityType
  <1> QED
    BY <1>3, <1>4, <1>5, <1>6, <1>7

\* A step of one open, about a key k it is not an open of, leaves the opens of k
\* where they are; it can take k's file away, and that disturbs them.
LEMMA OtherKey ==
  ASSUME CacheInv, NEW o \in Opens, OpenStep(o), NEW k \in Checksums \ disturbed,
         ~Disturbs(k), o \notin Opening(k), o \notin Opening(k)'
  PROVE  Undisturbed(k)' /\ (k \in misserved' => k \in misserved)
  <1>1. \A p \in Opens \ {o} : opens'[p] = opens[p]
    <2>1. opens' = [opens EXCEPT ![o] = opens'[o]]
      BY SlotMoves DEF CacheInv, TypeOK, OpenStep, Open, Begin, ReturnHit, DownloadBegins, DownloadEnds,
         DownloadFails, Verify, TouchDownloaded, EvictAndReturn, Finish, Goto
    <2> QED
      BY <2>1 DEF CacheInv, TypeOK
  <1>2. Opening(k)' = Opening(k)
    BY <1>1 DEF Opening
  <1>3. \A p \in Opening(k) : opens'[p] = opens[p]
    BY <1>1 DEF Opening
  <1>4. opens[o] # Idle => opens[o].key # k
    BY DEF Opening
  <1>5. file'[k] = file[k] \/ file'[k] = "none"
    <2>1. CASE \E j \in Checksums : Open(o, j)
      BY <2>1 DEF Open
    <2>2. CASE ReturnHit(o) \/ TouchDownloaded(o)
      BY <2>2 DEF ReturnHit, TouchDownloaded
    <2>3. CASE DownloadBegins(o) \/ DownloadEnds(o) \/ DownloadFails(o) \/ Verify(o)
      <3>1. opens[o] # Idle
        BY <2>3, Holds DEF DownloadBegins, DownloadEnds, DownloadFails, Verify
      <3>2. opens[o].key # k
        BY <1>4, <3>1
      <3> QED
        BY <2>3, <3>2 DEF DownloadBegins, DownloadEnds, DownloadFails, Verify, CacheInv, TypeOK
    <2>4. CASE EvictAndReturn(o)
      BY <2>4 DEF EvictAndReturn
    <2> QED
      BY <2>1, <2>2, <2>3, <2>4 DEF OpenStep
  <1>6. k \in misserved' => k \in misserved
    <2>1. CASE ReturnHit(o) \/ EvictAndReturn(o)
      <3>1. opens[o] # Idle
        BY <2>1, Holds DEF ReturnHit, EvictAndReturn
      <3> QED
        BY <1>4, <2>1, <3>1 DEF ReturnHit, EvictAndReturn, Returned
    <2>2. CASE ~(ReturnHit(o) \/ EvictAndReturn(o))
      BY <2>2 DEF OpenStep, Open, DownloadBegins, DownloadEnds, DownloadFails, Verify,
         TouchDownloaded
    <2> QED
      BY <2>1, <2>2
  <1>7. Undisturbed(k)
    BY DEF CacheInv
  <1>8. CASE file'[k] = file[k]
    <2>1. \A p \in Opening(k) : Finds(opens'[p].pc, file'[k])
      BY <1>3, <1>7, <1>8 DEF Undisturbed
    <2> QED
      BY <1>2, <1>6, <1>7, <1>8, <2>1 DEF Undisturbed
  <1>9. CASE file'[k] # file[k]
    <2>1. Opening(k) = {}
      BY <1>3, <1>5, <1>9 DEF Disturbs
    <2> QED
      BY <1>2, <1>5, <1>6, <1>7, <1>9, <2>1 DEF Undisturbed
  <1> QED
    BY <1>8, <1>9

\* The only open of k moves on, and the file is what its new step expects; it
\* ends, and the file is verified or gone.
LEMMA OwnMoves ==
  ASSUME TypeOK, NEW o \in Opens, NEW k \in Checksums, Opening(k) \subseteq {o},
         NEW c \in {Idle} \union OpenCall,
         opens' = [p \in Opens |-> IF p = o THEN c ELSE opens[p]],
         c # Idle => c.key = k /\ Finds(c.pc, file'[k]),
         c = Idle => file'[k] \in {"none", "good"}
  PROVE  Undisturbed(k)'
  <1>1. CASE c = Idle
    <2>1. Opening(k)' = {}
      BY <1>1 DEF Opening
    <2> QED
      BY <1>1, <2>1 DEF Undisturbed
  <1>2. CASE c # Idle
    <2>1. Opening(k)' = {o}
      BY <1>2 DEF Opening
    <2>2. opens'[o] = c
      OBVIOUS
    <2> QED
      BY <1>2, <2>1, <2>2 DEF Undisturbed
  <1> QED
    BY <1>1, <1>2

\* A step of the only open of k.
LEMMA OwnKey ==
  ASSUME CacheInv, NEW o \in Opens, OpenStep(o), NEW k \in Checksums \ disturbed,
         ~Disturbs(k), o \in Opening(k)
  PROVE  Undisturbed(k)' /\ (k \in misserved' => k \in misserved)
  <1>1. /\ TypeOK
        /\ opens[o] # Idle /\ opens[o] \in OpenCall /\ opens[o].key = k
        /\ Opening(k) \subseteq {o}
        /\ Finds(opens[o].pc, file[k])
    BY DEF CacheInv, Undisturbed, TypeOK, Opening
  <1>2. \A step \in {"hit", "request", "download", "verify", "touch", "evict"} :
          [pc |-> step, key |-> k, attempt |-> opens[o].attempt] \in OpenCall \ {Idle}
    BY <1>1 DEF OpenCall, Idle
  <1>3. ~\E j \in Checksums : Open(o, j)
    BY <1>1 DEF Open
  <1>4. CASE ReturnHit(o)
    <2>1. file' = file /\ file[k] = "good"
      BY <1>1, <1>4 DEF ReturnHit, Finds
    <2>2. Undisturbed(k)'
      BY <1>1, <1>4, <2>1, SlotMoves, OwnMoves DEF ReturnHit
    <2> QED
      BY <1>1, <1>4, <2>1, <2>2 DEF ReturnHit, Returned
  <1>5. CASE DownloadBegins(o)
    <2>1. file'[k] = "partial"
      BY <1>1, <1>5 DEF DownloadBegins, TypeOK
    <2>2. opens' = [p \in Opens |->
            IF p = o THEN [pc |-> "download", key |-> k, attempt |-> opens[o].attempt]
                     ELSE opens[p]]
      BY <1>1, <1>5, SlotMoves DEF DownloadBegins
    <2>3. Undisturbed(k)'
      BY <1>1, <1>2, <2>1, <2>2, OwnMoves DEF Finds
    <2> QED
      BY <1>5, <2>3 DEF DownloadBegins
  <1>6. CASE DownloadEnds(o)
    <2>1. ~SharedWrite(o)
      <3>1. \A p \in Opens \ {o} : opens[p].pc = "download" => opens[p].key # k
        BY <1>1, Holds DEF Opening
      <3> QED
        BY <1>1, <3>1 DEF SharedWrite
    <2>2. file[k] = "partial"
      BY <1>1, <1>6 DEF DownloadEnds, Finds
    <2>3. file'[k] \in {"good", "bad"}
      BY <1>1, <1>6, <2>1, <2>2 DEF DownloadEnds, TypeOK
    <2>4. opens' = [p \in Opens |->
            IF p = o THEN [pc |-> "verify", key |-> k, attempt |-> opens[o].attempt]
                     ELSE opens[p]]
      BY <1>1, <1>6, SlotMoves DEF DownloadEnds
    <2>5. Undisturbed(k)'
      BY <1>1, <1>2, <2>3, <2>4, OwnMoves DEF Finds
    <2> QED
      BY <1>6, <2>5 DEF DownloadEnds
  <1>7. CASE DownloadFails(o)
    <2>1. opens' = [p \in Opens |-> IF p = o THEN Idle ELSE opens[p]]
      BY <1>1, <1>7, SlotMoves DEF DownloadFails
    <2>2. file'[k] = "none"
      <3>1. CASE opens[o].pc = "request"
        BY <1>1, <1>7, <3>1 DEF DownloadFails, Finds
      <3>2. CASE opens[o].pc = "download"
        BY <1>1, <2>1, <3>2 DEF Disturbs, LeavesFile
      <3> QED
        BY <1>7, <3>1, <3>2 DEF DownloadFails
    <2>3. Undisturbed(k)'
      BY <1>1, <2>1, <2>2, OwnMoves
    <2> QED
      BY <1>7, <2>3 DEF DownloadFails
  <1>8. CASE Verify(o)
    <2>1. file[k] \in {"good", "bad"}
      BY <1>1, <1>8 DEF Verify, Finds
    <2>2. CASE file[k] = "good"
      <3>1. opens' = [p \in Opens |->
              IF p = o THEN [pc |-> "touch", key |-> k, attempt |-> opens[o].attempt]
                       ELSE opens[p]]
        BY <1>1, <1>8, <2>2, SlotMoves DEF Verify
      <3>2. file'[k] = "good"
        BY <1>1, <1>8, <2>2 DEF Verify
      <3> QED
        BY <1>1, <1>2, <1>8, <3>1, <3>2, OwnMoves DEF Finds, Verify
    <2>3. CASE file[k] = "bad"
      <3> DEFINE c == IF opens[o].attempt = 1
                        THEN [pc |-> "request", key |-> k, attempt |-> 2]
                        ELSE Idle
      <3>1. opens' = [p \in Opens |-> IF p = o THEN c ELSE opens[p]]
        BY <1>1, <1>8, <2>3 DEF Verify, TypeOK
      <3>2. file'[k] = "none"
        BY <1>1, <1>8, <2>3 DEF Verify, TypeOK
      <3>3. c \in {Idle} \union OpenCall /\ (c # Idle => c.key = k /\ c.pc = "request")
        BY DEF OpenCall
      <3> HIDE DEF c
      <3>4. Undisturbed(k)'
        BY <1>1, <3>1, <3>2, <3>3, OwnMoves DEF Finds
      <3> QED
        BY <1>8, <3>4 DEF Verify
    <2> QED
      BY <2>1, <2>2, <2>3
  <1>9. CASE TouchDownloaded(o)
    <2>1. file' = file /\ file[k] = "good"
      BY <1>1, <1>9 DEF TouchDownloaded, Finds
    <2>2. opens' = [p \in Opens |->
            IF p = o THEN [pc |-> "evict", key |-> k, attempt |-> opens[o].attempt]
                     ELSE opens[p]]
      BY <1>1, <1>9, SlotMoves DEF TouchDownloaded
    <2>3. Undisturbed(k)'
      BY <1>1, <1>2, <2>1, <2>2, OwnMoves DEF Finds
    <2> QED
      BY <1>9, <2>3 DEF TouchDownloaded
  <1>10. CASE EvictAndReturn(o)
    <2>1. file[k] = "good" /\ opens[o].pc = "evict"
      BY <1>1, <1>10 DEF EvictAndReturn, Finds
    <2>2. file'[k] # "none"
      BY <2>1 DEF Disturbs
    <2>3. file'[k] = "good"
      BY <1>10, <2>1, <2>2 DEF EvictAndReturn
    <2>4. Undisturbed(k)'
      BY <1>1, <1>10, <2>3, SlotMoves, OwnMoves DEF EvictAndReturn
    <2> QED
      BY <1>1, <1>10, <2>3, <2>4 DEF EvictAndReturn, Returned
  <1> QED
    BY <1>3, <1>4, <1>5, <1>6, <1>7, <1>8, <1>9, <1>10 DEF OpenStep

\* An open of k begins, with none of k in flight.
LEMMA OpenBegins ==
  ASSUME CacheInv, NEW o \in Opens, OpenStep(o), NEW k \in Checksums \ disturbed,
         ~Disturbs(k), o \notin Opening(k), o \in Opening(k)'
  PROVE  Undisturbed(k)' /\ (k \in misserved' => k \in misserved)
  <1>1. TypeOK /\ Undisturbed(k)
    BY DEF CacheInv
  <1>2. Open(o, k)
    <2>1. \A step \in {"hit", "request", "download", "verify", "touch", "evict"} :
            opens[o] # Idle /\ Goto(o, step) => opens'[o].key = opens[o].key
      BY <1>1, SlotMoves
    <2>2. Finish(o) => opens'[o] = Idle
      BY <1>1, SlotMoves
    <2>3. CASE opens[o] = Idle
      <3>1. PICK j \in Checksums : Open(o, j)
        BY <2>3 DEF OpenStep, ReturnHit, DownloadBegins, DownloadEnds, DownloadFails,
           Verify, TouchDownloaded, EvictAndReturn, Idle
      <3>2. opens'[o].key = j
        BY <1>1, <3>1 DEF Open, Begin, TypeOK
      <3> QED
        BY <3>1, <3>2 DEF Opening
    <2>4. CASE opens[o] # Idle
      <3>1. opens'[o] # Idle => opens'[o].key = opens[o].key
        BY <1>1, <2>1, <2>2, <2>4 DEF OpenStep, Open, ReturnHit, DownloadBegins, DownloadEnds,
           DownloadFails, Verify, TouchDownloaded, EvictAndReturn, TypeOK
      <3> QED
        BY <2>4, <3>1 DEF Opening
    <2> QED
      BY <2>3, <2>4
  <1>3. Opening(k) = {}
    <2>1. Opening(k)' \in SUBSET Opens /\ ~(Cardinality(Opening(k)') > 1)
      BY DEF Opening, Disturbs
    <2>2. \A p, q \in Opening(k)' : p = q
      BY <2>1, AtMostOne
    <2>3. \A p \in Opening(k) : p \in Opening(k)'
      BY <1>1, <1>2 DEF Open, Begin, Opening, TypeOK
    <2> QED
      BY <2>2, <2>3
  <1>4. file' = file /\ file[k] \in {"none", "good"} /\ misserved' = misserved
    BY <1>1, <1>2, <1>3 DEF Undisturbed, Open
  <1> DEFINE c == [pc |-> IF file[k] # "none" THEN "hit" ELSE "request", key |-> k, attempt |-> 1]
  <1>5. opens' = [p \in Opens |-> IF p = o THEN c ELSE opens[p]]
    BY <1>1, <1>2 DEF Open, Begin, TypeOK
  <1>6. c \in OpenCall /\ c.key = k /\ Finds(c.pc, file'[k])
    BY <1>4 DEF OpenCall, Finds
  <1>7. c # Idle
    BY <1>6 DEF Idle, OpenCall
  <1> HIDE DEF c
  <1> QED
    BY <1>1, <1>3, <1>4, <1>5, <1>6, <1>7, OwnMoves

-----------------------------------------------------------------------------
(* The cap.                                                                *)

\* Fewer files stay under the cap.
LEMMA Fewer ==
  ASSUME NEW S \in SUBSET Checksums, NEW T \in SUBSET S, Cardinality(S) <= MaxFiles
  PROVE  Cardinality(T) <= MaxFiles
  <1>1. IsFiniteSet(S)
    BY CacheAssumption, FS_Subset
  <1>2. IsFiniteSet(T) /\ Cardinality(T) <= Cardinality(S)
    BY <1>1, FS_Subset
  <1>3. Cardinality(S) \in Nat /\ Cardinality(T) \in Nat
    BY <1>1, <1>2, FS_CardinalityType
  <1> QED
    BY <1>2, <1>3, CacheAssumption

\* What an eviction leaves is no more than the cap.
LEMMA EvictionReachesCap ==
  ASSUME NEW v \in Victims
  PROVE  Cardinality(Cached \ v) <= MaxFiles
  <1>1. IsFiniteSet(Cached) /\ v \subseteq Cached
    BY CacheAssumption, FS_Subset DEF Cached, Victims
  <1>2. IsFiniteSet(v) /\ Cached \cap v = v
    BY <1>1, FS_Subset
  <1>3. Cardinality(Cached \ v) = Cardinality(Cached) - Cardinality(v)
    BY <1>1, <1>2, FS_Difference
  <1>4. Cardinality(Cached) \in Nat /\ Cardinality(v) \in Nat
    BY <1>1, <1>2, FS_CardinalityType
  <1>5. Cardinality(v) = IF Cardinality(Cached) > MaxFiles
                           THEN Cardinality(Cached) - MaxFiles ELSE 0
    BY DEF Victims
  <1> QED
    BY <1>3, <1>4, <1>5, CacheAssumption

\* An open whose file has begun to arrive keeps it arriving, loses it or leaves
\* it over.
LEMMA ArrivingMoves ==
  ASSUME TypeOK, NEW o \in Opens, OpenStep(o), opens[o].pc # "evict",
         NEW k \in Arriving, file'[k] # "none"
  PROVE  k \in Arriving' \/ (o \in Opening(k) /\ LeavesFile(o))
  <1>1. PICK p \in Opening(k) : opens[p].pc \in {"download", "verify", "touch", "evict"}
    BY DEF Arriving
  <1>2. k \in Checksums /\ p \in Opens /\ opens[p] # Idle /\ opens[p].key = k
    BY <1>1 DEF Arriving, Opening
  <1>3. CASE p # o
    <2>1. opens'[p] = opens[p]
      BY <1>2, <1>3, SlotMoves DEF TypeOK, OpenStep, Open, Begin, ReturnHit, DownloadBegins,
         DownloadEnds, DownloadFails, Verify, TouchDownloaded, EvictAndReturn, Finish, Goto
    <2> QED
      BY <1>1, <1>2, <2>1 DEF Arriving, Opening
  <1>4. CASE p = o
    <2>1. \A step \in {"verify", "touch", "evict"} : Goto(o, step) =>
             k \in Arriving'
      <3> SUFFICES ASSUME NEW step \in {"verify", "touch", "evict"}, Goto(o, step)
                   PROVE  k \in Arriving'
        OBVIOUS
      <3>1. opens'[o] = [pc |-> step, key |-> k, attempt |-> opens[o].attempt]
        BY <1>2, <1>4, SlotMoves
      <3>2. opens'[o] # Idle /\ opens'[o].key = k /\ opens'[o].pc = step
        BY <3>1 DEF Idle
      <3> QED
        BY <1>2, <3>2 DEF Arriving, Opening
    <2>2. CASE DownloadEnds(o)
      BY <2>1, <2>2 DEF DownloadEnds
    <2>3. CASE DownloadFails(o)
      <3>1. opens'[o] = Idle /\ opens[o].pc = "download"
        BY <1>1, <1>4, <2>3, SlotMoves DEF DownloadFails
      <3> QED
        BY <1>1, <1>2, <1>4, <3>1 DEF LeavesFile
    <2>4. CASE Verify(o)
      BY <1>2, <1>4, <2>1, <2>4 DEF Verify, TypeOK
    <2>5. CASE TouchDownloaded(o)
      BY <2>1, <2>5 DEF TouchDownloaded
    <2> QED
      BY <1>1, <1>2, <1>4, <2>2, <2>3, <2>4, <2>5
      DEF OpenStep, Open, ReturnHit, DownloadBegins, EvictAndReturn
  <1> QED
    BY <1>3, <1>4

\* A file that appears is arriving.
LEMMA NewFileArrives ==
  ASSUME TypeOK, NEW o \in Opens, OpenStep(o), NEW k \in Checksums,
         file[k] = "none", file'[k] # "none"
  PROVE  k \in Arriving'
  <1>1. DownloadBegins(o) /\ opens[o].key = k
    BY DEF TypeOK, OpenStep, Open, ReturnHit, DownloadBegins, DownloadEnds, DownloadFails,
       Verify, TouchDownloaded, EvictAndReturn
  <1>2. opens[o] # Idle
    BY <1>1, Holds DEF DownloadBegins
  <1>3. opens'[o] = [pc |-> "download", key |-> k, attempt |-> opens[o].attempt]
    BY <1>1, <1>2, SlotMoves DEF DownloadBegins
  <1>4. opens'[o] # Idle /\ opens'[o].key = k /\ opens'[o].pc = "download"
    BY <1>3 DEF Idle
  <1> QED
    BY <1>4 DEF Arriving, Opening

LEMMA CapStep ==
  ASSUME TypeOK, CapHolds, NEW o \in Opens, OpenStep(o),
         leftover' = IF opens[o].pc = "evict" THEN {}
           ELSE leftover \union {k \in Checksums : o \in Opening(k) /\ LeavesFile(o)}
  PROVE  CapHolds'
  <1>1. CASE opens[o].pc = "evict"
    <2>1. EvictAndReturn(o)
      BY <1>1 DEF OpenStep, Open, ReturnHit, DownloadBegins, DownloadEnds, DownloadFails,
         Verify, TouchDownloaded, Idle
    <2>2. PICK v \in Victims :
            file' = [k \in Checksums |-> IF k \in v THEN "none" ELSE file[k]]
      BY <2>1 DEF EvictAndReturn
    <2>3. Cached' = Cached \ v
      BY <2>2 DEF Cached
    <2>4. Cardinality(Cached') <= MaxFiles
      BY <2>3, EvictionReachesCap
    <2>5. Cached' \in SUBSET Checksums
      BY DEF Cached
    <2> QED
      BY <2>4, <2>5, Fewer DEF CapHolds
  <1>2. CASE opens[o].pc # "evict"
    <2>1. ASSUME NEW k \in Cached', k \notin Arriving', k \notin leftover'
          PROVE  k \in Cached \ (Arriving \union leftover)
      <3>1. k \in Checksums /\ file'[k] # "none"
        BY DEF Cached
      <3>2. k \in Cached
        BY <2>1, <3>1, NewFileArrives DEF Cached
      <3>3. k \notin leftover
        BY <1>2, <2>1
      <3>4. k \notin Arriving
        BY <1>2, <2>1, <3>1, ArrivingMoves
      <3> QED
        BY <3>2, <3>3, <3>4
    <2>2. Cached \ (Arriving \union leftover) \in SUBSET Checksums
      BY DEF Cached
    <2>3. (Cached \ (Arriving \union leftover))' \subseteq
             Cached \ (Arriving \union leftover)
      BY <2>1
    <2> QED
      BY <2>2, <2>3, Fewer DEF CapHolds
  <1> QED
    BY <1>1, <1>2

-----------------------------------------------------------------------------
(* The invariant.                                                          *)

LEMMA InitCacheInv == Init => CacheInv
  <1> SUFFICES ASSUME Init
               PROVE  CacheInv
    OBVIOUS
  <1>1. TypeOK
    BY CacheAssumption DEF Init, TypeOK, FileState
  <1>2. \A k \in Checksums : Opening(k) = {}
    BY DEF Init, Opening
  <1>3. \A k \in Checksums : Undisturbed(k)
    BY <1>2 DEF Init, Undisturbed
  <1>4. CapHolds
    <2>1. Cached \ (Arriving \union leftover) = {}
      BY DEF Init, Cached
    <2> QED
      BY <2>1, FS_EmptySet, CacheAssumption DEF CapHolds
  <1> QED
    BY <1>1, <1>3, <1>4 DEF CacheInv, ServedIsVerified, Init

\* The history never forgets a disturbance.
LEMMA NextCacheInv == CacheInv /\ [Next]_vars => CacheInv'
  <1> SUFFICES ASSUME CacheInv, [Next]_vars
               PROVE  CacheInv'
    OBVIOUS
  <1>1. ASSUME NEW o \in Opens, OpenStep(o),
               disturbed' = disturbed \union {k \in Checksums : Disturbs(k)},
               leftover' = IF opens[o].pc = "evict" THEN {}
                 ELSE leftover \union {k \in Checksums : o \in Opening(k) /\ LeavesFile(o)}
        PROVE  CacheInv'
    <2>0. leftover' \in SUBSET Checksums
      BY <1>1 DEF CacheInv, TypeOK
    <2>1. TypeOK'
      BY <1>1, <2>0, OpenStepType DEF CacheInv
    <2>c. CapHolds'
      BY <1>1, CapStep DEF CacheInv
    <2>2. \A k \in Checksums \ disturbed' :
             Undisturbed(k)' /\ (k \in misserved' => k \in misserved)
      <3> SUFFICES ASSUME NEW k \in Checksums \ disturbed'
                   PROVE  Undisturbed(k)' /\ (k \in misserved' => k \in misserved)
        OBVIOUS
      <3>1. k \in Checksums \ disturbed /\ ~Disturbs(k)
        BY <1>1
      <3>2. CASE o \in Opening(k)
        BY <1>1, <3>1, <3>2, OwnKey
      <3>3. CASE o \notin Opening(k) /\ o \in Opening(k)'
        BY <1>1, <3>1, <3>3, OpenBegins
      <3>4. CASE o \notin Opening(k) /\ o \notin Opening(k)'
        BY <1>1, <3>1, <3>4, OtherKey
      <3> QED
        BY <3>2, <3>3, <3>4
    <2>3. ServedIsVerified'
      <3>1. misserved' \subseteq Checksums
        BY <2>1 DEF TypeOK
      <3>2. disturbed \subseteq disturbed'
        BY <1>1
      <3> QED
        BY <2>2, <3>1, <3>2 DEF CacheInv, ServedIsVerified
    <2> QED
      BY <2>1, <2>c, <2>2, <2>3 DEF CacheInv
  <1>2. CASE /\ Crash
             /\ disturbed' = disturbed \union {k \in Checksums : Opening(k) # {}}
             /\ leftover' = leftover \union Arriving
    <2>1. TypeOK'
      BY <1>2 DEF CacheInv, TypeOK, Crash, Arriving
    <2>c. CapHolds'
      <3>1. Cached \ (Arriving \union leftover) \in SUBSET Checksums
        BY DEF Cached
      <3>2. (Cached \ (Arriving \union leftover))' \subseteq
               Cached \ (Arriving \union leftover)
        BY <1>2 DEF Crash, Cached
      <3> QED
        BY <3>1, <3>2, Fewer DEF CacheInv, CapHolds
    <2>2. \A k \in Checksums : Opening(k)' = {}
      BY <1>2 DEF Crash, Opening
    <2>3. \A k \in Checksums \ disturbed' : Undisturbed(k)'
      BY <1>2, <2>2 DEF CacheInv, Undisturbed, Crash
    <2> QED
      BY <1>2, <2>1, <2>c, <2>3 DEF CacheInv, ServedIsVerified, Crash
  <1>3. CASE UNCHANGED vars
    BY <1>3 DEF vars, CacheInv, TypeOK, ServedIsVerified, CapHolds, Cached, Arriving,
       Undisturbed, Opening
  <1> QED
    BY <1>1, <1>2, <1>3 DEF Next

\* Every reachable state satisfies the inductive invariant.
THEOREM InductiveInvariant == Spec => []CacheInv
  BY InitCacheInv, NextCacheInv, PTL DEF Spec

\* The cache keeps its shape, and no open downloads a file more than twice.
THEOREM TypeCorrect == Spec => []TypeOK
  <1>1. CacheInv => TypeOK
    BY DEF CacheInv
  <1> QED
    BY <1>1, InductiveInvariant, PTL

\* Every path pathFor returns names a verified file that is there, for every
\* piece whose opens ran undisturbed: whatever transfers fail or arrive corrupt,
\* whatever other pieces are opened and evicted meanwhile.
THEOREM PathsAreVerified == Spec => []ServedIsVerified
  <1>1. CacheInv => ServedIsVerified
    BY DEF CacheInv
  <1> QED
    BY <1>1, InductiveInvariant, PTL

\* The cap of the cache, for any cap and any number of files and opens: what is
\* over it is arriving, or was left by a failed transfer or a killed app that no
\* eviction has seen yet.
THEOREM CacheStaysUnderCap == Spec => []CapHolds
  <1>1. CacheInv => CapHolds
    BY DEF CacheInv
  <1> QED
    BY <1>1, InductiveInvariant, PTL

=============================================================================
