------------------------------ MODULE ReviewSync ------------------------------
(***************************************************************************)
(* Review bundles between two offline devices                              *)
(* (FileShareReviewSyncService, apps/duet/lib/review_sync, on the local    *)
(* annotation repository and audio store): the author's device exports     *)
(* snapshots of its slice of a piece, the receiver's device imports them,  *)
(* in any order, some twice and some never.  Nothing keeps the user from   *)
(* starting an export or an import while another one runs; a step is what  *)
(* happens between two awaits.                                             *)
(*                                                                         *)
(* The slice is the author's audio notes, alive or tombstoned; ink is      *)
(* replaced along with them.  An import stores the audio of its live notes *)
(* under fresh asset ids, here one batch of assets per import.             *)
(***************************************************************************)
EXTENDS Naturals, FiniteSets, FiniteSetsExt

CONSTANTS
    Notes,      \* the notes the author can record: bounds the recording
    Batches,    \* batches of asset ids: bounds the imports that store audio
    Exports,    \* slots for exports in flight
    Imports,    \* slots for imports in flight
    MaxClock    \* bounds the stamps of bundles

VARIABLES
    own,        \* own[n]: a note of the author on the author's device
    baseShared, \* the author's flag base_shared
    exports,    \* exports[x]: the export in flight in slot x
    bundles,    \* the bundles exported
    hasPiece,   \* whether the receiver has the piece
    slice,      \* the author's slice on the receiver's device
    stored,     \* batches whose assets are in the receiver's audio store
    lastApplied,\* the receiver's flag last_applied
    imports,    \* imports[i]: the import in flight in slot i
    finished,   \* history: the stamps of the bundles whose import succeeded
    disturbed,  \* history: two imports overlapped, or one was cut short after it
                \* had replaced the slice
    unordered   \* history: two exports overlapped, or a bundle's stamp is no
                \* later than that of a bundle before it

vars == <<own, baseShared, exports, bundles, hasPiece, slice, stored,
          lastApplied, imports, finished, disturbed, unordered>>

authorVars == <<own, baseShared, exports, bundles>>
receiverVars == <<hasPiece, slice, stored, lastApplied, imports, finished>>

Idle == [pc |-> "idle"]
NoBatch == "no batch"

ASSUME ReviewAssumption ==
    /\ MaxClock \in Nat
    /\ IsFiniteSet(Exports) /\ IsFiniteSet(Imports)
    /\ NoBatch \notin Batches

Stamps == 0..MaxClock
Bundle == [at : Stamps \ {0}, live : SUBSET Notes, dead : SUBSET Notes, pdf : BOOLEAN]
Slice == [at : Stamps, live : SUBSET Notes, dead : SUBSET Notes, batch : Batches \union {NoBatch}]
ExportCall == [pc : {"bundle"}, live : SUBSET Notes, dead : SUBSET Notes]
ImportCall == [pc : {"put", "capture", "replace", "drop", "record"}, bundle : Bundle,
               batch : Batches \union {NoBatch}, stale : Batches \union {NoBatch}]

Init ==
    /\ own = [n \in Notes |-> "absent"]
    /\ baseShared = FALSE
    /\ exports = [x \in Exports |-> Idle]
    /\ bundles = {}
    /\ hasPiece \in BOOLEAN
    /\ slice = [at |-> 0, live |-> {}, dead |-> {}, batch |-> NoBatch]
    /\ stored = {}
    /\ lastApplied = 0
    /\ imports = [i \in Imports |-> Idle]
    /\ finished = {}
    /\ disturbed = FALSE
    /\ unordered = FALSE

-----------------------------------------------------------------------------
(* The author's device.                                                    *)

AddAudioNote(n) ==
    /\ own[n] = "absent"
    /\ own' = [own EXCEPT ![n] = "live"]
    /\ UNCHANGED <<baseShared, exports, bundles, receiverVars>>

\* Mutant: a deleted note is neither there nor a tombstone.
MutantDeleteForgets(n) ==
    /\ own[n] = "live"
    /\ own' = [own EXCEPT ![n] = "forgotten"]
    /\ UNCHANGED <<baseShared, exports, bundles, receiverVars>>

\* A deleted note stays as a tombstone.
DeleteAudioNote(n) ==
    /\ own[n] = "live"
    /\ own' = [own EXCEPT ![n] = "tombstoned"]
    /\ UNCHANGED <<baseShared, exports, bundles, receiverVars>>

\* exportBundle takes the snapshot, tombstones included.
ExportSnapshot(x) ==
    /\ exports[x] = Idle
    /\ exports' = [exports EXCEPT ![x] =
          [pc |-> "bundle", live |-> {n \in Notes : own[n] = "live"},
                            dead |-> {n \in Notes : own[n] = "tombstoned"}]]
    /\ UNCHANGED <<own, baseShared, bundles, receiverVars>>

\* The audio is read, the bundle stamped and written.  It carries the base PDF
\* until one did, if the file is there.  The stamp is the time of a clock that
\* may stand still and be set back.
ExportBundle(x) ==
    /\ exports[x] # Idle
    /\ \E now \in 1..MaxClock, withPdf \in {FALSE, ~baseShared} :
        /\ bundles' = bundles \union
              {[at |-> now, live |-> exports[x].live, dead |-> exports[x].dead,
                pdf |-> withPdf]}
        /\ baseShared' = (baseShared \/ withPdf)
    /\ exports' = [exports EXCEPT ![x] = Idle]
    /\ UNCHANGED <<own, receiverVars>>

\* The export fails, as when a note's audio was deleted meanwhile.
ExportFails(x) ==
    /\ exports[x] # Idle
    /\ exports' = [exports EXCEPT ![x] = Idle]
    /\ UNCHANGED <<own, baseShared, bundles, receiverVars>>

-----------------------------------------------------------------------------
(* The receiver's device: importBundle.                                    *)

At(i, step) == imports[i].pc = step

\* Import i goes to a step, with its own batch and the one it will delete.
Advance(i, step, batch, stale) ==
    imports' = [imports EXCEPT ![i] =
        [pc |-> step, bundle |-> @.bundle, batch |-> batch, stale |-> stale]]

Goto(i, step) == Advance(i, step, imports[i].batch, imports[i].stale)

\* _resolvePiece: the piece is there, or made from the bundle's PDF.
Resolvable(b) == hasPiece \/ b.pdf

\* Mutant: every bundle is taken for a new one.
MutantNeverStale(b) == FALSE

\* The stale-drop: a bundle that is not newer than the last one applied.
IsStale(b) == b.at <= lastApplied

\* The bundle is read; a stale one ends the import, which succeeds.
ImportRead(i, b) ==
    /\ imports[i] = Idle
    /\ Resolvable(b)
    /\ hasPiece' = TRUE
    /\ IF IsStale(b)
         THEN /\ finished' = finished \union {b.at}
              /\ UNCHANGED imports
         ELSE /\ imports' = [imports EXCEPT ![i] =
                    [pc |-> "put", bundle |-> b, batch |-> NoBatch, stale |-> NoBatch]]
              /\ UNCHANGED finished
    /\ UNCHANGED <<authorVars, slice, stored, lastApplied>>

\* Asset ids are fresh: nothing in the store, the slice or an import has them.
Fresh ==
    {a \in Batches \ (stored \union {slice.batch}) :
        \A i \in Imports : imports[i] = Idle \/ a \notin {imports[i].batch, imports[i].stale}}

\* The audio of the live notes is stored.
ImportPut(i) ==
    /\ At(i, "put")
    /\ IF imports[i].bundle.live = {}
         THEN /\ Goto(i, "capture")
              /\ UNCHANGED stored
         ELSE \E a \in Fresh :
              /\ stored' = stored \union {a}
              /\ Advance(i, "capture", a, imports[i].stale)
    /\ UNCHANGED <<authorVars, hasPiece, slice, lastApplied, finished>>

\* Mutant: the previous assets are deleted as soon as they are known.
MutantCaptureDrops(i) ==
    /\ At(i, "capture")
    /\ Advance(i, "replace", imports[i].batch, slice.batch)
    /\ stored' = stored \ {slice.batch}
    /\ UNCHANGED <<authorVars, hasPiece, slice, lastApplied, finished>>

\* The assets of the slice to be replaced are noted.
ImportCapture(i) ==
    /\ At(i, "capture")
    /\ Advance(i, "replace", imports[i].batch, slice.batch)
    /\ UNCHANGED <<authorVars, hasPiece, slice, stored, lastApplied, finished>>

\* replaceAuthorSlice.
ImportReplace(i) ==
    LET b == imports[i].bundle IN
    /\ At(i, "replace")
    /\ slice' = [at |-> b.at, live |-> b.live, dead |-> b.dead, batch |-> imports[i].batch]
    /\ Goto(i, "drop")
    /\ UNCHANGED <<authorVars, hasPiece, stored, lastApplied, finished>>

\* The assets noted before are deleted.
ImportDrop(i) ==
    /\ At(i, "drop")
    /\ stored' = stored \ {imports[i].stale}
    /\ Goto(i, "record")
    /\ UNCHANGED <<authorVars, hasPiece, slice, lastApplied, finished>>

\* Mutant: the receiver's own time is recorded, not the bundle's.
MutantRecordClock(i) ==
    /\ At(i, "record")
    /\ lastApplied' \in imports[i].bundle.at..MaxClock
    /\ finished' = finished \union {imports[i].bundle.at}
    /\ imports' = [imports EXCEPT ![i] = Idle]
    /\ UNCHANGED <<authorVars, hasPiece, slice, stored>>

\* The stamp of the bundle is recorded and the import has succeeded.
ImportRecord(i) ==
    /\ At(i, "record")
    /\ lastApplied' = imports[i].bundle.at
    /\ finished' = finished \union {imports[i].bundle.at}
    /\ imports' = [imports EXCEPT ![i] = Idle]
    /\ UNCHANGED <<authorVars, hasPiece, slice, stored>>

\* An import fails before it replaces the slice: its audio stays behind.
ImportFails(i) ==
    /\ imports[i].pc \in {"put", "capture", "replace"}
    /\ imports' = [imports EXCEPT ![i] = Idle]
    /\ UNCHANGED <<authorVars, hasPiece, slice, stored, lastApplied, finished>>

\* The app is killed on the receiver's device.
Crash ==
    /\ \E i \in Imports : imports[i] # Idle
    /\ imports' = [i \in Imports |-> Idle]
    /\ UNCHANGED <<authorVars, hasPiece, slice, stored, lastApplied, finished>>

-----------------------------------------------------------------------------
Importing == {i \in Imports : imports[i] # Idle}

\* What the history counts as a disturbance.
Disturbs ==
    \/ Cardinality(Importing') > 1
    \/ Crash /\ \E i \in Importing : imports[i].pc \in {"drop", "record"}

Unorders ==
    \/ Cardinality({x \in Exports : exports'[x] # Idle}) > 1
    \/ \E b \in bundles, c \in bundles' \ bundles : c.at <= b.at

Next ==
    /\ \/ \E n \in Notes : AddAudioNote(n) \/ DeleteAudioNote(n)
       \/ \E x \in Exports : ExportSnapshot(x) \/ ExportBundle(x) \/ ExportFails(x)
       \/ \E i \in Imports :
             \/ \E b \in bundles : ImportRead(i, b)
             \/ ImportPut(i) \/ ImportCapture(i) \/ ImportReplace(i)
             \/ ImportDrop(i) \/ ImportRecord(i) \/ ImportFails(i)
       \/ Crash
    /\ disturbed' = (disturbed \/ Disturbs)
    /\ unordered' = (unordered \/ Unorders)

Spec == Init /\ [][Next]_vars

-----------------------------------------------------------------------------
(* Properties.                                                             *)

\* Notes, bundles, the slice and the calls in flight keep their shape.
TypeOK ==
    /\ own \in [Notes -> {"absent", "live", "tombstoned"}]
    /\ baseShared \in BOOLEAN /\ hasPiece \in BOOLEAN
    /\ disturbed \in BOOLEAN /\ unordered \in BOOLEAN
    /\ exports \in [Exports -> {Idle} \union ExportCall]
    /\ lastApplied \in Stamps
    /\ bundles \subseteq Bundle
    /\ slice \in Slice
    /\ stored \subseteq Batches
    /\ imports \in [Imports -> {Idle} \union ImportCall]
    /\ finished \subseteq Stamps

\* No note of the slice has lost its audio, whichever imports overlap, fail or
\* are cut short: the audio of the previous slice is deleted only once another
\* slice is in its place.
NoDanglingAudio == slice.live # {} => slice.batch \in stored

\* The receiver shows the bundle with the latest stamp of those whose imports
\* succeeded, in whatever order they came and however often, as long as no
\* imports overlapped and none was cut short between replacing the slice and
\* recording its stamp.
ShowsNewest ==
    ~disturbed /\ Importing = {} /\ finished # {} =>
        /\ slice.at = Max(finished)
        /\ lastApplied = slice.at
        /\ \E b \in bundles : b.at = slice.at /\ b.live = slice.live /\ b.dead = slice.dead

\* A note that was deleted does not come back on the receiver's device: what
\* the slice holds as a tombstone no later slice holds alive, as long as the
\* imports were not disturbed and the author's stamps tell the order of the
\* snapshots.
NoResurrection ==
    [][~disturbed' /\ ~unordered' => slice.dead \intersect slice'.live = {}]_vars

=============================================================================
