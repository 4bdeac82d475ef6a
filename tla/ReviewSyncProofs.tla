--------------------------- MODULE ReviewSyncProofs ---------------------------
(***************************************************************************)
(* Proofs about ReviewSync, for any notes, any number of exports and       *)
(* imports in flight and any order in which bundles arrive.                *)
(***************************************************************************)
EXTENDS ReviewSync, FiniteSetTheorems, TLAPS

-----------------------------------------------------------------------------
(* The inductive invariant.                                                *)

\* The audio of an import that has not replaced the slice yet is stored, and
\* nothing that will be deleted.
Held(i) ==
    /\ imports[i].pc = "put" => imports[i].batch = NoBatch
    /\ imports[i].pc \in {"capture", "replace"} =>
        /\ imports[i].bundle.live # {} => imports[i].batch \in stored
        /\ imports[i].batch # NoBatch =>
            /\ imports[i].batch # slice.batch
            /\ imports[i].batch # imports[i].stale
            /\ \A j \in Imports \ {i} : imports[j] # Idle =>
                  imports[i].batch # imports[j].batch /\ imports[i].batch # imports[j].stale

\* An import that is about to delete the previous audio has replaced the slice
\* that used it.
Dropping(i) ==
    imports[i].pc = "drop" /\ imports[i].stale # NoBatch =>
        imports[i].stale # slice.batch

AudioInv == NoDanglingAudio /\ \A i \in Imports : Held(i) /\ Dropping(i)

\* What is shown or being imported was exported.
BundleInv ==
    /\ \A i \in Imports : imports[i] # Idle => imports[i].bundle \in bundles
    /\ \/ slice.at = 0 /\ slice.dead = {}
       \/ \E b \in bundles : b.at = slice.at /\ b.live = slice.live /\ b.dead = slice.dead

\* At most one is in flight.
OneExport == \A x, y \in Exports : exports[x] # Idle /\ exports[y] # Idle => x = y
OneImport == \A i, j \in Imports : imports[i] # Idle /\ imports[j] # Idle => i = j

\* The stamp recorded is that of the slice, except between the replacement and
\* the record, and the newest of the imports that succeeded.
Recorded ==
    /\ \A f \in finished : 0 < f /\ f <= lastApplied
    /\ lastApplied \in finished \/ (finished = {} /\ lastApplied = 0)
    /\ \A i \in Imports : imports[i] # Idle => lastApplied < imports[i].bundle.at
    /\ \A i \in Imports : imports[i].pc \in {"drop", "record"} =>
          slice.at = imports[i].bundle.at
    /\ (\A i \in Imports : imports[i].pc \notin {"drop", "record"}) =>
          slice.at = lastApplied

\* What was a tombstone when a bundle was exported is one in every bundle to
\* come.
Buried ==
    /\ \A b \in bundles : \A n \in b.dead : own[n] = "tombstoned"
    /\ \A x \in Exports : exports[x] # Idle =>
          /\ \A n \in exports[x].dead : own[n] = "tombstoned"
          /\ exports[x].dead \intersect exports[x].live = {}
          /\ \A b \in bundles : b.dead \intersect exports[x].live = {}
    /\ \A b, c \in bundles : b.at <= c.at => b.dead \intersect c.live = {}

OrderInv ==
    /\ ~disturbed => OneImport /\ Recorded
    /\ ~unordered => OneExport /\ Buried

ReviewInv == TypeOK /\ AudioInv /\ BundleInv /\ OrderInv

-----------------------------------------------------------------------------
(* Types.                                                                  *)

LEMMA InitInv == Init => ReviewInv
  <1> SUFFICES ASSUME Init PROVE ReviewInv
    OBVIOUS
  <1>1. TypeOK
    <2>1. slice \in Slice
      BY ReviewAssumption DEF Init, Stamps, Slice
    <2>2. lastApplied \in Stamps
      BY ReviewAssumption DEF Init, Stamps
    <2> QED
      BY <2>1, <2>2 DEF Init, TypeOK
  <1>2. AudioInv
    BY DEF Init, AudioInv, NoDanglingAudio, Held, Dropping, Idle
  <1>3. BundleInv
    BY DEF Init, BundleInv
  <1>4. OneImport /\ Recorded /\ OneExport /\ Buried
    BY DEF Init, OneImport, OneExport, Recorded, Buried, Idle
  <1> QED
    BY <1>1, <1>2, <1>3, <1>4 DEF ReviewInv, OrderInv

\* A call in flight has the shape of a call, and an idle slot is none.
LEMMA InFlightIsCall ==
  ASSUME TypeOK, NEW i \in Imports
  PROVE  /\ imports[i].pc # "idle" <=> imports[i] # Idle
         /\ imports[i] # Idle => imports[i] \in ImportCall
  BY DEF TypeOK, Idle, ImportCall

LEMMA TypeStep ==
  ASSUME TypeOK, Next
  PROVE  TypeOK'
  <1>0. disturbed' \in BOOLEAN /\ unordered' \in BOOLEAN
    BY DEF Next, TypeOK
  <1> USE <1>0, ReviewAssumption
  <1>1. ASSUME NEW n \in Notes, AddAudioNote(n) \/ DeleteAudioNote(n) PROVE TypeOK'
    BY <1>1 DEF TypeOK, AddAudioNote, DeleteAudioNote, receiverVars
  <1>2. ASSUME NEW x \in Exports, ExportSnapshot(x) PROVE TypeOK'
    <2>1. exports' \in [Exports -> {Idle} \union ExportCall]
      BY <1>2 DEF TypeOK, ExportSnapshot, ExportCall
    <2> QED
      BY <1>2, <2>1 DEF TypeOK, ExportSnapshot, receiverVars
  <1>3. ASSUME NEW x \in Exports, ExportBundle(x) PROVE TypeOK'
    <2>1. exports[x] \in ExportCall /\ exports' \in [Exports -> {Idle} \union ExportCall]
      BY <1>3 DEF TypeOK, ExportBundle
    <2>2. PICK now \in 1..MaxClock, withPdf \in {FALSE, ~baseShared} :
              /\ bundles' = bundles \union
                    {[at |-> now, live |-> exports[x].live, dead |-> exports[x].dead,
                      pdf |-> withPdf]}
              /\ baseShared' = (baseShared \/ withPdf)
      BY <1>3 DEF ExportBundle
    <2>3. now \in Stamps \ {0} /\ withPdf \in BOOLEAN
      <3>1. now \in Stamps \ {0}
        BY DEF Stamps
      <3>2. withPdf = FALSE \/ withPdf = ~baseShared
        BY <2>2
      <3>3. (~baseShared) \in BOOLEAN
        OBVIOUS
      <3> QED
        BY <3>1, <3>2, <3>3, Zenon
    <2>4. bundles' \subseteq Bundle
      <3>1. [at |-> now, live |-> exports[x].live, dead |-> exports[x].dead,
             pdf |-> withPdf] \in Bundle
        BY <2>1, <2>3 DEF ExportCall, Bundle
      <3> QED
        BY <2>2, <3>1 DEF TypeOK
    <2>5. baseShared' \in BOOLEAN
      BY <2>2
    <2> QED
      BY <1>3, <2>1, <2>4, <2>5 DEF TypeOK, ExportBundle, receiverVars
  <1>4. ASSUME NEW x \in Exports, ExportFails(x) PROVE TypeOK'
    BY <1>4 DEF TypeOK, ExportFails, receiverVars
  <1>5. ASSUME NEW i \in Imports, NEW b \in bundles, ImportRead(i, b) PROVE TypeOK'
    <2>1. b \in Bundle /\ b.at \in Stamps
      BY DEF TypeOK, Bundle
    <2>2. imports' \in [Imports -> {Idle} \union ImportCall]
      BY <1>5, <2>1 DEF TypeOK, ImportRead, ImportCall
    <2> QED
      BY <1>5, <2>1, <2>2 DEF TypeOK, ImportRead, authorVars
  <1>6. ASSUME NEW i \in Imports, ImportPut(i) PROVE TypeOK'
    <2>1. imports[i] \in ImportCall
      BY <1>6, InFlightIsCall DEF ImportPut, At
    <2>2. stored' \subseteq Batches
      BY <1>6 DEF TypeOK, ImportPut, Fresh
    <2>3. imports' \in [Imports -> {Idle} \union ImportCall]
      BY <1>6, <2>1 DEF TypeOK, ImportPut, ImportCall, Goto, Advance, Fresh
    <2> QED
      BY <1>6, <2>2, <2>3 DEF TypeOK, ImportPut, authorVars
  <1>7. ASSUME NEW i \in Imports, ImportCapture(i) PROVE TypeOK'
    <2>1. imports[i] \in ImportCall
      BY <1>7, InFlightIsCall DEF ImportCapture, At
    <2>2. imports' \in [Imports -> {Idle} \union ImportCall]
      BY <1>7, <2>1 DEF TypeOK, ImportCapture, Advance, ImportCall, Slice
    <2> QED
      BY <1>7, <2>2 DEF TypeOK, ImportCapture, authorVars
  <1>8. ASSUME NEW i \in Imports, ImportReplace(i) PROVE TypeOK'
    <2>1. imports[i] \in ImportCall
      BY <1>8, InFlightIsCall DEF ImportReplace, At
    <2>2. imports' \in [Imports -> {Idle} \union ImportCall]
      BY <1>8, <2>1 DEF TypeOK, ImportReplace, ImportCall, Goto, Advance
    <2>3. slice' \in Slice
      BY <1>8, <2>1 DEF ImportReplace, ImportCall, Slice, Bundle
    <2> QED
      BY <1>8, <2>2, <2>3 DEF TypeOK, ImportReplace, authorVars
  <1>9. ASSUME NEW i \in Imports, ImportDrop(i) PROVE TypeOK'
    <2>1. imports[i] \in ImportCall
      BY <1>9, InFlightIsCall DEF ImportDrop, At
    <2>2. imports' \in [Imports -> {Idle} \union ImportCall]
      BY <1>9, <2>1 DEF TypeOK, ImportDrop, ImportCall, Goto, Advance
    <2> QED
      BY <1>9, <2>2 DEF TypeOK, ImportDrop, authorVars
  <1>10. ASSUME NEW i \in Imports, ImportRecord(i) PROVE TypeOK'
    <2>1. imports[i] \in ImportCall
      BY <1>10, InFlightIsCall DEF ImportRecord, At
    <2>2. imports[i].bundle.at \in Stamps
      BY <2>1 DEF ImportCall, Bundle
    <2>3. imports' \in [Imports -> {Idle} \union ImportCall]
      BY <1>10 DEF TypeOK, ImportRecord
    <2> QED
      BY <1>10, <2>2, <2>3 DEF TypeOK, ImportRecord, authorVars
  <1>11. ASSUME NEW i \in Imports, ImportFails(i) PROVE TypeOK'
    <2>1. imports' \in [Imports -> {Idle} \union ImportCall]
      BY <1>11 DEF TypeOK, ImportFails
    <2> QED
      BY <1>11, <2>1 DEF TypeOK, ImportFails, authorVars
  <1>12. CASE Crash
    BY <1>12 DEF TypeOK, Crash, authorVars
  <1> QED
    BY <1>1, <1>2, <1>3, <1>4, <1>5, <1>6, <1>7, <1>8, <1>9, <1>10, <1>11, <1>12
    DEF Next

-----------------------------------------------------------------------------
(* The audio of the slice.                                                 *)

LEMMA AudioStep ==
  ASSUME TypeOK, AudioInv, Next
  PROVE  AudioInv'
  <1> USE ReviewAssumption
  <1>0. /\ imports \in [Imports -> {Idle} \union ImportCall]
        /\ stored \subseteq Batches
        /\ \A i \in Imports : imports[i].pc # "idle" <=> imports[i] # Idle
    BY InFlightIsCall DEF TypeOK
  <1>1. CASE UNCHANGED receiverVars
    BY <1>1 DEF AudioInv, NoDanglingAudio, Held, Dropping, receiverVars
  <1>2. ASSUME NEW i \in Imports, NEW b \in bundles, ImportRead(i, b) PROVE AudioInv'
    <2>1. slice' = slice /\ stored' = stored
      BY <1>2 DEF ImportRead
    <2>2. \/ imports' = imports
          \/ imports' = [imports EXCEPT ![i] =
                [pc |-> "put", bundle |-> b, batch |-> NoBatch, stale |-> NoBatch]]
      BY <1>2 DEF ImportRead
    <2> QED
      BY <1>0, <2>1, <2>2 DEF AudioInv, NoDanglingAudio, Held, Dropping, Idle
  <1>3. ASSUME NEW i \in Imports, ImportPut(i) PROVE AudioInv'
    <2>1. slice' = slice /\ imports[i].pc = "put" /\ imports[i] \in ImportCall
      BY <1>3, InFlightIsCall DEF ImportPut, At
    <2>2. CASE imports[i].bundle.live = {}
      BY <1>0, <1>3, <2>1, <2>2
      DEF AudioInv, NoDanglingAudio, Held, Dropping, ImportPut, Goto, Advance, Idle, ImportCall
    <2>3. CASE imports[i].bundle.live # {}
      BY <1>0, <1>3, <2>1, <2>3
      DEF AudioInv, NoDanglingAudio, Held, Dropping, ImportPut, Fresh, Advance, Idle, ImportCall
    <2> QED
      BY <2>2, <2>3
  <1>4. ASSUME NEW i \in Imports, ImportCapture(i) PROVE AudioInv'
    BY <1>0, <1>4
    DEF AudioInv, NoDanglingAudio, Held, Dropping, ImportCapture, At, Advance, Idle
  <1>5. ASSUME NEW i \in Imports, ImportReplace(i) PROVE AudioInv'
    BY <1>0, <1>5
    DEF AudioInv, NoDanglingAudio, Held, Dropping, ImportReplace, At, Goto, Advance, Idle
  <1>6. ASSUME NEW i \in Imports, ImportDrop(i) PROVE AudioInv'
    BY <1>0, <1>6
    DEF AudioInv, NoDanglingAudio, Held, Dropping, ImportDrop, At, Goto, Advance, Idle
  <1>7. ASSUME NEW i \in Imports, ImportRecord(i) \/ ImportFails(i) PROVE AudioInv'
    <2>1. slice' = slice /\ stored' = stored /\ imports' = [imports EXCEPT ![i] = Idle]
      BY <1>7 DEF ImportRecord, ImportFails
    <2> QED
      BY <1>0, <2>1 DEF AudioInv, NoDanglingAudio, Held, Dropping, Idle
  <1>8. CASE Crash
    BY <1>0, <1>8 DEF AudioInv, NoDanglingAudio, Held, Dropping, Crash, Idle
  <1>9. CASE \/ \E n \in Notes : AddAudioNote(n) \/ DeleteAudioNote(n)
             \/ \E x \in Exports : ExportSnapshot(x) \/ ExportBundle(x) \/ ExportFails(x)
    BY <1>1, <1>9
    DEF AddAudioNote, DeleteAudioNote, ExportSnapshot, ExportBundle, ExportFails
  <1> QED
    BY <1>2, <1>3, <1>4, <1>5, <1>6, <1>7, <1>8, <1>9 DEF Next

-----------------------------------------------------------------------------
(* Stamps and bundles.                                                     *)

LEMMA BundleStep ==
  ASSUME TypeOK, BundleInv, Next
  PROVE  BundleInv'
  <1> USE ReviewAssumption
  <1>0. /\ imports \in [Imports -> {Idle} \union ImportCall]
        /\ bundles \subseteq Bundle
    BY DEF TypeOK, Stamps
  <1>1. CASE UNCHANGED <<bundles, imports, slice>>
    BY <1>1 DEF BundleInv
  <1>2. ASSUME NEW x \in Exports, ExportBundle(x) PROVE BundleInv'
    BY <1>0, <1>2 DEF BundleInv, ExportBundle, receiverVars
  <1>3. ASSUME NEW i \in Imports, NEW b \in bundles, ImportRead(i, b) PROVE BundleInv'
    BY <1>0, <1>3 DEF BundleInv, ImportRead, authorVars
  <1>4. ASSUME NEW i \in Imports, imports[i] # Idle, UNCHANGED <<authorVars, slice>>,
               imports'[i] = Idle \/ imports'[i].bundle = imports[i].bundle,
               \A j \in Imports \ {i} : imports'[j] = imports[j]
        PROVE  BundleInv'
    BY <1>4 DEF BundleInv, authorVars
  <1>5. ASSUME NEW i \in Imports, ImportPut(i) PROVE BundleInv'
    BY <1>0, <1>4, <1>5 DEF ImportPut, At, Goto, Advance, Idle
  <1>6. ASSUME NEW i \in Imports, ImportCapture(i) PROVE BundleInv'
    BY <1>0, <1>4, <1>6 DEF ImportCapture, At, Advance, Idle
  <1>7. ASSUME NEW i \in Imports, ImportReplace(i) PROVE BundleInv'
    BY <1>0, <1>7 DEF BundleInv, ImportReplace, At, Goto, Advance, Idle, authorVars
  <1>8. ASSUME NEW i \in Imports, ImportDrop(i) PROVE BundleInv'
    BY <1>0, <1>4, <1>8 DEF ImportDrop, At, Goto, Advance, Idle
  <1>9. ASSUME NEW i \in Imports, ImportRecord(i) \/ ImportFails(i) PROVE BundleInv'
    BY <1>0, <1>4, <1>9 DEF ImportRecord, ImportFails, At, Idle
  <1>10. CASE Crash
    BY <1>10 DEF BundleInv, Crash, authorVars
  <1>11. CASE \/ \E n \in Notes : AddAudioNote(n) \/ DeleteAudioNote(n)
              \/ \E x \in Exports : ExportSnapshot(x) \/ ExportFails(x)
    BY <1>1, <1>11
    DEF AddAudioNote, DeleteAudioNote, ExportSnapshot, ExportFails, receiverVars
  <1> QED
    BY <1>2, <1>3, <1>5, <1>6, <1>7, <1>8, <1>9, <1>10, <1>11 DEF Next

-----------------------------------------------------------------------------
(* The order of things while nothing is disturbed.                         *)

\* A finite set of more than one element has a cardinality that tells.
LEMMA NotAlone ==
  ASSUME NEW S, IsFiniteSet(S), ~(Cardinality(S) > 1)
  PROVE  \A x, y \in S : x = y
  <1> SUFFICES ASSUME NEW x \in S, NEW y \in S, x # y
               PROVE  FALSE
    OBVIOUS
  <1>1. Cardinality(S) \in Nat
    BY FS_CardinalityType
  <1>2. Cardinality(S) # 0
    BY FS_EmptySet
  <1>3. Cardinality(S) # 1
    BY FS_Singleton
  <1> QED
    BY <1>1, <1>2, <1>3

\* A step that disturbs nothing comes from and ends in a state with at most one
\* import in flight, and is no crash after a replacement.
LEMMA Undisturbed ==
  ASSUME TypeOK, Next, ~disturbed'
  PROVE  /\ ~disturbed
         /\ OneImport'
         /\ Crash => \A i \in Imports : imports[i].pc \notin {"drop", "record"}
  <1>1. disturbed' = (disturbed \/ Disturbs)
    BY DEF Next
  <1>2. ~disturbed /\ ~Disturbs
    BY <1>1, Zenon
  <1>3. OneImport'
    <2> DEFINE S == {i \in Imports : imports'[i] # Idle}
    <2>1. ~(Cardinality(S) > 1)
      BY <1>2 DEF Disturbs, Importing
    <2>2. IsFiniteSet(S)
      BY ReviewAssumption, FS_Subset
    <2> QED
      BY <2>1, <2>2, NotAlone DEF OneImport
  <1>4. Crash => \A i \in Imports : imports[i].pc \notin {"drop", "record"}
    BY <1>2 DEF Disturbs, Importing, Idle
  <1> QED
    BY <1>2, <1>3, <1>4

\* A step that leaves the order of the bundles clear ends in a state with at
\* most one export in flight, and a new bundle is stamped later than the others.
LEMMA Ordered ==
  ASSUME TypeOK, Next, ~unordered'
  PROVE  /\ ~unordered
         /\ OneExport'
         /\ \A b \in bundles, c \in bundles' \ bundles : ~(c.at <= b.at)
  <1>1. unordered' = (unordered \/ Unorders)
    BY DEF Next
  <1>2. ~unordered /\ ~Unorders
    BY <1>1, Zenon
  <1>3. OneExport'
    <2> DEFINE S == {x \in Exports : exports'[x] # Idle}
    <2>1. ~(Cardinality(S) > 1)
      BY <1>2 DEF Unorders
    <2>2. IsFiniteSet(S)
      BY ReviewAssumption, FS_Subset
    <2> QED
      BY <2>1, <2>2, NotAlone DEF OneExport
  <1> QED
    BY <1>2, <1>3 DEF Unorders

LEMMA RecordedStep ==
  ASSUME TypeOK, BundleInv, OneImport, Recorded, Next, OneImport',
         Crash => \A i \in Imports : imports[i].pc \notin {"drop", "record"}
  PROVE  Recorded'
  <1> USE ReviewAssumption
  <1>0. /\ imports \in [Imports -> {Idle} \union ImportCall]
        /\ lastApplied \in Nat
        /\ finished \subseteq Nat
        /\ \A b \in bundles : b.at \in Nat \ {0}
        /\ \A i \in Imports : imports[i].pc # "idle" <=> imports[i] # Idle
        /\ \A i \in Imports : imports[i] # Idle => imports[i].bundle.at \in Nat \ {0}
    BY InFlightIsCall DEF TypeOK, Stamps, BundleInv, ImportCall, Bundle
  <1>1. CASE UNCHANGED receiverVars
    BY <1>1 DEF Recorded, receiverVars
  <1>2. ASSUME NEW i \in Imports, NEW b \in bundles, ImportRead(i, b) PROVE Recorded'
    <2>1. lastApplied' = lastApplied /\ slice' = slice /\ imports[i] = Idle
      BY <1>2 DEF ImportRead
    <2>2. CASE IsStale(b)
      <3>1. imports' = imports /\ finished' = finished \union {b.at}
        BY <1>2, <2>2 DEF ImportRead
      <3>2. 0 < b.at /\ b.at <= lastApplied /\ lastApplied \in finished
        BY <1>0, <2>2 DEF IsStale, Recorded
      <3> QED
        BY <2>1, <3>1, <3>2 DEF Recorded
    <2>3. CASE ~IsStale(b)
      <3>1. /\ finished' = finished
            /\ imports' = [imports EXCEPT ![i] =
                  [pc |-> "put", bundle |-> b, batch |-> NoBatch, stale |-> NoBatch]]
        BY <1>2, <2>3 DEF ImportRead
      <3>2. lastApplied < b.at
        BY <1>0, <2>3 DEF IsStale
      <3>3. \A j \in Imports \ {i} : imports[j] = Idle
        BY <1>0, <3>1 DEF OneImport, Idle
      <3>4. slice.at = lastApplied
        BY <2>1, <3>3 DEF Recorded, Idle
      <3> QED
        BY <1>0, <2>1, <3>1, <3>2, <3>4 DEF Recorded
    <2> QED
      BY <2>2, <2>3
  <1>3. ASSUME NEW i \in Imports,
               imports[i].pc \in {"put", "capture"}, imports'[i] # Idle,
               imports'[i].pc \in {"capture", "replace"},
               imports'[i].bundle = imports[i].bundle,
               \A j \in Imports \ {i} : imports'[j] = imports[j],
               UNCHANGED <<slice, lastApplied, finished>>
        PROVE  Recorded'
    BY <1>0, <1>3 DEF Recorded
  <1>4. ASSUME NEW i \in Imports, ImportPut(i) PROVE Recorded'
    <2>1. imports'[i] # Idle /\ imports'[i].pc = "capture"
          /\ imports'[i].bundle = imports[i].bundle
      BY <1>0, <1>4 DEF ImportPut, Goto, Advance, Idle
    <2> QED
      BY <1>0, <1>3, <1>4, <2>1 DEF ImportPut, At, Goto, Advance
  <1>5. ASSUME NEW i \in Imports, ImportCapture(i) PROVE Recorded'
    <2>1. imports'[i] # Idle /\ imports'[i].pc = "replace"
          /\ imports'[i].bundle = imports[i].bundle
      BY <1>0, <1>5 DEF ImportCapture, Advance, Idle
    <2> QED
      BY <1>0, <1>3, <1>5, <2>1 DEF ImportCapture, At, Advance
  <1>6. ASSUME NEW i \in Imports, ImportReplace(i) PROVE Recorded'
    <2>1. imports[i].pc = "replace" /\ slice'.at = imports[i].bundle.at
      BY <1>6 DEF ImportReplace, At
    <2>2. lastApplied' = lastApplied /\ finished' = finished
      BY <1>6 DEF ImportReplace
    <2>3. imports' = [imports EXCEPT ![i] = [pc |-> "drop", bundle |-> imports[i].bundle,
                          batch |-> imports[i].batch, stale |-> imports[i].stale]]
      BY <1>6 DEF ImportReplace, Goto, Advance
    <2>4. \A j \in Imports \ {i} : imports[j] = Idle
      BY <1>0, <2>1 DEF OneImport
    <2>5. imports'[i].pc = "drop" /\ imports'[i].bundle = imports[i].bundle
      BY <1>0, <2>3
    <2>6. \A j \in Imports \ {i} : imports'[j] = Idle
      BY <1>0, <2>3, <2>4
    <2> QED
      BY <1>0, <2>1, <2>2, <2>5, <2>6 DEF Recorded, Idle
  <1>7. ASSUME NEW i \in Imports, ImportDrop(i) PROVE Recorded'
    <2>1. imports[i].pc = "drop" /\ imports[i] # Idle
      BY <1>0, <1>7 DEF ImportDrop, At
    <2>2. UNCHANGED <<slice, lastApplied, finished>>
      BY <1>7 DEF ImportDrop
    <2>3. imports' = [imports EXCEPT ![i] = [pc |-> "record", bundle |-> imports[i].bundle,
                          batch |-> imports[i].batch, stale |-> imports[i].stale]]
      BY <1>7 DEF ImportDrop, Goto, Advance
    <2>4. imports'[i].pc = "record" /\ imports'[i].bundle = imports[i].bundle
      BY <1>0, <2>3
    <2>5. \A j \in Imports \ {i} : imports'[j] = imports[j]
      BY <1>0, <2>3
    <2> QED
      BY <2>1, <2>2, <2>4, <2>5 DEF Recorded
  <1>8. ASSUME NEW i \in Imports, ImportRecord(i) PROVE Recorded'
    <2>1. imports[i].pc = "record" /\ imports[i] # Idle
      BY <1>0, <1>8 DEF ImportRecord, At
    <2>2. /\ lastApplied' = imports[i].bundle.at
          /\ finished' = finished \union {imports[i].bundle.at}
          /\ slice' = slice
          /\ imports' = [imports EXCEPT ![i] = Idle]
      BY <1>8 DEF ImportRecord
    <2>3. \A j \in Imports : imports'[j] = Idle
      BY <1>0, <2>1, <2>2 DEF OneImport
    <2>4. lastApplied < imports[i].bundle.at /\ slice.at = imports[i].bundle.at
      BY <2>1 DEF Recorded
    <2>5. \A f \in finished' : 0 < f /\ f <= lastApplied'
      BY <1>0, <2>1, <2>2, <2>4 DEF Recorded
    <2> QED
      BY <2>2, <2>3, <2>4, <2>5 DEF Recorded, Idle
  <1>9. ASSUME NEW i \in Imports, ImportFails(i) PROVE Recorded'
    <2>1. imports' = [imports EXCEPT ![i] = Idle] /\ UNCHANGED <<slice, lastApplied, finished>>
      BY <1>9 DEF ImportFails
    <2>2. imports[i].pc \notin {"drop", "record"}
      BY <1>9 DEF ImportFails
    <2> QED
      BY <1>0, <2>1, <2>2 DEF Recorded, Idle
  <1>10. CASE Crash
    BY <1>0, <1>10 DEF Recorded, Crash, Idle
  <1>11. CASE \/ \E n \in Notes : AddAudioNote(n) \/ DeleteAudioNote(n)
              \/ \E x \in Exports : ExportSnapshot(x) \/ ExportBundle(x) \/ ExportFails(x)
    BY <1>1, <1>11
    DEF AddAudioNote, DeleteAudioNote, ExportSnapshot, ExportBundle, ExportFails
  <1> QED
    BY <1>2, <1>4, <1>5, <1>6, <1>7, <1>8, <1>9, <1>10, <1>11 DEF Next

LEMMA BuriedStep ==
  ASSUME TypeOK, OneExport, Buried, Next, OneExport',
         \A b \in bundles, c \in bundles' \ bundles : ~(c.at <= b.at)
  PROVE  Buried'
  <1> USE ReviewAssumption
  <1>0. /\ exports \in [Exports -> {Idle} \union ExportCall]
        /\ own \in [Notes -> {"absent", "live", "tombstoned"}]
        /\ bundles \subseteq Bundle
        /\ \A b \in bundles : b.dead \subseteq Notes
        /\ \A x \in Exports : exports[x] # Idle =>
              exports[x].dead \subseteq Notes /\ exports[x].live \subseteq Notes
    BY DEF TypeOK, Stamps, Bundle, ExportCall
  <1>1. CASE UNCHANGED authorVars
    BY <1>1 DEF Buried, authorVars
  <1>2. ASSUME NEW n \in Notes, AddAudioNote(n) \/ DeleteAudioNote(n) PROVE Buried'
    <2>1. exports' = exports /\ bundles' = bundles
      BY <1>2 DEF AddAudioNote, DeleteAudioNote
    <2>2. \A k \in Notes : own[k] = "tombstoned" => own'[k] = "tombstoned"
      BY <1>0, <1>2 DEF AddAudioNote, DeleteAudioNote
    <2> QED
      BY <1>0, <2>1, <2>2 DEF Buried
  <1>3. ASSUME NEW x \in Exports, ExportSnapshot(x) PROVE Buried'
    <2>1. own' = own /\ bundles' = bundles
      BY <1>3 DEF ExportSnapshot
    <2>2. /\ exports'[x].live = {n \in Notes : own[n] = "live"}
          /\ exports'[x].dead = {n \in Notes : own[n] = "tombstoned"}
          /\ \A y \in Exports \ {x} : exports'[y] = exports[y]
      BY <1>0, <1>3 DEF ExportSnapshot
    <2>3. \A b \in bundles : b.dead \intersect exports'[x].live = {}
      BY <2>2 DEF Buried
    <2> QED
      BY <2>1, <2>2, <2>3 DEF Buried
  <1>4. ASSUME NEW x \in Exports, ExportBundle(x) PROVE Buried'
    <2>p. PICK now \in 1..MaxClock, withPdf \in {FALSE, ~baseShared} :
              bundles' = bundles \union
                    {[at |-> now, live |-> exports[x].live, dead |-> exports[x].dead,
                      pdf |-> withPdf]}
      BY <1>4 DEF ExportBundle
    <2> DEFINE new == [at |-> now, live |-> exports[x].live,
                       dead |-> exports[x].dead, pdf |-> withPdf]
    <2>1. own' = own /\ bundles' = bundles \union {new} /\ exports[x] # Idle
      BY <1>4, <2>p DEF ExportBundle
    <2>2. \A y \in Exports : exports'[y] = Idle
      BY <1>0, <1>4 DEF ExportBundle, OneExport
    <2>3. new.live = exports[x].live /\ new.dead = exports[x].dead
      OBVIOUS
    <2> HIDE DEF new
    <2>4. /\ \A b \in bundles : b.dead \intersect new.live = {}
          /\ new \in bundles \/ \A b \in bundles : ~(new.at <= b.at)
      BY <1>0, <2>1, <2>3 DEF Buried
    <2>5. new.dead \intersect new.live = {} /\ \A n \in new.dead : own[n] = "tombstoned"
      BY <2>1, <2>3 DEF Buried
    <2> QED
      BY <2>1, <2>2, <2>4, <2>5 DEF Buried
  <1>5. ASSUME NEW x \in Exports, ExportFails(x) PROVE Buried'
    BY <1>0, <1>5 DEF Buried, ExportFails
  <1>6. CASE \/ \E i \in Imports :
                   \/ \E b \in bundles : ImportRead(i, b)
                   \/ ImportPut(i) \/ ImportCapture(i) \/ ImportReplace(i)
                   \/ ImportDrop(i) \/ ImportRecord(i) \/ ImportFails(i)
             \/ Crash
    BY <1>1, <1>6 DEF ImportRead, ImportPut, ImportCapture, ImportReplace, ImportDrop,
       ImportRecord, ImportFails, Crash
  <1> QED
    BY <1>2, <1>3, <1>4, <1>5, <1>6 DEF Next

-----------------------------------------------------------------------------
(* The theorems.                                                           *)

LEMMA NextInv == ReviewInv /\ [Next]_vars => ReviewInv'
  <1> SUFFICES ASSUME ReviewInv, [Next]_vars PROVE ReviewInv'
    OBVIOUS
  <1>1. CASE Next
    <2>1. TypeOK' /\ AudioInv' /\ BundleInv'
      BY <1>1, TypeStep, AudioStep, BundleStep DEF ReviewInv
    <2>2. ASSUME ~disturbed' PROVE (OneImport /\ Recorded)'
      <3>1. /\ ~disturbed
            /\ OneImport'
            /\ Crash => \A i \in Imports : imports[i].pc \notin {"drop", "record"}
        BY <1>1, <2>2, Undisturbed DEF ReviewInv
      <3>2. OneImport /\ Recorded
        BY <3>1 DEF ReviewInv, OrderInv
      <3> QED
        BY <1>1, <3>1, <3>2, RecordedStep DEF ReviewInv
    <2>3. ASSUME ~unordered' PROVE (OneExport /\ Buried)'
      <3>1. /\ ~unordered
            /\ OneExport'
            /\ \A b \in bundles, c \in bundles' \ bundles : ~(c.at <= b.at)
        BY <1>1, <2>3, Ordered DEF ReviewInv
      <3>2. OneExport /\ Buried
        BY <3>1 DEF ReviewInv, OrderInv
      <3> QED
        BY <1>1, <3>1, <3>2, BuriedStep DEF ReviewInv
    <2> QED
      BY <2>1, <2>2, <2>3 DEF ReviewInv, OrderInv
  <1>2. CASE UNCHANGED vars
    BY <1>2 DEF vars, ReviewInv, TypeOK, AudioInv, NoDanglingAudio, Held, Dropping,
       BundleInv, OrderInv, OneImport, OneExport, Recorded, Buried
  <1> QED
    BY <1>1, <1>2

\* Every reachable state satisfies the inductive invariant.
THEOREM InductiveInvariant == Spec => []ReviewInv
  BY InitInv, NextInv, PTL DEF Spec

\* Notes, bundles, the slice and the calls in flight keep their shape.
THEOREM TypeCorrect == Spec => []TypeOK
  <1>1. ReviewInv => TypeOK
    BY DEF ReviewInv
  <1> QED
    BY <1>1, InductiveInvariant, PTL

\* importBundle never deletes the audio of a note that is shown, whichever
\* imports overlap, fail or are cut short.
THEOREM AudioIsThere == Spec => []NoDanglingAudio
  <1>1. ReviewInv => NoDanglingAudio
    BY DEF ReviewInv, AudioInv
  <1> QED
    BY <1>1, InductiveInvariant, PTL

\* In whatever order bundles arrive and however often, importBundle ends with
\* the one stamped latest, whatever the clock that stamped them did, unless
\* imports overlapped or one was cut short in the middle.
THEOREM NewestWins == Spec => []ShowsNewest
  <1>1. ASSUME ReviewInv PROVE ShowsNewest
    <2> SUFFICES ASSUME ~disturbed, Importing = {}, finished # {}
                 PROVE  /\ slice.at = Max(finished)
                        /\ lastApplied = slice.at
                        /\ \E b \in bundles : b.at = slice.at /\ b.live = slice.live
                                                              /\ b.dead = slice.dead
      BY DEF ShowsNewest
    <2>1. Recorded /\ BundleInv /\ TypeOK
      BY <1>1 DEF ReviewInv, OrderInv
    <2>2. \A i \in Imports : imports[i] = Idle
      BY DEF Importing
    <2>3. slice.at = lastApplied /\ lastApplied \in finished
      BY <2>1, <2>2 DEF Recorded, Idle
    <2>4. finished \subseteq Nat /\ \A f \in finished : 0 < f /\ f <= lastApplied
      BY <2>1 DEF Recorded, TypeOK, Stamps
    <2>5. Max(finished) = lastApplied
      <3>1. \A f \in finished : lastApplied >= f
        BY <2>3, <2>4
      <3>2. Max(finished) \in finished /\ \A f \in finished : Max(finished) >= f
        BY <2>3, <3>1 DEF Max
      <3>3. Max(finished) >= lastApplied /\ lastApplied >= Max(finished)
        BY <2>3, <3>1, <3>2
      <3>4. Max(finished) \in Nat /\ lastApplied \in Nat
        BY <2>3, <2>4, <3>2
      <3> QED
        BY <3>3, <3>4
    <2>6. slice.at # 0
      BY <2>3, <2>4
    <2> QED
      BY <2>1, <2>3, <2>5, <2>6 DEF BundleInv
  <1> QED
    BY <1>1, InductiveInvariant, PTL

\* No import brings back a note that the slice holds as a tombstone, while the
\* stamps tell the order of the snapshots and the imports are not disturbed.
THEOREM TombstonesHold == Spec => NoResurrection
  <1>1. ASSUME ReviewInv, [Next]_vars, ~disturbed', ~unordered'
        PROVE  slice.dead \intersect slice'.live = {}
    <2>0. TypeOK /\ BundleInv
      BY <1>1 DEF ReviewInv
    <2>1. ~disturbed /\ ~unordered
      BY <1>1, <2>0, Undisturbed, Ordered DEF vars
    <2>2. OneImport /\ Recorded /\ Buried
      BY <1>1, <2>1 DEF ReviewInv, OrderInv
    <2>3. \A b \in bundles : b.at \in Nat /\ b.dead \intersect b.live = {}
      BY <2>0, <2>2 DEF BundleInv, Buried, TypeOK, Bundle, Stamps
    <2>4. CASE slice' = slice
      BY <2>0, <2>3, <2>4 DEF BundleInv
    <2>5. CASE \E i \in Imports : ImportReplace(i)
      <3>1. PICK i \in Imports : ImportReplace(i)
        BY <2>5
      <3>2. imports[i].pc = "replace" /\ imports[i] # Idle /\ slice'.live = imports[i].bundle.live
        BY <2>0, <3>1, InFlightIsCall DEF ImportReplace, At
      <3>3. imports[i].bundle \in bundles /\ lastApplied < imports[i].bundle.at
        BY <2>0, <2>2, <3>2 DEF BundleInv, Recorded
      <3>4. slice.at = lastApplied
        <4>1. \A j \in Imports : imports[j].pc \notin {"drop", "record"}
          BY <2>0, <2>2, <3>2, InFlightIsCall DEF OneImport
        <4> QED
          BY <2>2, <4>1 DEF Recorded
      <3>5. CASE slice.dead = {}
        BY <3>5
      <3>6. CASE \E b \in bundles : b.at = slice.at /\ b.dead = slice.dead
        <4>1. PICK b \in bundles : b.at = slice.at /\ b.dead = slice.dead
          BY <3>6
        <4>2. b.at <= imports[i].bundle.at
          BY <2>3, <3>3, <3>4, <4>1
        <4> QED
          BY <2>2, <3>2, <3>3, <4>1, <4>2 DEF Buried
      <3> QED
        BY <2>0, <3>5, <3>6 DEF BundleInv
    <2> QED
      BY <1>1, <2>4, <2>5 DEF Next, vars, AddAudioNote, DeleteAudioNote, ExportSnapshot,
         ExportBundle, ExportFails, ImportRead, ImportPut, ImportCapture, ImportDrop,
         ImportRecord, ImportFails, Crash, receiverVars
  <1> QED
    BY <1>1, InductiveInvariant, PTL DEF Spec, NoResurrection

=============================================================================
