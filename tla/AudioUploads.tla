------------------------------ MODULE AudioUploads ------------------------------
(***************************************************************************)
(* The upload path of audio notes on one device: CloudAudioAssetStore      *)
(* (put, delete, drainUploads) over the persisted AudioUploadQueue         *)
(* (apps/duet/lib/data).                                                   *)
(*                                                                         *)
(* Dart runs one event at a time; whatever stands between two awaits is a  *)
(* step, and steps of several puts, one drain and several deletes          *)
(* interleave.  The app may be killed at any time: the queue and the files *)
(* survive, everything in flight is lost.                                  *)
(*                                                                         *)
(* The persisted list of tasks is the set of queued assets with their      *)
(* attempt counts.  A drain uploads the tasks of its snapshot in some      *)
(* order: nothing here depends on which.                                   *)
(***************************************************************************)
EXTENDS Naturals

CONSTANTS
    Assets,         \* recordings, one fresh asset id each
    MaxAttempts     \* AudioUploadQueue's maxAttempts

ASSUME MaxAttemptsAssumption == MaxAttempts \in Nat \ {0}

VARIABLES
    puts,           \* puts[a]: how far put has come with recording a
    deletes,        \* deletes[a]: how far delete has come with asset a
    files,          \* assets with a file in the audio_notes cache
    remote,         \* assets with an object in Cloud Storage
    queued,         \* assets with a task in the persisted queue
    attempts,       \* attempts[a]: the attempt count of a's task
    draining,       \* the queue's _draining flag
    todo,           \* the tasks of the running drain not tried yet
    uploading,      \* the task being uploaded: at most one
    retried,        \* the drain's replacements: failed, to be kept
    dropped,        \* the drain's dropped set: uploaded or given up
    landed,         \* history: assets uploaded at least once
    gaveUp,         \* history: assets dropped from the queue without an upload
    failures        \* history: failed uploads, counted up to MaxAttempts

queueVars == <<queued, attempts>>
drainVars == <<draining, todo, uploading, retried, dropped>>
storeVars == <<puts, deletes, files, remote>>
historyVars == <<landed, gaveUp, failures>>
vars == <<storeVars, queueVars, drainVars, historyVars>>

PutStep == {"none", "copied", "queued", "done", "lost"}
DeleteStep == {"none", "remote", "done"}

Init ==
    /\ puts = [a \in Assets |-> "none"]
    /\ deletes = [a \in Assets |-> "none"]
    /\ files = {} /\ remote = {}
    /\ queued = {} /\ attempts = [a \in Assets |-> 0]
    /\ draining = FALSE /\ todo = {} /\ uploading = {} /\ retried = {} /\ dropped = {}
    /\ landed = {} /\ gaveUp = {} /\ failures = [a \in Assets |-> 0]

-----------------------------------------------------------------------------
(* put: copy the recording into the cache, enqueue it, kick a drain.       *)

\* Mutant: the put is marked as finished at once.
MutantPutCopyFinished(a) ==
    /\ puts[a] = "none"
    /\ puts' = [puts EXCEPT ![a] = "finished"]
    /\ files' = files \union {a}
    /\ UNCHANGED <<deletes, remote, queueVars, drainVars, historyVars>>

PutCopy(a) ==
    /\ puts[a] = "none"
    /\ puts' = [puts EXCEPT ![a] = "copied"]
    /\ files' = files \union {a}
    /\ UNCHANGED <<deletes, remote, queueVars, drainVars, historyVars>>

\* enqueue: load the queue, append the task unless it has one, save.
PutEnqueue(a) ==
    /\ puts[a] = "copied"
    /\ puts' = [puts EXCEPT ![a] = "queued"]
    /\ queued' = queued \union {a}
    /\ attempts' = IF a \in queued THEN attempts ELSE [attempts EXCEPT ![a] = 0]
    /\ UNCHANGED <<deletes, files, remote, drainVars, historyVars>>

\* unawaited(drainUploads()): a drain starts on a snapshot of the queue,
\* unless one is running.  This is the only place that starts one.
PutKick(a) ==
    /\ puts[a] = "queued"
    /\ puts' = [puts EXCEPT ![a] = "done"]
    /\ IF draining
         THEN UNCHANGED drainVars
         ELSE /\ draining' = TRUE /\ todo' = queued
              /\ uploading' = {} /\ retried' = {} /\ dropped' = {}
    /\ UNCHANGED <<deletes, files, remote, queueVars, historyVars>>

-----------------------------------------------------------------------------
(* drain: try every task of the snapshot, then reconcile.                  *)

\* The next task goes to the object store, which opens its local file; a file
\* that delete has evicted fails the upload.
UploadStart(a) ==
    /\ uploading = {}
    /\ a \in todo /\ a \in files
    /\ todo' = todo \ {a}
    /\ uploading' = {a}
    /\ UNCHANGED <<storeVars, queueVars, draining, retried, dropped, historyVars>>

UploadSucceeds(a) ==
    /\ a \in uploading
    /\ remote' = remote \union {a}
    /\ landed' = landed \union {a}
    /\ uploading' = {}
    /\ dropped' = dropped \union {a}
    /\ UNCHANGED <<puts, deletes, files, queueVars, draining, todo, retried, gaveUp, failures>>

\* Mutant: one attempt too few.
MutantAttemptsShort(a) == attempts[a] + 2 < MaxAttempts

\* Mutant: one attempt too many.
MutantAttemptsLong(a) == attempts[a] + 1 <= MaxAttempts

\* The test of the retried copy against maxAttempts.
HasAttemptsLeft(a) == attempts[a] + 1 < MaxAttempts

\* The upload of a fails: the task is kept with one attempt more, or given up.
UploadFails(a) ==
    /\ \/ a \in uploading
       \/ uploading = {} /\ a \in todo /\ a \notin files
    /\ todo' = todo \ {a}
    /\ uploading' = {}
    /\ failures' = [failures EXCEPT ![a] = IF @ < MaxAttempts THEN @ + 1 ELSE @]
    /\ IF HasAttemptsLeft(a)
         THEN retried' = retried \union {a} /\ UNCHANGED dropped
         ELSE dropped' = dropped \union {a} /\ UNCHANGED retried
    /\ UNCHANGED <<storeVars, queueVars, draining, landed, gaveUp>>

\* Mutant: the save rebuilds the queue from the drain's own tasks only.
MutantReconcileFromSnapshot ==
    /\ draining
    /\ todo = {} /\ uploading = {}
    /\ queued' = retried
    /\ attempts' = [a \in Assets |-> IF a \in retried THEN attempts[a] + 1 ELSE attempts[a]]
    /\ draining' = FALSE
    /\ retried' = {} /\ dropped' = {}
    /\ gaveUp' = gaveUp \union (dropped \ landed)
    /\ UNCHANGED <<storeVars, todo, uploading, landed, failures>>

\* Mutant: a drain with nothing to drop returns early and keeps its flag.
MutantReconcileEarlyReturn ==
    /\ draining
    /\ todo = {} /\ uploading = {}
    /\ dropped # {}
    /\ queued' = queued \ dropped
    /\ attempts' = [a \in Assets |-> IF a \in retried THEN attempts[a] + 1 ELSE attempts[a]]
    /\ draining' = FALSE
    /\ retried' = {} /\ dropped' = {}
    /\ gaveUp' = gaveUp \union (dropped \ landed)
    /\ UNCHANGED <<storeVars, todo, uploading, landed, failures>>

\* The queue is loaded again and saved without the dropped tasks and with the
\* retried copies: tasks enqueued since the snapshot stay as they are.
Reconcile ==
    /\ draining
    /\ todo = {} /\ uploading = {}
    /\ queued' = queued \ dropped
    /\ attempts' = [a \in Assets |-> IF a \in retried THEN attempts[a] + 1 ELSE attempts[a]]
    /\ draining' = FALSE
    /\ retried' = {} /\ dropped' = {}
    /\ gaveUp' = gaveUp \union (dropped \ landed)
    /\ UNCHANGED <<storeVars, todo, uploading, landed, failures>>

-----------------------------------------------------------------------------
(* delete: remove the remote object, best effort, then the cached file.    *)
(* A pending upload task is left in the queue.                             *)

DeleteRemote(a) ==
    /\ puts[a] = "done"
    /\ deletes[a] = "none"
    /\ deletes' = [deletes EXCEPT ![a] = "remote"]
    /\ remote' = remote \ {a} \/ UNCHANGED remote
    /\ UNCHANGED <<puts, files, queueVars, drainVars, historyVars>>

DeleteLocal(a) ==
    /\ deletes[a] = "remote"
    /\ deletes' = [deletes EXCEPT ![a] = "done"]
    /\ files' = files \ {a}
    /\ UNCHANGED <<puts, remote, queueVars, drainVars, historyVars>>

-----------------------------------------------------------------------------
\* The app is killed and started again: the puts, the deletes and the drain in
\* flight are gone.  A put cut short has no note that refers to it.
Restart ==
    /\ puts' = [a \in Assets |-> IF puts[a] \in {"copied", "queued"} THEN "lost" ELSE puts[a]]
    /\ deletes' = [a \in Assets |-> IF deletes[a] = "remote" THEN "none" ELSE deletes[a]]
    /\ draining' = FALSE /\ todo' = {} /\ uploading' = {} /\ retried' = {} /\ dropped' = {}
    /\ UNCHANGED <<files, remote, queueVars, historyVars>>

AssetStep(a) ==
    \/ PutCopy(a) \/ PutEnqueue(a) \/ PutKick(a)
    \/ UploadStart(a) \/ UploadSucceeds(a) \/ UploadFails(a)
    \/ DeleteRemote(a) \/ DeleteLocal(a)

Next ==
    \/ \E a \in Assets : AssetStep(a)
    \/ Reconcile
    \/ Restart

Spec == Init /\ [][Next]_vars

\* The event loop keeps running what is scheduled: a put goes on, a drain goes
\* on, and every upload ends, one way or the other.
Fairness ==
    /\ WF_vars(Reconcile)
    /\ \A a \in Assets :
          /\ WF_vars(PutEnqueue(a)) /\ WF_vars(PutKick(a))
          /\ WF_vars(UploadStart(a)) /\ WF_vars(UploadSucceeds(a) \/ UploadFails(a))

FairSpec == Spec /\ Fairness

-----------------------------------------------------------------------------
(* Properties.                                                             *)

\* The store, the queue and the running drain keep their types.
TypeOK ==
    /\ puts \in [Assets -> PutStep]
    /\ deletes \in [Assets -> DeleteStep]
    /\ files \in SUBSET Assets /\ remote \in SUBSET Assets
    /\ queued \in SUBSET Assets /\ attempts \in [Assets -> Nat]
    /\ draining \in BOOLEAN /\ todo \in SUBSET Assets /\ uploading \in SUBSET Assets
    /\ retried \in SUBSET Assets /\ dropped \in SUBSET Assets
    /\ landed \in SUBSET Assets /\ gaveUp \in SUBSET Assets
    /\ failures \in [Assets -> Nat]

\* A recording that put has saved in the queue never just disappears from it,
\* whatever drain runs at the same time and wherever the app is killed: it is
\* queued, it has been uploaded, or it was given up after a failed upload.
NothingVanishes ==
    \A a \in Assets :
        puts[a] \in {"queued", "done"} => a \in queued \union landed \union gaveUp

\* A recording is given up only after MaxAttempts uploads of it really failed:
\* the counter that a restart can lose is never ahead of the failures.
GiveUpIsEarned ==
    \A a \in gaveUp : failures[a] >= MaxAttempts

\* A task in the queue has an attempt left, so every drain tries it: no task is
\* stuck in the queue with its attempts spent.
QueuedHasAttempts ==
    \A a \in queued : attempts[a] < MaxAttempts

\* Every drain ends and gives the _draining flag back, whatever its uploads do:
\* a flag that stayed up would end all uploads until the next start of the app.
DrainEnds == draining ~> ~draining

\* The header of CloudAudioAssetStore: a note recorded offline stays queued and
\* uploads when a drain next runs, on connectivity or app start.  So a recording
\* that put has finished with does not wait in the queue for ever.
QueuedIsResolved ==
    \A a \in Assets :
        (puts[a] = "done" /\ a \in queued) ~> (a \notin queued \/ deletes[a] # "none")

=============================================================================
