-------------------------- MODULE AudioUploadsProofs --------------------------
(***************************************************************************)
(* Proofs about AudioUploads, for any set of recordings and any            *)
(* maxAttempts.                                                            *)
(***************************************************************************)
EXTENDS AudioUploads, TLAPS

\* What the running drain knows of the queue it will reconcile with: the tasks
\* it still has to try, the one it uploads and the ones it will keep are all
\* queued and it has not settled them, a kept one has attempts left, and a
\* dropped one was uploaded or failed often enough.
DrainConsistent ==
    /\ todo \union uploading \union retried \subseteq queued
    /\ todo \intersect uploading = {}
    /\ (todo \union uploading) \intersect (retried \union dropped) = {}
    /\ \A a \in retried : attempts[a] + 1 < MaxAttempts /\ attempts[a] + 1 <= failures[a]
    /\ \A a \in dropped : a \in landed \/ failures[a] >= MaxAttempts
    /\ \A a, b \in uploading : a = b

\* The attempt count of a queued task is never ahead of its failures.
AttemptsCovered ==
    \A a \in queued : attempts[a] <= failures[a]

\* The inductive invariant.
IInv ==
    /\ TypeOK
    /\ DrainConsistent
    /\ AttemptsCovered
    /\ NothingVanishes
    /\ GiveUpIsEarned
    /\ QueuedHasAttempts

\* The invariant holds with an empty queue.
LEMMA InitIInv == Init => IInv
  <1> SUFFICES ASSUME Init PROVE IInv
    OBVIOUS
  <1>1. TypeOK
    BY DEF Init, TypeOK, PutStep, DeleteStep
  <1>2. NothingVanishes
    BY DEF Init, NothingVanishes
  <1>3. DrainConsistent /\ AttemptsCovered /\ GiveUpIsEarned /\ QueuedHasAttempts
    BY DEF Init, DrainConsistent, AttemptsCovered, GiveUpIsEarned, QueuedHasAttempts
  <1> QED
    BY <1>1, <1>2, <1>3 DEF IInv

\* Every step keeps the invariant.
LEMMA NextIInv == IInv /\ [Next]_vars => IInv'
  <1> SUFFICES ASSUME IInv, [Next]_vars
               PROVE  IInv'
    OBVIOUS
  <1> USE MaxAttemptsAssumption
      DEF IInv, storeVars, queueVars, drainVars, historyVars
  <1>1. ASSUME NEW a \in Assets, PutCopy(a)
        PROVE  IInv'
    <2>1. TypeOK'
      BY <1>1 DEF PutCopy, TypeOK, PutStep
    <2>2. NothingVanishes'
      BY <1>1 DEF PutCopy, TypeOK, NothingVanishes
    <2> QED
      BY <1>1, <2>1, <2>2
      DEF PutCopy, DrainConsistent, AttemptsCovered, GiveUpIsEarned, QueuedHasAttempts
  <1>2. ASSUME NEW a \in Assets, PutEnqueue(a)
        PROVE  IInv'
    <2>1. TypeOK'
      BY <1>2 DEF PutEnqueue, TypeOK, PutStep
    <2>2. NothingVanishes'
      BY <1>2 DEF PutEnqueue, TypeOK, NothingVanishes
    <2>3. \A b \in queued : attempts'[b] = attempts[b]
      BY <1>2 DEF PutEnqueue, TypeOK
    <2>4. a \notin queued => attempts'[a] = 0
      BY <1>2 DEF PutEnqueue, TypeOK
    <2>5. DrainConsistent'
      BY <1>2, <2>3 DEF PutEnqueue, DrainConsistent
    <2>6. AttemptsCovered'
      BY <1>2, <2>3, <2>4 DEF PutEnqueue, AttemptsCovered, TypeOK
    <2>7. QueuedHasAttempts'
      BY <1>2, <2>3, <2>4 DEF PutEnqueue, QueuedHasAttempts, TypeOK
    <2> QED
      BY <1>2, <2>1, <2>2, <2>5, <2>6, <2>7 DEF PutEnqueue, GiveUpIsEarned
  <1>3. ASSUME NEW a \in Assets, PutKick(a)
        PROVE  IInv'
    <2>1. TypeOK'
      BY <1>3 DEF PutKick, TypeOK, PutStep
    <2>2. NothingVanishes'
      BY <1>3 DEF PutKick, TypeOK, NothingVanishes
    <2>3. DrainConsistent'
      BY <1>3 DEF PutKick, DrainConsistent
    <2> QED
      BY <1>3, <2>1, <2>2, <2>3
      DEF PutKick, AttemptsCovered, GiveUpIsEarned, QueuedHasAttempts
  <1>4. ASSUME NEW a \in Assets, UploadStart(a)
        PROVE  IInv'
    <2>1. TypeOK'
      BY <1>4 DEF UploadStart, TypeOK
    <2>2. DrainConsistent'
      BY <1>4 DEF UploadStart, DrainConsistent
    <2> QED
      BY <1>4, <2>1, <2>2
      DEF UploadStart, AttemptsCovered, NothingVanishes, GiveUpIsEarned, QueuedHasAttempts
  <1>5. ASSUME NEW a \in Assets, UploadSucceeds(a)
        PROVE  IInv'
    <2>1. TypeOK'
      BY <1>5 DEF UploadSucceeds, TypeOK
    <2>2. DrainConsistent'
      BY <1>5 DEF UploadSucceeds, DrainConsistent
    <2> QED
      BY <1>5, <2>1, <2>2
      DEF UploadSucceeds, AttemptsCovered, NothingVanishes, GiveUpIsEarned,
          QueuedHasAttempts
  <1>6. ASSUME NEW a \in Assets, UploadFails(a)
        PROVE  IInv'
    <2>1. TypeOK'
      BY <1>6 DEF UploadFails, TypeOK
    <2>2. a \in queued /\ a \notin retried \union dropped /\ a \in todo \union uploading
      BY <1>6 DEF UploadFails, DrainConsistent
    <2>3. /\ \A b \in Assets \ {a} : failures'[b] = failures[b]
          /\ failures'[a] = IF failures[a] < MaxAttempts THEN failures[a] + 1 ELSE failures[a]
      BY <1>6 DEF UploadFails, TypeOK
    <2>4. attempts[a] \in Nat /\ failures[a] \in Nat /\ attempts[a] <= failures[a]
      BY <2>2 DEF TypeOK, AttemptsCovered
    <2>5. \A b \in Assets : failures[b] \in Nat /\ failures'[b] \in Nat
                            /\ failures[b] <= failures'[b]
      BY <2>1, <2>3 DEF TypeOK
    <2>6. todo' \union uploading' \subseteq todo \union uploading /\ a \notin todo' \union uploading'
      BY <1>6 DEF UploadFails, DrainConsistent
    <2>7. DrainConsistent'
      <3>1. CASE HasAttemptsLeft(a)
        <4>1. attempts[a] + 1 < MaxAttempts /\ attempts[a] + 1 <= failures'[a]
          BY <2>3, <2>4, <3>1 DEF HasAttemptsLeft
        <4>2. retried' = retried \union {a} /\ dropped' = dropped
          BY <1>6, <3>1 DEF UploadFails
        <4> QED
          BY <1>6, <2>2, <2>5, <2>6, <4>1, <4>2 DEF UploadFails, DrainConsistent, TypeOK
      <3>2. CASE ~HasAttemptsLeft(a)
        <4>1. failures'[a] >= MaxAttempts
          BY <2>3, <2>4, <3>2 DEF HasAttemptsLeft
        <4>2. retried' = retried /\ dropped' = dropped \union {a}
          BY <1>6, <3>2 DEF UploadFails
        <4> QED
          BY <1>6, <2>2, <2>5, <2>6, <4>1, <4>2 DEF UploadFails, DrainConsistent, TypeOK
      <3> QED
        BY <3>1, <3>2
    <2>8. AttemptsCovered'
      BY <1>6, <2>5 DEF UploadFails, AttemptsCovered, TypeOK
    <2>9. GiveUpIsEarned'
      BY <1>6, <2>5 DEF UploadFails, GiveUpIsEarned, TypeOK
    <2> QED
      BY <1>6, <2>1, <2>7, <2>8, <2>9 DEF UploadFails, NothingVanishes, QueuedHasAttempts
  <1>7. CASE Reconcile
    <2>1. TypeOK'
      <3>1. attempts' \in [Assets -> Nat]
        BY <1>7 DEF Reconcile, TypeOK
      <3>2. draining' \in BOOLEAN
        BY <1>7 DEF Reconcile
      <3> QED
        BY <1>7, <3>1, <3>2 DEF Reconcile, TypeOK
    <2>2. \A a \in Assets :
             attempts'[a] = IF a \in retried THEN attempts[a] + 1 ELSE attempts[a]
      BY <1>7 DEF Reconcile
    <2>3. DrainConsistent'
      BY <1>7 DEF Reconcile, DrainConsistent
    <2>4. AttemptsCovered'
      BY <1>7, <2>2 DEF Reconcile, AttemptsCovered, DrainConsistent, TypeOK
    <2>5. NothingVanishes'
      BY <1>7 DEF Reconcile, NothingVanishes
    <2>6. GiveUpIsEarned'
      BY <1>7 DEF Reconcile, GiveUpIsEarned, DrainConsistent
    <2>7. QueuedHasAttempts'
      BY <1>7, <2>2 DEF Reconcile, QueuedHasAttempts, DrainConsistent, TypeOK
    <2> QED
      BY <2>1, <2>3, <2>4, <2>5, <2>6, <2>7
  <1>8. ASSUME NEW a \in Assets, DeleteRemote(a)
        PROVE  IInv'
    BY <1>8
    DEF DeleteRemote, TypeOK, DeleteStep, DrainConsistent, AttemptsCovered,
        NothingVanishes, GiveUpIsEarned, QueuedHasAttempts
  <1>9. ASSUME NEW a \in Assets, DeleteLocal(a)
        PROVE  IInv'
    BY <1>9
    DEF DeleteLocal, TypeOK, DeleteStep, DrainConsistent, AttemptsCovered,
        NothingVanishes, GiveUpIsEarned, QueuedHasAttempts
  <1>10. CASE Restart
    <2>1. TypeOK'
      BY <1>10 DEF Restart, TypeOK, PutStep, DeleteStep
    <2>2. NothingVanishes'
      BY <1>10 DEF Restart, TypeOK, NothingVanishes
    <2>3. DrainConsistent'
      BY <1>10 DEF Restart, DrainConsistent
    <2> QED
      BY <1>10, <2>1, <2>2, <2>3
      DEF Restart, AttemptsCovered, GiveUpIsEarned, QueuedHasAttempts
  <1>11. CASE UNCHANGED vars
    BY <1>11
    DEF vars, TypeOK, DrainConsistent, AttemptsCovered, NothingVanishes,
        GiveUpIsEarned, QueuedHasAttempts
  <1> QED
    BY <1>1, <1>2, <1>3, <1>4, <1>5, <1>6, <1>7, <1>8, <1>9, <1>10, <1>11
    DEF Next, AssetStep

\* Every reachable state satisfies the inductive invariant.
THEOREM InductiveInvariant == Spec => []IInv
  BY InitIInv, NextIInv, PTL DEF Spec

\* The type invariant of the upload model.
THEOREM TypeCorrect == Spec => []TypeOK
  <1>1. IInv => TypeOK
    BY DEF IInv
  <1> QED
    BY <1>1, InductiveInvariant, PTL

\* No recording that reached the queue vanishes from it: an enqueue that races a
\* drain survives the drain's save, and a restart at any point loses no task.
THEOREM RacingEnqueueSurvives == Spec => []NothingVanishes
  <1>1. IInv => NothingVanishes
    BY DEF IInv
  <1> QED
    BY <1>1, InductiveInvariant, PTL

\* No recording is given up before maxAttempts uploads of it have failed.
THEOREM NoEarlyGiveUp == Spec => []GiveUpIsEarned
  <1>1. IInv => GiveUpIsEarned
    BY DEF IInv
  <1> QED
    BY <1>1, InductiveInvariant, PTL

\* No task stays in the queue with its attempts spent.
THEOREM NoExhaustedTask == Spec => []QueuedHasAttempts
  <1>1. IInv => QueuedHasAttempts
    BY DEF IInv
  <1> QED
    BY <1>1, InductiveInvariant, PTL

=============================================================================
