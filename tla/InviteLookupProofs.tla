-------------------------- MODULE InviteLookupProofs --------------------------
(***************************************************************************)
(* Proofs about LookupRateLimit and InviteLookup, for any limit, window,   *)
(* addresses and accounts, and any number of calls under way.              *)
(*                                                                         *)
(* The budget: two windows that enforceRateLimit starts are a window       *)
(* apart, and one of any RateLimit lookups in a row starts a window.       *)
(* Twice the limit in a row so meet two starts.  That a commit cannot      *)
(* write an old time rests on the document growing with every commit, so   *)
(* that an unchanged document means no commit at all.                      *)
(*                                                                         *)
(* The sheet: while no lookup has answered into a sending sheet, one call  *)
(* sends at a time, the address and the account on the screen stay what    *)
(* was confirmed, and the status to fall back to stays true.               *)
(***************************************************************************)
EXTENDS InviteLookup, FiniteSetTheorems, TLAPS

-----------------------------------------------------------------------------
(* The budget.                                                             *)

Size == Len(admitted)

\* The clock is past the first window, and so is every reading of it.
Times ==
    /\ WindowMs <= now
    /\ \A c \in Calls : phase[c] = "read" => tx[c].now \in WindowMs..now

\* A transaction has read the document or an earlier state of it, and the
\* document only with a clock not behind any lookup let through.
Reading ==
    \A c \in Calls : phase[c] = "read" =>
        \/ tx[c].windowStart < windowStart
        \/ tx[c].windowStart = windowStart /\ tx[c].count < count
        \/ /\ Unchanged(c)
           /\ \A i \in 1..Size : admitted[i] <= tx[c].now

\* The document counts the lookups since the last start of a window.
Counting ==
    IF Size = 0
    THEN windowStart = 0 /\ count = 0
    ELSE /\ count \in 1..Size
         /\ Size - count + 1 \in starts
         /\ windowStart = admitted[Size - count + 1]
         /\ \A k \in starts : k <= Size - count + 1

InOrder ==
    \A i, j \in 1..Size : i <= j => admitted[i] <= admitted[j]

\* Two starts are a window apart.
Apart ==
    \A j, k \in starts : j < k => admitted[k] - admitted[j] >= WindowMs

\* One of any RateLimit lookups in a row starts a window.
Often ==
    \A i \in 0..Size : i + RateLimit <= Size =>
        \E k \in starts : i < k /\ k <= i + RateLimit

RateInv ==
    RateTypeOK /\ Times /\ Reading /\ Counting /\ InOrder /\ Apart /\ Often

-----------------------------------------------------------------------------
LEMMA RateInitInv == RateInit => RateInv
BY RateAssumption
   DEF RateInit, RateInv, RateTypeOK, Times, Reading, Counting, InOrder, Apart,
       Often, Size, Phases, Snapshots, NoTx

\* Steps that leave the document and the history alone.
LEMMA QuietInv ==
    ASSUME RateInv, UNCHANGED <<windowStart, count, admitted, starts>>,
           now' \in 0..MaxNow, now <= now',
           phase' \in [Calls -> Phases], tx' \in [Calls -> Snapshots],
           \A c \in Calls : phase'[c] = "read" =>
              \/ phase[c] = "read" /\ tx'[c] = tx[c]
              \/ /\ tx'[c].windowStart = windowStart
                 /\ tx'[c].count = count
                 /\ tx'[c].now = now
    PROVE  RateInv'
<1>1. RateTypeOK'
  <2>1. admitted' \in Seq(0..now')
    BY RateAssumption DEF RateInv, RateTypeOK
  <2> QED BY <2>1, RateAssumption DEF RateInv, RateTypeOK
<1>2. Times'
  <2>1. now \in Int /\ now' \in Int /\ WindowMs \in Int /\ WindowMs <= now
    BY RateAssumption DEF RateInv, RateTypeOK, Times
  <2>2. \A c \in Calls : phase'[c] = "read" => tx'[c].now \in WindowMs..now
    BY <2>1 DEF RateInv, Times
  <2> QED BY <2>1, <2>2 DEF Times
<1>3. Reading'
  <2> SUFFICES ASSUME NEW c \in Calls, phase'[c] = "read"
               PROVE  \/ tx'[c].windowStart < windowStart
                      \/ tx'[c].windowStart = windowStart /\ tx'[c].count < count
                      \/ /\ tx'[c].windowStart = windowStart /\ tx'[c].count = count
                         /\ \A i \in 1..Size : admitted[i] <= tx'[c].now
    BY DEF Reading, Unchanged, Size
  <2>1. CASE phase[c] = "read" /\ tx'[c] = tx[c]
    BY <2>1 DEF RateInv, Reading, Unchanged
  <2>2. CASE /\ tx'[c].windowStart = windowStart
             /\ tx'[c].count = count
             /\ tx'[c].now = now
    BY <2>2 DEF RateInv, RateTypeOK, Size
  <2> QED BY <2>1, <2>2
<1>4. Counting' /\ InOrder' /\ Apart' /\ Often'
  BY DEF RateInv, Counting, InOrder, Apart, Often, Size
<1> QED BY <1>1, <1>2, <1>3, <1>4 DEF RateInv

\* What a commit that lets its call through has read.
LEMMA AdmitFacts ==
    ASSUME RateInv, NEW c \in Calls, phase[c] = "read", Unchanged(c)
    PROVE  /\ tx[c].now \in WindowMs..now
           /\ tx[c].windowStart = windowStart /\ tx[c].count = count
           /\ \A i \in 1..Size : admitted[i] <= tx[c].now
<1>1. tx[c].now \in WindowMs..now
  BY DEF RateInv, Times
<1>2. windowStart \in Int /\ count \in Int
  BY RateAssumption DEF RateInv, RateTypeOK
<1> QED BY <1>1, <1>2 DEF RateInv, Reading, Unchanged

\* The history after a call has been let through.
LEMMA AppendFacts ==
    ASSUME RateInv, NEW t \in 0..now, admitted' = Append(admitted, t)
    PROVE  /\ Size \in Nat
           /\ Size' = Size + 1
           /\ admitted'[Size + 1] = t
           /\ \A i \in 1..Size : admitted'[i] = admitted[i]
           /\ \A i \in 1..Size : admitted[i] \in 0..now
           /\ admitted' \in Seq(0..now)
BY RateAssumption DEF RateInv, RateTypeOK, Size

LEMMA StartsInv ==
    ASSUME RateInv, NEW c \in Calls, StartsWindow(c)
    PROVE  RateInv'
<1> DEFINE t == tx[c].now
<1> USE DEF StartsWindow, Admit
<1>1. /\ t \in WindowMs..now
      /\ tx[c].windowStart = windowStart /\ tx[c].count = count
      /\ \A i \in 1..Size : admitted[i] <= t
  BY AdmitFacts
<1>2. t - windowStart >= WindowMs
  BY <1>1 DEF Expired
<1>3. /\ Size \in Nat
      /\ Size' = Size + 1
      /\ admitted'[Size + 1] = t
      /\ \A i \in 1..Size : admitted'[i] = admitted[i]
      /\ \A i \in 1..Size : admitted[i] \in 0..now
      /\ admitted' \in Seq(0..now)
  <2>1. t \in 0..now
    BY <1>1, RateAssumption DEF RateInv, RateTypeOK
  <2> HIDE DEF t
  <2>2. admitted' = Append(admitted, t)
    BY DEF t
  <2> QED BY <2>1, <2>2, AppendFacts
<1>4. now' = now /\ windowStart' = t /\ count' = 1
      /\ starts' = starts \union {Size + 1}
  BY DEF Size
<1>5. phase' \in [Calls -> Phases] /\ tx' \in [Calls -> Snapshots]
  BY DEF RateInv, RateTypeOK, Phases, Snapshots, NoTx
<1>6. starts \subseteq 1..Size
  BY DEF RateInv, RateTypeOK, Size
<1>7. \A d \in Calls : phase'[d] = "read" =>
          d # c /\ phase[d] = "read" /\ tx'[d] = tx[d]
  BY DEF RateInv, RateTypeOK
<1> HIDE DEF StartsWindow, Admit, t
<1>t. RateTypeOK'
  <2>1. now \in 0..MaxNow /\ t \in 0..now /\ 1 \in 0..RateLimit
    BY <1>1, RateAssumption DEF RateInv, RateTypeOK
  <2>2. starts' \subseteq 1..Size'
    BY <1>3, <1>4, <1>6
  <2> QED BY <2>1, <2>2, <1>3, <1>4, <1>5 DEF RateTypeOK, Size
<1>u. Times'
  BY <1>4, <1>7 DEF RateInv, Times
<1>v. Reading'
  <2> SUFFICES ASSUME NEW d \in Calls, phase'[d] = "read"
               PROVE  tx'[d].windowStart < windowStart'
    BY DEF Reading
  <2>0. tx[d] \in Snapshots /\ windowStart \in 0..now
    BY DEF RateInv, RateTypeOK
  <2>1. tx[d].windowStart <= windowStart /\ tx[d].windowStart \in Nat
    <3>1. tx[d].windowStart \in Nat /\ windowStart \in Int
      BY <2>0 DEF Snapshots
    <3>2. tx[d].windowStart < windowStart \/ tx[d].windowStart = windowStart
      BY <1>7 DEF RateInv, Reading, Unchanged
    <3> QED BY <3>1, <3>2
  <2> QED BY <2>1, <1>1, <1>2, <1>4, <1>7, RateAssumption DEF RateInv, RateTypeOK
<1>w. Counting'
  <2>1. Size' - count' + 1 = Size + 1
    BY <1>3, <1>4
  <2> QED BY <2>1, <1>3, <1>4, <1>6 DEF Counting
<1>x. InOrder'
  BY <1>1, <1>3 DEF RateInv, InOrder
<1>y. Apart'
  <2> SUFFICES ASSUME NEW j \in starts', NEW k \in starts', j < k
               PROVE  admitted'[k] - admitted'[j] >= WindowMs
    BY DEF Apart
  <2>1. j \in starts /\ j \in 1..Size
    BY <1>3, <1>4, <1>6
  <2>2. CASE k \in starts
    BY <2>1, <2>2, <1>3, <1>6 DEF RateInv, Apart
  <2>3. CASE k = Size + 1
    <3>1. admitted[j] <= windowStart
      BY <2>1, <1>3 DEF RateInv, Counting, InOrder
    <3>2. admitted'[k] = t /\ admitted'[j] = admitted[j]
      BY <2>1, <2>3, <1>3
    <3>3. /\ t \in Int /\ windowStart \in Int /\ WindowMs \in Int
          /\ admitted[j] \in Int
      BY <2>1, <1>1, <1>3, RateAssumption DEF RateInv, RateTypeOK
    <3> QED BY <3>1, <3>2, <3>3, <1>2
  <2> QED BY <2>2, <2>3, <1>4
<1>z. Often'
  <2> SUFFICES ASSUME NEW i \in 0..(Size + 1), i + RateLimit <= Size + 1
               PROVE  \E k \in starts' : i < k /\ k <= i + RateLimit
    BY <1>3 DEF Often
  <2>1. CASE i + RateLimit <= Size
    BY <2>1, <1>3, <1>4, RateAssumption DEF RateInv, Often
  <2>2. CASE i + RateLimit = Size + 1
    <3>1. Size + 1 \in starts'
      BY <1>4
    <3>2. i < Size + 1 /\ Size + 1 <= i + RateLimit
      BY <2>2, <1>3, RateAssumption
    <3> QED BY <3>1, <3>2
  <2> QED BY <2>1, <2>2, <1>3, RateAssumption
<1> QED BY <1>t, <1>u, <1>v, <1>w, <1>x, <1>y, <1>z DEF RateInv

LEMMA CountsInv ==
    ASSUME RateInv, NEW c \in Calls, CountsInWindow(c)
    PROVE  RateInv'
<1> DEFINE t == tx[c].now
<1> USE DEF CountsInWindow, Admit
<1>1. /\ t \in WindowMs..now
      /\ tx[c].windowStart = windowStart /\ tx[c].count = count
      /\ \A i \in 1..Size : admitted[i] <= t
  BY AdmitFacts
<1>2. t - windowStart < WindowMs /\ count < RateLimit
  BY <1>1, RateAssumption DEF Expired, RateInv, RateTypeOK
<1>3. /\ Size \in Nat
      /\ Size' = Size + 1
      /\ admitted'[Size + 1] = t
      /\ \A i \in 1..Size : admitted'[i] = admitted[i]
      /\ \A i \in 1..Size : admitted[i] \in 0..now
      /\ admitted' \in Seq(0..now)
  <2>1. t \in 0..now
    BY <1>1, RateAssumption DEF RateInv, RateTypeOK
  <2> HIDE DEF t
  <2>2. admitted' = Append(admitted, t)
    BY DEF t
  <2> QED BY <2>1, <2>2, AppendFacts
<1>4. now' = now /\ windowStart' = windowStart /\ count' = count + 1
      /\ starts' = starts
  BY <1>1
<1>5. phase' \in [Calls -> Phases] /\ tx' \in [Calls -> Snapshots]
  BY DEF RateInv, RateTypeOK, Phases, Snapshots, NoTx
<1>6. starts \subseteq 1..Size
  BY DEF RateInv, RateTypeOK, Size
<1>7. \A d \in Calls : phase'[d] = "read" =>
          d # c /\ phase[d] = "read" /\ tx'[d] = tx[d]
  BY DEF RateInv, RateTypeOK
<1> HIDE DEF CountsInWindow, Admit, t
<1>8. Size # 0
  BY <1>1, <1>2, RateAssumption DEF RateInv, RateTypeOK, Counting
<1>t. RateTypeOK'
  BY <1>2, <1>3, <1>4, <1>5, <1>6, RateAssumption DEF RateInv, RateTypeOK, Size
<1>u. Times'
  BY <1>4, <1>7 DEF RateInv, Times
<1>v. Reading'
  <2> SUFFICES ASSUME NEW d \in Calls, phase'[d] = "read"
               PROVE  \/ tx'[d].windowStart < windowStart'
                      \/ /\ tx'[d].windowStart = windowStart'
                         /\ tx'[d].count < count'
    BY DEF Reading
  <2> QED BY <1>4, <1>7, RateAssumption
          DEF RateInv, RateTypeOK, Reading, Unchanged, Snapshots
<1>w. Counting'
  <2>1. /\ count \in 1..Size
        /\ Size - count + 1 \in starts
        /\ windowStart = admitted[Size - count + 1]
        /\ \A k \in starts : k <= Size - count + 1
    BY <1>8 DEF RateInv, Counting
  <2>2. Size' - count' + 1 = Size - count + 1 /\ Size - count + 1 \in 1..Size
    BY <2>1, <1>3, <1>4
  <2>3. windowStart' = admitted'[Size' - count' + 1]
    BY <2>1, <2>2, <1>3, <1>4
  <2>4. count' \in 1..Size'
    BY <2>1, <1>3, <1>4
  <2> QED BY <2>1, <2>2, <2>3, <2>4, <1>3, <1>4 DEF Counting
<1>x. InOrder'
  BY <1>1, <1>3 DEF RateInv, InOrder
<1>y. Apart'
  BY <1>3, <1>4, <1>6 DEF RateInv, Apart
<1>z. Often'
  <2> SUFFICES ASSUME NEW i \in 0..(Size + 1), i + RateLimit <= Size + 1
               PROVE  \E k \in starts : i < k /\ k <= i + RateLimit
    BY <1>3, <1>4 DEF Often
  <2>1. CASE i + RateLimit <= Size
    BY <2>1, <1>3, RateAssumption DEF RateInv, Often
  <2>2. CASE i + RateLimit = Size + 1
    <3>1. count \in 1..Size /\ Size - count + 1 \in starts
      BY <1>8 DEF RateInv, Counting
    <3>2. i < Size - count + 1 /\ Size - count + 1 <= i + RateLimit
      BY <3>1, <2>2, <1>2, <1>3, RateAssumption
    <3> QED BY <3>1, <3>2
  <2> QED BY <2>1, <2>2, <1>3, RateAssumption
<1> QED BY <1>t, <1>u, <1>v, <1>w, <1>x, <1>y, <1>z DEF RateInv

LEMMA RateStepInv == RateInv /\ [RateNext]_rateVars => RateInv'
<1> SUFFICES ASSUME RateInv, [RateNext]_rateVars PROVE RateInv'
  OBVIOUS
<1>t. /\ now \in 0..MaxNow /\ phase \in [Calls -> Phases]
      /\ tx \in [Calls -> Snapshots] /\ NoTx \in Snapshots
      /\ [windowStart |-> windowStart, count |-> count, now |-> now] \in Snapshots
  BY RateAssumption DEF RateInv, RateTypeOK, Snapshots, NoTx
<1>1. CASE Tick
  BY <1>1, <1>t, QuietInv, RateAssumption DEF Tick
<1>2. ASSUME NEW c \in Calls, Request(c) PROVE RateInv'
  <2>1. /\ UNCHANGED <<now, windowStart, count, tx, admitted, starts>>
        /\ phase' = [phase EXCEPT ![c] = "sent"]
    BY <1>2 DEF Request
  <2>2. phase' \in [Calls -> Phases]
    BY <2>1, <1>t DEF Phases
  <2>3. \A d \in Calls : phase'[d] = "read" => phase[d] = "read" /\ tx'[d] = tx[d]
    BY <2>1, <1>t
  <2> QED BY <2>1, <2>2, <2>3, <1>t, QuietInv
<1>3. ASSUME NEW c \in Calls, TxReads(c) PROVE RateInv'
  <2>1. /\ UNCHANGED <<now, windowStart, count, admitted, starts>>
        /\ phase' \in [Calls -> Phases] /\ tx' \in [Calls -> Snapshots]
    BY <1>3, <1>t DEF TxReads, Phases
  <2>2. \A d \in Calls : phase'[d] = "read" =>
            \/ phase[d] = "read" /\ tx'[d] = tx[d]
            \/ /\ tx'[d].windowStart = windowStart
               /\ tx'[d].count = count
               /\ tx'[d].now = now
    BY <1>3, <1>t DEF TxReads
  <2> QED BY <2>1, <2>2, <1>t, QuietInv
<1>4. ASSUME NEW c \in Calls, StartsWindow(c) PROVE RateInv'
  BY <1>4, StartsInv
<1>5. ASSUME NEW c \in Calls, CountsInWindow(c) PROVE RateInv'
  BY <1>5, CountsInv
<1>6. ASSUME NEW c \in Calls, Exhausted(c) \/ TxRetries(c) \/ Returns(c)
      PROVE  RateInv'
  <2>1. /\ UNCHANGED <<now, windowStart, count, admitted, starts>>
        /\ phase' \in [Calls -> Phases] /\ tx' \in [Calls -> Snapshots]
    BY <1>6, <1>t DEF Exhausted, TxRetries, Returns, Phases
  <2>2. \A d \in Calls : phase'[d] = "read" => phase[d] = "read" /\ tx'[d] = tx[d]
    BY <1>6, <1>t DEF Exhausted, TxRetries, Returns
  <2> QED BY <2>1, <2>2, <1>t, QuietInv
<1>7. CASE UNCHANGED rateVars
  BY <1>7, <1>t, QuietInv DEF rateVars
<1> QED BY <1>1, <1>2, <1>3, <1>4, <1>5, <1>6, <1>7 DEF RateNext, LimitStep

\* The state of the limiter keeps its types: the count never passes the limit
\* and no window starts in the future.
THEOREM RateTypeCorrect == RateSpec => []RateTypeOK
<1>1. RateInv => RateTypeOK
  BY DEF RateInv
<1> QED BY <1>1, RateInitInv, RateStepInv, PTL DEF RateSpec

\* For any limit, window and number of concurrent calls, enforceRateLimit lets
\* fewer than twice the limit through in any stretch shorter than the window.
THEOREM BudgetHolds == RateSpec => []UnderTwiceTheLimit
<1>1. RateInv => UnderTwiceTheLimit
  <2> SUFFICES ASSUME RateInv, NEW i \in 1..Size, NEW j \in 1..Size,
                      j = i + 2 * RateLimit - 1
               PROVE  admitted[j] - admitted[i] >= WindowMs
    BY DEF UnderTwiceTheLimit, Size
  <2>t. /\ Size \in Nat /\ starts \subseteq 1..Size
        /\ \A l \in 1..Size : admitted[l] \in Nat
        /\ WindowMs \in Nat
    BY RateAssumption DEF RateInv, RateTypeOK, Size
  <2>1. PICK k \in starts : i <= k /\ k < i + RateLimit
    <3>1. i - 1 \in 0..Size /\ (i - 1) + RateLimit <= Size
      BY <2>t, RateAssumption
    <3>2. PICK k \in starts : i - 1 < k /\ k <= (i - 1) + RateLimit
      BY <3>1 DEF RateInv, Often
    <3> QED BY <3>2, <2>t, RateAssumption
  <2>2. PICK l \in starts : i + RateLimit <= l /\ l <= j
    <3>1. i + RateLimit - 1 \in 0..Size /\ (i + RateLimit - 1) + RateLimit <= Size
      BY <2>t, RateAssumption
    <3>2. PICK l \in starts : /\ i + RateLimit - 1 < l
                              /\ l <= (i + RateLimit - 1) + RateLimit
      BY <3>1 DEF RateInv, Often
    <3> QED BY <3>2, <2>t, RateAssumption
  <2>3. admitted[l] - admitted[k] >= WindowMs
    <3>1. k < l
      BY <2>1, <2>2, <2>t, RateAssumption
    <3> QED BY <3>1 DEF RateInv, Apart
  <2>4. admitted[i] <= admitted[k] /\ admitted[l] <= admitted[j]
    BY <2>1, <2>2, <2>t DEF RateInv, InOrder
  <2> QED BY <2>3, <2>4, <2>t
<1> QED BY <1>1, RateInitInv, RateStepInv, PTL DEF RateSpec

-----------------------------------------------------------------------------
(* The sheet.                                                              *)

Handlers == [kind : {"none", "lookup", "send", "link"},
             email : Emails \union {Blank},
             fallback : Statuses \union {"none"}]

\* The calls that send an invite or make a link.
Sending(c) == handler[c].kind \in {"send", "link"}

SheetTypes ==
    /\ status \in Statuses
    /\ email \in Emails \union {Blank}
    /\ recipient \in Users \union {Nobody}
    /\ link \in BOOLEAN
    /\ handler \in [Calls -> Handlers]
    /\ \A c \in Calls :
        /\ handler[c].kind = "link" => handler[c].fallback \in Statuses \ Gated
        /\ handler[c].kind = "lookup" <=> phase[c] # "idle"
    /\ directory \subseteq Users
    /\ collaborators \subseteq Users
    /\ shown \subseteq Users \union {Nobody}
    /\ delivered \subseteq Users
    /\ crossed \in BOOLEAN

\* The account on the screen is the one of the address in the field.
Matches == email # Blank /\ recipient = Account[email]

\* What the sheet may say when its status is s.
Honest(s) ==
    /\ s = "resolved" => Matches
    /\ s = "lookingUp" =>
        \E c \in Calls : handler[c].kind = "lookup" /\ handler[c].email = email

\* The status is honest, and so is the one a link falls back to; an invite
\* under way is for the address in the field and the account on the screen;
\* one call is sending, exactly while the sheet says so.
Truthful ==
    /\ Honest(status)
    /\ \A c \in Calls : handler[c].kind = "link" => Honest(handler[c].fallback)
    /\ \A c \in Calls : handler[c].kind = "send" =>
          handler[c].email = email /\ Matches /\ recipient \in shown
    /\ \A c, d \in Calls : Sending(c) /\ Sending(d) => c = d
    /\ status = "sending" <=> \E c \in Calls : Sending(c)
    /\ delivered \subseteq shown

LookupInv ==
    /\ RateInv
    /\ SheetTypes
    /\ ~crossed => Truthful

-----------------------------------------------------------------------------
\* A handler starts: it is the only one that changes.
LEMMA StartFacts ==
    ASSUME SheetTypes, NEW c \in Calls,
           NEW kind \in {"lookup", "send", "link"},
           NEW e \in Emails \union {Blank},
           NEW fallback \in Statuses \union {"none"},
           Start(c, kind, e, fallback)
    PROVE  /\ handler' \in [Calls -> Handlers]
           /\ handler[c].kind = "none" /\ handler'[c].kind = kind
           /\ handler'[c].email = e /\ handler'[c].fallback = fallback
           /\ \A d \in Calls : d # c => handler'[d] = handler[d]
<1> DEFINE new == [kind |-> kind, email |-> e, fallback |-> fallback]
<1>1. handler[c] = NoHandler /\ handler' = [handler EXCEPT ![c] = new]
  BY DEF Start
<1>2. new \in Handlers
  BY DEF Handlers
<1>3. new.kind = kind /\ new.email = e /\ new.fallback = fallback
  OBVIOUS
<1> HIDE DEF new
<1> QED BY <1>1, <1>2, <1>3 DEF SheetTypes, NoHandler

LEMMA EndFacts ==
    ASSUME SheetTypes, NEW c \in Calls, End(c)
    PROVE  /\ handler' \in [Calls -> Handlers]
           /\ handler'[c].kind = "none"
           /\ \A d \in Calls : d # c => handler'[d] = handler[d]
<1>1. NoHandler \in Handlers /\ NoHandler.kind = "none"
  BY DEF NoHandler, Handlers
<1> QED BY <1>1 DEF SheetTypes, End

\* The directory has accounts only, and each under its own address.
LEMMA FoundFacts ==
    ASSUME SheetTypes, NEW e \in Emails \union {Blank}
    PROVE  /\ Found(e) \in Users \union {Nobody}
           /\ Found(e) # Nobody => e # Blank /\ Found(e) = Account[e]
BY SheetAssumption DEF SheetTypes, Found

\* Statuses that the properties tell apart.
LEMMA StatusFacts ==
    /\ {"checkingAccess", "paywallRequired", "sending", "ready", "lookingUp",
        "resolved", "notFound", "alreadyCollaborator", "sent"} = Statuses
    /\ Gated = {"checkingAccess", "paywallRequired", "sending"}
BY DEF Statuses, Gated

-----------------------------------------------------------------------------
LEMMA LookupInit == Init => LookupInv
<1> SUFFICES ASSUME Init PROVE LookupInv
  OBVIOUS
<1>1. RateInv
  BY RateInitInv DEF Init
<1>2. NoHandler \in Handlers /\ NoHandler.kind = "none"
  BY DEF NoHandler, Handlers
<1>4. SheetTypes
  <2>1. /\ handler \in [Calls -> Handlers]
        /\ \A c \in Calls : handler[c].kind = "none" /\ phase[c] = "idle"
    BY <1>2 DEF Init, RateInit
  <2> QED BY <2>1, StatusFacts DEF Init, SheetTypes
<1>5. Truthful
  BY <1>2 DEF Init, Truthful, Honest, Sending
<1> QED BY <1>1, <1>4, <1>5 DEF LookupInv

\* The server's steps, and whatever leaves the sheet alone.
LEMMA ServerStep ==
    ASSUME LookupInv, Server \/ UNCHANGED vars
    PROVE  SheetTypes' /\ (~crossed' => Truthful')
<1>1. UNCHANGED sheetVars
  BY DEF Server, vars
<1>2. \A c \in Calls : phase'[c] = "idle" <=> phase[c] = "idle"
  <2>1. phase \in [Calls -> Phases]
    BY DEF LookupInv, RateInv, RateTypeOK
  <2>2. CASE phase' = phase
    BY <2>2
  <2>3. CASE \E c \in Calls : LimitStep(c)
    BY <2>1, <2>3 DEF LimitStep, TxReads, StartsWindow, CountsInWindow, Exhausted,
                      TxRetries, Admit
  <2> QED BY <2>2, <2>3 DEF Server, Tick, vars, rateVars
<1>3. SheetTypes'
  BY <1>1, <1>2 DEF LookupInv, SheetTypes, sheetVars
<1>4. ~crossed' => Truthful'
  BY <1>1 DEF LookupInv, Truthful, Honest, Matches, Sending, sheetVars
<1> QED BY <1>3, <1>4

LEMMA OpenedStep ==
    ASSUME LookupInv, Opened
    PROVE  SheetTypes' /\ (~crossed' => Truthful')
<1>1. /\ status = "checkingAccess" /\ status' \in {"paywallRequired", "ready"}
      /\ UNCHANGED <<rateVars, email, recipient, link, handler, collaborators,
                     directory, shown, delivered, crossed>>
  BY DEF Opened
<1>2. SheetTypes'
  BY <1>1, StatusFacts DEF LookupInv, SheetTypes, rateVars
<1>3. ~crossed' => Truthful'
  BY <1>1 DEF LookupInv, Truthful, Honest, Matches, Sending
<1> QED BY <1>2, <1>3

LEMMA EmailClearedStep ==
    ASSUME LookupInv, EmailCleared
    PROVE  SheetTypes' /\ (~crossed' => Truthful')
<1>1. /\ status \notin Gated /\ status' = "ready" /\ email' = Blank
      /\ recipient' = Nobody
      /\ UNCHANGED <<rateVars, link, handler, collaborators, directory,
                     shown, delivered, crossed>>
  BY DEF EmailCleared, Ungated
<1>2. SheetTypes'
  BY <1>1, StatusFacts DEF LookupInv, SheetTypes, rateVars
<1>3. ASSUME ~crossed PROVE Truthful'
  <2>1. \A c \in Calls : ~Sending(c)
    BY <1>1, <1>3, StatusFacts DEF LookupInv, Truthful
  <2> QED BY <1>1, <1>3, <2>1 DEF LookupInv, Truthful, Honest, Sending
<1> QED BY <1>1, <1>2, <1>3

LEMMA EmailChangedStep ==
    ASSUME LookupInv, NEW c \in Calls, NEW e \in Emails, EmailChanged(c, e)
    PROVE  SheetTypes' /\ (~crossed' => Truthful')
<1>1. /\ status \notin Gated /\ status' = "lookingUp" /\ email' = e
      /\ recipient' = Nobody
      /\ Start(c, "lookup", e, "none")
      /\ phase' = [phase EXCEPT ![c] = "sent"]
      /\ UNCHANGED <<link, collaborators, directory, shown, delivered, crossed>>
  BY DEF EmailChanged, Ungated, Request
<1>2. /\ handler' \in [Calls -> Handlers]
      /\ handler'[c].kind = "lookup" /\ handler'[c].email = e
      /\ \A d \in Calls : d # c => handler'[d] = handler[d]
  BY <1>1, StartFacts DEF LookupInv
<1>3. /\ phase'[c] = "sent"
      /\ \A d \in Calls : d # c => phase'[d] = phase[d]
  BY <1>1 DEF LookupInv, RateInv, RateTypeOK
<1>4. SheetTypes'
  BY <1>1, <1>2, <1>3, StatusFacts DEF LookupInv, SheetTypes
<1>5. ASSUME ~crossed PROVE Truthful'
  <2>1. \A d \in Calls : ~Sending(d)
    BY <1>1, <1>5, StatusFacts DEF LookupInv, Truthful
  <2>2. \A d \in Calls : ~Sending(d)'
    BY <1>2, <2>1 DEF Sending
  <2>3. Honest(status)'
    BY <1>1, <1>2 DEF Honest
  <2> QED BY <1>1, <1>5, <2>2, <2>3 DEF LookupInv, Truthful, Sending
<1> QED BY <1>1, <1>4, <1>5

\* A lookup ends: when its answer counts while the sheet is sending, it has
\* crossed; when it does not count, only its handler changes.
LEMMA LookupEnds ==
    ASSUME LookupInv, NEW c \in Calls, handler[c].kind = "lookup",
           Crosses(c), Returns(c), End(c),
           UNCHANGED <<email, link, collaborators, directory, shown, delivered>>,
           IF Current(c)
           THEN /\ status' \in Statuses \ {"lookingUp", "sending"}
                /\ recipient' \in Users \union {Nobody}
                /\ status' = "resolved" => Matches'
           ELSE UNCHANGED <<status, recipient>>
    PROVE  SheetTypes' /\ (~crossed' => Truthful')
<1>1. /\ handler' \in [Calls -> Handlers]
      /\ handler'[c].kind = "none"
      /\ \A d \in Calls : d # c => handler'[d] = handler[d]
  BY EndFacts DEF LookupInv
<1>2. /\ phase'[c] = "idle"
      /\ \A d \in Calls : d # c => phase'[d] = phase[d]
  BY DEF LookupInv, RateInv, RateTypeOK, Returns
<1>3. crossed' \in BOOLEAN
  BY DEF Crosses
<1>4. SheetTypes'
  <2>1. status' \in Statuses /\ recipient' \in Users \union {Nobody}
    BY DEF LookupInv, SheetTypes
  <2>2. \A d \in Calls :
          /\ handler'[d].kind = "link" => handler'[d].fallback \in Statuses \ Gated
          /\ handler'[d].kind = "lookup" <=> phase'[d] # "idle"
    BY <1>1, <1>2 DEF LookupInv, SheetTypes
  <2> QED BY <1>1, <1>3, <2>1, <2>2 DEF LookupInv, SheetTypes
<1>5. ASSUME ~crossed' PROVE Truthful'
  <2>1. ~crossed /\ ~(Current(c) /\ status = "sending")
    BY <1>5 DEF Crosses
  <2>2. Truthful
    BY <2>1 DEF LookupInv
  <2>3. \A d \in Calls : /\ Sending(d)' <=> Sending(d)
                         /\ Sending(d) => handler'[d] = handler[d]
    BY <1>1 DEF Sending
  <2>4. CASE Current(c)
    <3>1. \A d \in Calls : ~Sending(d) /\ ~Sending(d)'
      BY <2>1, <2>2, <2>3, <2>4 DEF Truthful
    <3>2. Honest(status)' /\ status' # "sending"
      BY <2>4 DEF Honest
    <3> QED BY <2>2, <3>1, <3>2 DEF Truthful, Sending
  <2>5. CASE ~Current(c)
    <3>1. UNCHANGED <<status, recipient, email>>
      BY <2>5
    <3>2. \A s : Honest(s) => Honest(s)'
      BY <1>1, <2>5, <3>1 DEF Honest, Matches, Current
    <3>3. Honest(status)' /\ delivered' \subseteq shown'
      BY <2>2, <3>1, <3>2 DEF Truthful
    <3>4. \A d \in Calls : handler'[d].kind = "link" => Honest(handler[d].fallback)'
      BY <2>2, <2>3, <3>2 DEF Truthful, Sending
    <3>5. \A d \in Calls : handler'[d].kind = "link" =>
              handler'[d].fallback = handler[d].fallback
      BY <2>3 DEF Sending
    <3>6. \A d \in Calls : handler'[d].kind = "link" =>
              (handler'[d].fallback = "resolved" => Matches')
              /\ (handler'[d].fallback = "lookingUp" =>
                    \E b \in Calls : handler'[b].kind = "lookup" /\ handler'[b].email = email')
      BY <3>4, <3>5 DEF Honest
    <3>7. \A d \in Calls : handler'[d].kind = "send" =>
              handler'[d].email = email' /\ Matches' /\ recipient' \in shown'
      BY <2>2, <2>3, <3>1 DEF Truthful, Sending, Matches
    <3>8. /\ \A d, b \in Calls : Sending(d)' /\ Sending(b)' => d = b
          /\ status' = "sending" <=> \E d \in Calls : Sending(d)'
      BY <2>2, <2>3, <3>1 DEF Truthful
    <3> QED BY <3>3, <3>6, <3>7, <3>8 DEF Truthful, Honest
  <2> QED BY <2>4, <2>5
<1> QED BY <1>4, <1>5

LEMMA LookupAnsweredStep ==
    ASSUME LookupInv, NEW c \in Calls, LookupAnswered(c)
    PROVE  SheetTypes' /\ (~crossed' => Truthful')
<1>1. /\ handler[c].kind = "lookup" /\ Crosses(c) /\ Returns(c) /\ End(c)
      /\ UNCHANGED <<email, link, collaborators, directory, shown, delivered>>
  BY DEF LookupAnswered
<1>2. ASSUME Current(c)
      PROVE  /\ status' \in Statuses \ {"lookingUp", "sending"}
             /\ recipient' \in Users \union {Nobody}
             /\ status' = "resolved" => Matches'
  <2>1. handler[c].email = email /\ email \in Emails \union {Blank}
        /\ email' = email
    BY <1>1, <1>2 DEF Current, LookupInv, SheetTypes
  <2>2. /\ status' = Outcome(email)
        /\ recipient' = IF Outcome(email) = "resolved" THEN Found(email)
                        ELSE recipient
    BY <1>2, <2>1 DEF LookupAnswered
  <2>3. Outcome(email) \in {"notFound", "alreadyCollaborator",
                            "paywallRequired", "resolved"}
    BY DEF Outcome
  <2>4. Outcome(email) = "resolved" => Found(email) # Nobody
    BY DEF Outcome
  <2>5. /\ Found(email) \in Users \union {Nobody}
        /\ Found(email) # Nobody => email # Blank /\ Found(email) = Account[email]
    BY <2>1, FoundFacts DEF LookupInv
  <2>6. recipient \in Users \union {Nobody}
    BY DEF LookupInv, SheetTypes
  <2> QED BY <2>1, <2>2, <2>3, <2>4, <2>5, <2>6, StatusFacts DEF Matches
<1>3. ~Current(c) => UNCHANGED <<status, recipient>>
  BY DEF LookupAnswered
<1> QED BY <1>1, <1>2, <1>3, LookupEnds

LEMMA LookupFailedStep ==
    ASSUME LookupInv, NEW c \in Calls, LookupFailed(c)
    PROVE  SheetTypes' /\ (~crossed' => Truthful')
<1>1. /\ handler[c].kind = "lookup" /\ Crosses(c) /\ Returns(c) /\ End(c)
      /\ UNCHANGED <<email, link, collaborators, directory, shown, delivered>>
      /\ recipient' = recipient
      /\ status' = IF Current(c) THEN "ready" ELSE status
  BY DEF LookupFailed
<1>2. recipient' \in Users \union {Nobody}
  BY <1>1 DEF LookupInv, SheetTypes
<1> QED BY <1>1, <1>2, LookupEnds, StatusFacts

LEMMA SendRequestedStep ==
    ASSUME LookupInv, NEW c \in Calls, SendRequested(c)
    PROVE  SheetTypes' /\ (~crossed' => Truthful')
<1>1. /\ status = "resolved" /\ status' = "sending"
      /\ Start(c, "send", email, "none")
      /\ shown' = shown \union {recipient}
      /\ UNCHANGED <<rateVars, email, recipient, link, collaborators, directory,
                     delivered, crossed>>
  BY DEF SendRequested
<1>2. /\ handler' \in [Calls -> Handlers]
      /\ handler[c].kind = "none" /\ handler'[c].kind = "send"
      /\ handler'[c].email = email
      /\ \A d \in Calls : d # c => handler'[d] = handler[d]
  BY <1>1, StartFacts DEF LookupInv, SheetTypes
<1>3. SheetTypes'
  BY <1>1, <1>2, StatusFacts DEF LookupInv, SheetTypes, rateVars
<1>4. ASSUME ~crossed PROVE Truthful'
  <2>1. Truthful /\ Matches /\ \A d \in Calls : ~Sending(d)
    BY <1>1, <1>4 DEF LookupInv, Truthful, Honest
  <2>2. \A d \in Calls : d # c => ~Sending(d)'
    BY <1>2, <2>1 DEF Sending
  <2>3. Sending(c)' /\ Matches'
    BY <1>1, <1>2, <2>1 DEF Sending, Matches
  <2>4. Honest(status)'
    BY <1>1 DEF Honest
  <2> QED BY <1>1, <1>2, <2>1, <2>2, <2>3, <2>4 DEF Truthful, Sending
<1> QED BY <1>1, <1>3, <1>4

LEMMA LinkCreateRequestedStep ==
    ASSUME LookupInv, NEW c \in Calls, LinkCreateRequested(c)
    PROVE  SheetTypes' /\ (~crossed' => Truthful')
<1>1. /\ status \notin Gated /\ status' = "sending"
      /\ Start(c, "link", Blank, status)
      /\ UNCHANGED <<rateVars, email, recipient, link, collaborators, directory,
                     shown, delivered, crossed>>
  BY DEF LinkCreateRequested, Ungated
<1>2. /\ handler' \in [Calls -> Handlers]
      /\ handler[c].kind = "none" /\ handler'[c].kind = "link"
      /\ handler'[c].fallback = status
      /\ \A d \in Calls : d # c => handler'[d] = handler[d]
  BY <1>1, StartFacts DEF LookupInv, SheetTypes
<1>3. SheetTypes'
  BY <1>1, <1>2, StatusFacts DEF LookupInv, SheetTypes, rateVars
<1>4. ASSUME ~crossed PROVE Truthful'
  <2>1. Truthful /\ \A d \in Calls : ~Sending(d)
    BY <1>1, <1>4, StatusFacts DEF LookupInv, Truthful
  <2>2. \A d \in Calls : d # c => ~Sending(d)'
    BY <1>2, <2>1 DEF Sending
  <2>3. Sending(c)'
    BY <1>2 DEF Sending
  <2>4. Honest(status)'
    BY <1>1 DEF Honest
  <2>5. /\ status = "resolved" => Matches'
        /\ status = "lookingUp" =>
             \E d \in Calls : handler'[d].kind = "lookup" /\ handler'[d].email = email'
    BY <1>1, <1>2, <2>1 DEF Truthful, Honest, Matches
  <2>6. Honest(handler[c].fallback)'
    BY <1>2, <2>5 DEF Honest
  <2> QED BY <1>1, <1>2, <2>1, <2>2, <2>3, <2>4, <2>6 DEF Truthful, Sending
<1> QED BY <1>1, <1>3, <1>4

\* What is being sent ends: nothing is being sent any more.
LEMMA SendEnds ==
    ASSUME LookupInv, NEW c \in Calls, Sending(c), End(c),
           UNCHANGED <<rateVars, email, collaborators, directory, shown, crossed>>,
           status' \in Statuses \ {"sending"},
           recipient' \in Users \union {Nobody}, link' \in BOOLEAN,
           delivered' \subseteq Users,
           Truthful => Honest(status)' /\ delivered' \subseteq shown
    PROVE  SheetTypes' /\ (~crossed' => Truthful')
<1>1. /\ handler' \in [Calls -> Handlers]
      /\ handler'[c].kind = "none"
      /\ \A d \in Calls : d # c => handler'[d] = handler[d]
  BY EndFacts DEF LookupInv
<1>2. SheetTypes'
  BY <1>1 DEF LookupInv, SheetTypes, Sending, rateVars
<1>3. ASSUME ~crossed PROVE Truthful'
  <2>1. Truthful
    BY <1>3 DEF LookupInv
  <2>2. \A d \in Calls : ~Sending(d)'
    BY <1>1, <2>1 DEF Truthful, Sending
  <2> QED BY <2>1, <2>2 DEF Truthful, Sending
<1> QED BY <1>2, <1>3

LEMMA SendAnsweredStep ==
    ASSUME LookupInv, NEW c \in Calls, SendAnswered(c)
    PROVE  SheetTypes' /\ (~crossed' => Truthful')
<1> DEFINE who == Found(handler[c].email)
<1>1. /\ handler[c].kind = "send" /\ End(c)
      /\ IF who = Nobody
         THEN status' = "notFound" /\ UNCHANGED <<recipient, delivered>>
         ELSE /\ status' = "sent" /\ recipient' = who
              /\ delivered' = delivered \union {who}
      /\ UNCHANGED <<rateVars, email, link, collaborators, directory, shown,
                     crossed>>
  BY DEF SendAnswered
<1>2. handler[c].email \in Emails \union {Blank}
  BY DEF LookupInv, SheetTypes, Handlers
<1>3. /\ who \in Users \union {Nobody}
      /\ who # Nobody => who = Account[handler[c].email]
  BY <1>2, FoundFacts DEF LookupInv
<1>4. Sending(c)
  BY <1>1 DEF Sending
<1> HIDE DEF who
<1>5. /\ status' \in Statuses \ {"sending"}
      /\ recipient' \in Users \union {Nobody} /\ link' \in BOOLEAN
      /\ delivered' \subseteq Users
  BY <1>1, <1>3, StatusFacts DEF LookupInv, SheetTypes
<1>6. Truthful => Honest(status)' /\ delivered' \subseteq shown
  <2>1. Honest(status)'
    BY <1>1 DEF Honest
  <2>2. Truthful => delivered' \subseteq shown
    BY <1>1, <1>3 DEF Truthful, Matches
  <2> QED BY <2>1, <2>2
<1> QED BY <1>1, <1>4, <1>5, <1>6, SendEnds

LEMMA SendFailedStep ==
    ASSUME LookupInv, NEW c \in Calls, SendFailed(c)
    PROVE  SheetTypes' /\ (~crossed' => Truthful')
<1> DEFINE who == Found(handler[c].email)
<1>1. /\ handler[c].kind = "send" /\ End(c) /\ status' = "resolved"
      /\ delivered' \in {delivered, delivered \union ({who} \ {Nobody})}
      /\ UNCHANGED <<rateVars, email, recipient, link, collaborators, directory,
                     shown, crossed>>
  BY DEF SendFailed
<1>2. handler[c].email \in Emails \union {Blank}
  BY DEF LookupInv, SheetTypes, Handlers
<1>3. /\ who \in Users \union {Nobody}
      /\ who # Nobody => who = Account[handler[c].email]
  BY <1>2, FoundFacts DEF LookupInv
<1>4. Sending(c)
  BY <1>1 DEF Sending
<1> HIDE DEF who
<1>5. /\ status' \in Statuses \ {"sending"}
      /\ recipient' \in Users \union {Nobody} /\ link' \in BOOLEAN
      /\ delivered' \subseteq Users
  BY <1>1, <1>3, StatusFacts DEF LookupInv, SheetTypes
<1>6. Truthful => Honest(status)' /\ delivered' \subseteq shown
  <2> SUFFICES ASSUME Truthful PROVE Honest(status)' /\ delivered' \subseteq shown
    OBVIOUS
  <2>1. handler[c].email = email /\ Matches /\ recipient \in shown
        /\ delivered \subseteq shown
    BY <1>1 DEF Truthful
  <2>2. Honest(status)'
    BY <1>1, <2>1 DEF Honest, Matches
  <2>3. delivered' \subseteq shown
    BY <1>1, <1>3, <2>1 DEF Matches
  <2> QED BY <2>2, <2>3
<1> QED BY <1>1, <1>4, <1>5, <1>6, SendEnds

LEMMA LinkCreatedStep ==
    ASSUME LookupInv, NEW c \in Calls, LinkCreated(c)
    PROVE  SheetTypes' /\ (~crossed' => Truthful')
<1>1. /\ handler[c].kind = "link" /\ End(c) /\ status' = "sent" /\ link' = TRUE
      /\ UNCHANGED <<rateVars, email, recipient, collaborators, directory,
                     shown, delivered, crossed>>
  BY DEF LinkCreated
<1>2. /\ status' \in Statuses \ {"sending"}
      /\ recipient' \in Users \union {Nobody} /\ link' \in BOOLEAN
      /\ delivered' \subseteq Users
  BY <1>1, StatusFacts DEF LookupInv, SheetTypes
<1>3. Sending(c) /\ (Truthful => Honest(status)' /\ delivered' \subseteq shown)
  BY <1>1 DEF Truthful, Honest, Sending
<1> QED BY <1>1, <1>2, <1>3, SendEnds

LEMMA LinkFailedStep ==
    ASSUME LookupInv, NEW c \in Calls, LinkFailed(c)
    PROVE  SheetTypes' /\ (~crossed' => Truthful')
<1>1. /\ handler[c].kind = "link" /\ End(c) /\ status' = handler[c].fallback
      /\ UNCHANGED <<rateVars, email, recipient, link, collaborators, directory,
                     shown, delivered, crossed>>
  BY DEF LinkFailed
<1>2. /\ status' \in Statuses \ {"sending"}
      /\ recipient' \in Users \union {Nobody} /\ link' \in BOOLEAN
      /\ delivered' \subseteq Users
  BY <1>1, StatusFacts DEF LookupInv, SheetTypes
<1>3. ASSUME Truthful PROVE Honest(status)' /\ delivered' \subseteq shown
  <2>1. /\ status' = "resolved" => Matches
        /\ status' = "lookingUp" =>
            \E d \in Calls : handler[d].kind = "lookup" /\ handler[d].email = email
    BY <1>1, <1>3 DEF Truthful, Honest
  <2>2. \A d \in Calls : d # c => handler'[d] = handler[d]
    BY <1>1, EndFacts DEF LookupInv
  <2>3. Honest(status)'
    BY <1>1, <2>1, <2>2 DEF Honest, Matches
  <2> QED BY <1>1, <1>3, <2>3 DEF Truthful
<1>4. Sending(c)
  BY <1>1 DEF Sending
<1> QED BY <1>1, <1>2, <1>3, <1>4, SendEnds

LEMMA OthersStep ==
    ASSUME LookupInv, NEW u \in Users, Joins(u) \/ Vanishes(u)
    PROVE  SheetTypes' /\ (~crossed' => Truthful')
<1>1. UNCHANGED <<rateVars, status, email, recipient, link, handler,
                  shown, delivered, crossed>>
  BY DEF Joins, Vanishes
<1>2. collaborators' \subseteq Users
  BY DEF Joins, Vanishes, LookupInv, SheetTypes
<1>3. directory' \subseteq directory
  BY DEF Joins, Vanishes
<1>4. SheetTypes'
  BY <1>1, <1>2, <1>3 DEF LookupInv, SheetTypes, rateVars
<1>5. ~crossed' => Truthful'
  BY <1>1 DEF LookupInv, Truthful, Honest, Matches, Sending
<1> QED BY <1>4, <1>5

-----------------------------------------------------------------------------
\* Every step of the sheet is one of the limiter's or leaves it alone.
LEMMA RateSteps == [Next]_vars => [RateNext]_rateVars
<1> SUFFICES ASSUME [Next]_vars PROVE [RateNext]_rateVars
  OBVIOUS
<1>1. CASE Server
  BY <1>1 DEF Server, RateNext
<1>2. CASE Opened \/ EmailCleared \/ \E u \in Users : Joins(u) \/ Vanishes(u)
  BY <1>2 DEF Opened, EmailCleared, Joins, Vanishes
<1>3. ASSUME NEW c \in Calls, Sheet(c) PROVE [RateNext]_rateVars
  <2>1. CASE \E e \in Emails : EmailChanged(c, e)
    BY <2>1 DEF EmailChanged, RateNext
  <2>2. CASE LookupAnswered(c) \/ LookupFailed(c)
    BY <2>2 DEF LookupAnswered, LookupFailed, RateNext
  <2>3. CASE \/ SendRequested(c) \/ SendAnswered(c) \/ SendFailed(c)
             \/ LinkCreateRequested(c) \/ LinkCreated(c) \/ LinkFailed(c)
    BY <2>3 DEF SendRequested, SendAnswered, SendFailed, LinkCreateRequested,
                LinkCreated, LinkFailed
  <2> QED BY <1>3, <2>1, <2>2, <2>3 DEF Sheet
<1>4. CASE UNCHANGED vars
  BY <1>4 DEF vars
<1> QED BY <1>1, <1>2, <1>3, <1>4 DEF Next

LEMMA LookupStep == LookupInv /\ [Next]_vars => LookupInv'
<1> SUFFICES ASSUME LookupInv, [Next]_vars PROVE LookupInv'
  OBVIOUS
<1>1. RateInv'
  BY RateSteps, RateStepInv DEF LookupInv
<1>2. SheetTypes' /\ (~crossed' => Truthful')
  <2>1. CASE Server \/ UNCHANGED vars
    BY <2>1, ServerStep
  <2>2. CASE Opened
    BY <2>2, OpenedStep
  <2>3. CASE EmailCleared
    BY <2>3, EmailClearedStep
  <2>4. ASSUME NEW c \in Calls, Sheet(c) PROVE SheetTypes' /\ (~crossed' => Truthful')
    BY <2>4, EmailChangedStep, LookupAnsweredStep, LookupFailedStep,
       SendRequestedStep, SendAnsweredStep, SendFailedStep,
       LinkCreateRequestedStep, LinkCreatedStep, LinkFailedStep
       DEF Sheet
  <2>5. ASSUME NEW u \in Users, Joins(u) \/ Vanishes(u)
        PROVE  SheetTypes' /\ (~crossed' => Truthful')
    BY <2>5, OthersStep
  <2> QED BY <2>1, <2>2, <2>3, <2>4, <2>5 DEF Next
<1> QED BY <1>1, <1>2 DEF LookupInv

LEMMA LookupInvHolds == Spec => []LookupInv
BY LookupInit, LookupStep, PTL DEF Spec

\* The sheet implements the limiter: whatever the bloc's handlers do, its
\* lookups go through the budget, so BudgetHolds is true of the sheet as well.
THEOREM SheetUsesLimiter == Spec => RateSpec
<1>1. Init => RateInit
  BY DEF Init
<1> QED BY <1>1, RateSteps, PTL DEF Spec, RateSpec

\* The sheet, its handlers and the collaborators keep their types: a lookup is
\* under way exactly while the limiter has it, and nobody joins past the cap.
THEOREM TypeCorrect == Spec => []TypeOK
<1>1. LookupInv => TypeOK
  BY DEF LookupInv, RateInv, SheetTypes, TypeOK, Handlers
<1> QED BY <1>1, LookupInvHolds, PTL

\* For any number of calls, addresses and accounts: unless a lookup answers
\* while the sheet is sending, the status InviteBloc emits tells the truth.
THEOREM TruthTold == Spec => []SheetTellsTheTruth
<1>1. ASSUME LookupInv PROVE SheetTellsTheTruth
  <2> SUFFICES ASSUME ~crossed
               PROVE  /\ status = "resolved" => email # Blank /\ recipient = Account[email]
                      /\ status = "lookingUp" =>
                            \E c \in InFlight({"lookup"}) : handler[c].email = email
                      /\ Cardinality(InFlight({"send", "link"})) =
                            IF status = "sending" THEN 1 ELSE 0
    BY DEF SheetTellsTheTruth
  <2>1. Truthful
    BY <1>1 DEF LookupInv
  <2>2. CASE status = "sending"
    <3>1. PICK c \in Calls : Sending(c)
      BY <2>1, <2>2 DEF Truthful
    <3>2. InFlight({"send", "link"}) = {c}
      BY <2>1, <3>1 DEF Truthful, InFlight, Sending
    <3> QED BY <2>1, <2>2, <3>2, FS_Singleton
  <2>3. CASE status # "sending"
    <3>1. InFlight({"send", "link"}) = {}
      BY <2>1, <2>3 DEF Truthful, InFlight, Sending
    <3> QED BY <2>1, <2>3, <3>1, FS_EmptySet DEF Truthful, Honest, Matches, InFlight
  <2> QED BY <2>2, <2>3
<1> QED BY <1>1, LookupInvHolds, PTL

\* For any number of calls, addresses and accounts: unless a lookup answers
\* while the sheet is sending, the callable sendInvite stores invites only for
\* accounts that were on the screen when Send was pressed.
THEOREM OnlyShownInvited == Spec => []InviteGoesToShown
<1>1. LookupInv => InviteGoesToShown
  BY DEF LookupInv, Truthful, InviteGoesToShown
<1> QED BY <1>1, LookupInvHolds, PTL

=============================================================================
