------------------------- MODULE UnreadActivityProofs -------------------------
(***************************************************************************)
(* Proofs about UnreadActivity, for any participants and any number of     *)
(* edits, triggers and opens under way.                                    *)
(***************************************************************************)
EXTENDS UnreadActivity, FiniteSetTheorems, TLAPS

-----------------------------------------------------------------------------
(* The inductive invariant.                                                *)

Last == Cardinality(DOMAIN author)

\* Triggers run for edits that were written.
Written ==
    /\ events \subseteq 1..Last
    /\ \A b \in bumps \union committed : b.edit \in 1..Last

\* The server's stamps are of the past, a device's are ahead by Skew at most,
\* and no two triggers share one.
Past ==
    /\ 1 <= clock
    /\ \A u \in People : openedAt[u] <= clock
    /\ \A u \in People : reads[u] <= clock \/ reads[u] <= openedAt[u] + Skew
    /\ \A b \in bumps \union committed : 1 <= b.at /\ b.at <= clock
    /\ \A b, c \in bumps \union committed : b.at = c.at => b = c

\* What somebody has not seen are edits of others, later than all of their own.
Unseen ==
    \A u \in People : \A e \in unseen[u] :
        /\ e \in 1..Last
        /\ author[e] # u
        /\ \A i \in 1..Last : author[i] = u => i < e

\* A markOpened write on its way was stamped when its user last opened the piece,
\* or before.
OpenedBefore ==
    \A o \in opens : 1 <= o.at /\ o.at <= openedAt[o.user] + Skew

\* The edit of bump b is one that u has not seen, out of reach of u's clock.
Owed(u, b) == b.edit \in unseen[u] /\ b.at > openedAt[u] + Skew

\* The watermark is older than the stamp of a running trigger for an edit its
\* user has not seen, or a later stamp has been committed already.
ReadBefore ==
    \A u \in People : \A b \in bumps :
        Owed(u, b) => reads[u] < b.at \/ \E c \in committed : c.at > b.at

\* With the triggers in order, the watermark is older than every committed
\* stamp of an edit its user has not seen, and updatedAt is not.
InOrder ==
    /\ \A b \in committed : b.at <= updatedAt
    /\ \A u \in People : \A b \in committed : Owed(u, b) => reads[u] < b.at

UnreadInv ==
    /\ TypeOK /\ Written /\ Past /\ Unseen /\ OpenedBefore /\ ReadBefore
    /\ OwnEditIsRead
    /\ ~disordered => InOrder

-----------------------------------------------------------------------------
(* The edits are numbered from 1 on.                                       *)

LEMMA IntervalSize ==
  ASSUME NEW n \in Nat
  PROVE  Cardinality(1..n) = n
  BY FS_Interval

LEMMA AuthorType ==
  ASSUME TypeOK
  PROVE  /\ Last \in 0..MaxEdits
         /\ author \in [1..Last -> People]
         /\ \A e \in 1..Last : author[e] \in People
  <1>1. PICK n \in 0..MaxEdits : author \in [1..n -> People]
    BY DEF TypeOK
  <1>2. n \in Nat /\ DOMAIN author = 1..n
    BY <1>1, UnreadAssumption
  <1>3. Last = n
    BY <1>2, IntervalSize DEF Last
  <1> QED
    BY <1>1, <1>3

LEMMA InitInv == Init => UnreadInv
  <1> SUFFICES ASSUME Init PROVE UnreadInv
    OBVIOUS
  <1>0. 0 \in 0..MaxEdits /\ author \in [1..0 -> People]
    BY UnreadAssumption DEF Init
  <1>1. TypeOK
    <2>1. /\ clock \in ServerStamps /\ updatedAt \in Stamps
          /\ reads \in [People -> Stamps] /\ openedAt \in [People -> ServerStamps]
      BY UnreadAssumption DEF Init, DeviceTime, ServerStamps, Stamps
    <2>2. \E n \in 0..MaxEdits : author \in [1..n -> People]
      BY <1>0
    <2> QED
      BY <2>1, <2>2, UnreadAssumption DEF Init, TypeOK
  <1>2. Written /\ Past /\ Unseen /\ OpenedBefore /\ ReadBefore /\ InOrder
    BY DEF Init, Written, Past, Unseen, OpenedBefore, ReadBefore, InOrder, Owed
  <1>3. OwnEditIsRead
    BY DEF Init, OwnEditIsRead, IsUnread
  <1> QED
    BY <1>1, <1>2, <1>3 DEF UnreadInv

\* Facts about the state that every action's proof starts from.
LEMMA Facts ==
  ASSUME UnreadInv
  PROVE  /\ clock \in Nat /\ updatedAt \in Nat
         /\ reads \in [People -> Nat]
         /\ unseen \in [People -> SUBSET (1..Last)]
         /\ Last \in Nat
         /\ author \in [1..Last -> People]
         /\ bumps \union committed \subseteq [edit : 1..Last, at : Nat]
         /\ opens \subseteq [user : People, at : Nat]
         /\ Last \in 0..MaxEdits
         /\ openedAt \in [People -> Nat]
         /\ Skew \in Nat
  <1>1. Last \in 0..MaxEdits /\ author \in [1..Last -> People]
    BY AuthorType DEF UnreadInv
  <1>2. Last \in Nat
    BY <1>1, UnreadAssumption
  <1>3. bumps \union committed \subseteq [edit : 1..Last, at : Nat]
    <2>1. bumps \union committed \subseteq [edit : Edits, at : ServerStamps]
      BY DEF UnreadInv, TypeOK
    <2>2. \A b \in bumps \union committed : b.edit \in 1..Last
      BY DEF UnreadInv, Written
    <2> QED
      BY <2>1, <2>2 DEF ServerStamps
  <1>4. opens \subseteq [user : People, at : Nat]
    BY DEF UnreadInv, TypeOK, Stamps
  <1>5. unseen \in [People -> SUBSET (1..Last)]
    BY DEF UnreadInv, TypeOK, Unseen
  <1>6. clock \in Nat /\ updatedAt \in Nat /\ reads \in [People -> Nat]
    BY UnreadAssumption DEF UnreadInv, TypeOK, Stamps, ServerStamps
  <1>7. openedAt \in [People -> Nat] /\ Skew \in Nat
    BY UnreadAssumption DEF UnreadInv, TypeOK, ServerStamps
  <1> QED
    BY <1>1, <1>2, <1>3, <1>4, <1>5, <1>6, <1>7

-----------------------------------------------------------------------------
(* One lemma per action.                                                   *)

LEMMA EditStep ==
  ASSUME UnreadInv, NEW u \in People, Edit(u)
  PROVE  UnreadInv'
  <1> DEFINE e == Last + 1
  <1>0. /\ Last \in Nat
        /\ Last \in 0..MaxEdits
        /\ author \in [1..Last -> People]
        /\ bumps \union committed \subseteq [edit : 1..Last, at : Nat]
        /\ unseen \in [People -> SUBSET (1..Last)]
    BY Facts
  <1>1. /\ e \in Edits
        /\ author' = [i \in 1..e |-> IF i = e THEN u ELSE author[i]]
        /\ events' = events \union {e}
        /\ unseen' = [v \in People |-> IF v = u THEN {} ELSE unseen[v] \union {e}]
        /\ UNCHANGED <<clock, updatedAt, reads, bumps, opens,
                       openedAt, committed, disordered, lastWriter, setBack>>
    BY DEF Edit, Last
  <1>2. e \in Nat /\ Last' = e
    <2>1. e \in Nat /\ DOMAIN author' = 1..e
      BY <1>0, <1>1
    <2> QED
      BY <2>1, IntervalSize DEF Last
  <1>3. author' \in [1..e -> People]
    BY <1>0, <1>1
  <1>4. TypeOK'
    <2>1. e \in 0..MaxEdits /\ e \in 1..MaxEdits
      BY <1>0, <1>1, UnreadAssumption DEF Edits
    <2>2. unseen' \in [People -> SUBSET Edits]
      BY <1>1, <2>1 DEF UnreadInv, TypeOK, Edits
    <2>3. events' \subseteq Edits
      BY <1>1 DEF UnreadInv, TypeOK
    <2>4. \E n \in 0..MaxEdits : author' \in [1..n -> People]
      BY <1>3, <2>1
    <2> QED
      BY <1>1, <2>2, <2>3, <2>4 DEF UnreadInv, TypeOK
  <1>5. Written'
    BY <1>0, <1>1, <1>2 DEF UnreadInv, Written
  <1>6. Past'
    BY <1>1 DEF UnreadInv, Past
  <1> HIDE DEF e
  <1>7. Unseen'
    <2> SUFFICES ASSUME NEW v \in People, NEW d \in unseen'[v]
                 PROVE  /\ d \in 1..e
                        /\ author'[d] # v
                        /\ \A i \in 1..e : author'[i] = v => i < d
      BY <1>2 DEF Unseen
    <2>1. v # u /\ (d \in unseen[v] \/ d = e)
      BY <1>1
    <2>2. CASE d = e
      <3>1. e \in 1..e /\ author'[e] = u
        BY <1>0, <1>1, <1>2 DEF e
      <3> QED
        BY <1>2, <2>1, <2>2, <3>1
    <2>3. CASE d \in unseen[v]
      <3>1. d \in 1..Last /\ author[d] # v /\ \A i \in 1..Last : author[i] = v => i < d
        BY <2>3 DEF UnreadInv, Unseen, Owed
      <3> QED
        BY <1>0, <1>1, <1>2, <2>1, <3>1 DEF e
    <2> QED
      BY <2>1, <2>2, <2>3
  <1>8. \A v \in People : \A b \in bumps \union committed :
            b.edit \in unseen'[v] => b.edit \in unseen[v]
    BY <1>0, <1>1 DEF e
  <1>9. OpenedBefore'
    <2>1. \A o \in opens : o.user \in People
      BY DEF UnreadInv, TypeOK
    <2> QED
      BY <1>1, <1>8, <2>1 DEF UnreadInv, OpenedBefore
  <1>10. ReadBefore'
    BY <1>1, <1>8 DEF UnreadInv, ReadBefore, Owed
  <1>11. OwnEditIsRead'
    BY <1>1 DEF UnreadInv, OwnEditIsRead, IsUnread
  <1>12. ~disordered' => InOrder'
    BY <1>1, <1>8 DEF UnreadInv, InOrder, Owed
  <1> QED
    BY <1>4, <1>5, <1>6, <1>7, <1>9, <1>10, <1>11, <1>12 DEF UnreadInv

LEMMA TriggerStampsStep ==
  ASSUME UnreadInv, NEW e \in Edits, TriggerStamps(e)
  PROVE  UnreadInv'
  <1> DEFINE new == [edit |-> e, at |-> clock + 1]
  <1>0. /\ clock \in Nat /\ updatedAt \in Nat
        /\ reads \in [People -> Nat]
        /\ bumps \union committed \subseteq [edit : 1..Last, at : Nat]
        /\ opens \subseteq [user : People, at : Nat]
        /\ openedAt \in [People -> Nat] /\ Skew \in Nat
    BY Facts
  <1>1. /\ e \in events
        /\ clock < MaxClock /\ clock' = clock + 1
        /\ bumps' = bumps \union {new}
        /\ events' \in {events, events \ {e}}
        /\ UNCHANGED <<updatedAt, reads, author, opens,
                       unseen, openedAt, committed, disordered, lastWriter, setBack>>
    BY DEF TriggerStamps, Tick, history
  <1>2. new.edit = e /\ new.at = clock + 1 /\ clock' \in ServerStamps
    BY <1>0, <1>1, UnreadAssumption DEF ServerStamps, Stamps
  <1>3. Last' = Last
    BY <1>1 DEF Last
  <1>4. TypeOK'
    <2>1. bumps' \subseteq [edit : Edits, at : ServerStamps]
      BY <1>1, <1>2 DEF UnreadInv, TypeOK
    <2> QED
      BY <1>1, <1>2, <2>1 DEF UnreadInv, TypeOK
  <1> HIDE DEF new
  <1>5. Written'
    BY <1>1, <1>2, <1>3 DEF UnreadInv, Written
  <1>6. Past'
    BY <1>0, <1>1, <1>2 DEF UnreadInv, Past
  <1>7. Unseen'
    BY <1>1, <1>3 DEF UnreadInv, Unseen
  <1>8. OpenedBefore'
    BY <1>0, <1>1, <1>2 DEF UnreadInv, OpenedBefore, Past
  <1>9. ReadBefore'
    BY <1>0, <1>1, <1>2 DEF UnreadInv, ReadBefore, Past, Owed
  <1>10. OwnEditIsRead'
    BY <1>1 DEF UnreadInv, OwnEditIsRead, IsUnread
  <1>11. ~disordered' => InOrder'
    BY <1>1 DEF UnreadInv, InOrder, Owed
  <1> QED
    BY <1>4, <1>5, <1>6, <1>7, <1>8, <1>9, <1>10, <1>11 DEF UnreadInv

LEMMA TriggerCommitsStep ==
  ASSUME UnreadInv, NEW b \in bumps, TriggerCommits(b)
  PROVE  UnreadInv'
  <1> DEFINE v == author[b.edit]
  <1>0. /\ clock \in Nat /\ updatedAt \in Nat
        /\ reads \in [People -> Nat]
        /\ bumps \union committed \subseteq [edit : 1..Last, at : Nat]
        /\ opens \subseteq [user : People, at : Nat]
        /\ openedAt \in [People -> Nat] /\ Skew \in Nat
        /\ author \in [1..Last -> People]
        /\ Last \in Nat
    BY Facts
  <1>1. /\ updatedAt' = b.at
        /\ reads' = [reads EXCEPT ![v] = b.at]
        /\ bumps' = bumps \ {b}
        /\ committed' = committed \union {b}
        /\ lastWriter' = v
        /\ setBack' = setBack \ {v}
        /\ UNCHANGED <<clock, author, events, opens, unseen, openedAt>>
    BY DEF TriggerCommits, BumpPieceActivity
  <1>2. b.edit \in 1..Last /\ v \in People /\ b.at \in Nat
    BY <1>0
  <1>3. Last' = Last
    BY <1>1 DEF Last
  <1>4. disordered' \in BOOLEAN
    BY DEF TriggerCommits, UnreadInv, TypeOK
  <1>5. ASSUME ~disordered'
        PROVE  ~disordered /\ \A c \in committed : ~(c.edit > b.edit) /\ ~(c.at > b.at)
    BY <1>5, Zenon DEF TriggerCommits
  <1> HIDE DEF v
  <1>6. TypeOK'
    <2>1. b.at \in Stamps
      BY UnreadAssumption DEF UnreadInv, TypeOK, ServerStamps, Stamps
    <2> QED
      BY <1>1, <1>2, <1>4, <2>1 DEF UnreadInv, TypeOK
  <1>7. Written'
    BY <1>1, <1>3 DEF UnreadInv, Written
  <1>8. Past'
    BY <1>0, <1>1, <1>2 DEF UnreadInv, Past
  <1>9. Unseen'
    BY <1>1, <1>3 DEF UnreadInv, Unseen
  <1>10. OpenedBefore'
    BY <1>1 DEF UnreadInv, OpenedBefore
  <1>11. ReadBefore'
    <2> SUFFICES ASSUME NEW u \in People, NEW c \in bumps', Owed(u, c)
                 PROVE  reads'[u] < c.at \/ \E d \in committed' : d.at > c.at
      BY <1>1 DEF ReadBefore, Owed
    <2>1. c \in bumps /\ c # b /\ c.at \in Nat /\ c.at # b.at
      BY <1>0, <1>1 DEF UnreadInv, Past
    <2>2. CASE u = v
      BY <1>0, <1>1, <1>2, <2>1, <2>2
    <2>3. CASE u # v
      BY <1>0, <1>1, <2>1, <2>3 DEF UnreadInv, ReadBefore, Owed
    <2> QED
      BY <2>2, <2>3
  <1>12. OwnEditIsRead'
    <2>1. 1 <= b.at
      BY DEF UnreadInv, Past
    <2> QED
      BY <1>0, <1>1, <1>2, <2>1 DEF OwnEditIsRead, IsUnread
  <1>13. ASSUME ~disordered' PROVE InOrder'
    <2>1. InOrder /\ \A c \in committed : c.edit <= b.edit /\ c.at <= b.at
      BY <1>0, <1>2, <1>5, <1>13 DEF UnreadInv
    <2>2. \A c \in committed' : c.at <= updatedAt'
      BY <1>1, <1>2, <2>1
    <2>3. ASSUME NEW u \in People, NEW c \in committed', Owed(u, c)
          PROVE  reads'[u] < c.at
      <3>0. /\ c.edit \in 1..Last /\ author[c.edit] # u
            /\ \A i \in 1..Last : author[i] = u => i < c.edit
        BY <2>3 DEF UnreadInv, Unseen, Owed
      <3>1. CASE u = v
        \* The committed edit is later than b's, so b comes out of order.
        <4>1. b.edit < c.edit /\ c # b
          BY <1>2, <3>0, <3>1 DEF v
        <4>2. c.edit <= b.edit
          BY <1>1, <2>1, <2>3, <4>1
        <4> QED
          BY <1>2, <3>0, <4>1, <4>2
      <3>2. CASE u # v /\ c = b
        <4>1. reads'[u] = reads[u] /\ ~(\E d \in committed : d.at > b.at)
          BY <1>0, <1>1, <1>5, <1>13, <3>2
        <4> QED
          BY <2>3, <3>2, <4>1 DEF UnreadInv, ReadBefore, Owed
      <3>3. CASE u # v /\ c # b
        BY <1>0, <1>1, <2>1, <2>3, <3>3 DEF InOrder, Owed
      <3> QED
        BY <3>1, <3>2, <3>3
    <2> QED
      BY <1>1, <2>2, <2>3 DEF InOrder, Owed
  <1> QED
    BY <1>6, <1>7, <1>8, <1>9, <1>10, <1>11, <1>12, <1>13 DEF UnreadInv

LEMMA TriggerDiesStep ==
  ASSUME UnreadInv, NEW b \in bumps, TriggerDies(b)
  PROVE  UnreadInv'
  <1>1. /\ bumps' \subseteq bumps
        /\ UNCHANGED <<clock, updatedAt, reads, author, events, opens,
                       unseen, openedAt, committed, disordered, lastWriter, setBack>>
    BY DEF TriggerDies, history
  <1>2. Last' = Last
    BY <1>1 DEF Last
  <1>3. TypeOK'
    BY <1>1 DEF UnreadInv, TypeOK
  <1>4. Written' /\ Unseen'
    BY <1>1, <1>2 DEF UnreadInv, Written, Unseen
  <1>5. Past'
    BY <1>1 DEF UnreadInv, Past
  <1>6. OpenedBefore' /\ ReadBefore'
    BY <1>1 DEF UnreadInv, OpenedBefore, ReadBefore, Owed
  <1>7. OwnEditIsRead' /\ (~disordered' => InOrder')
    BY <1>1 DEF UnreadInv, OwnEditIsRead, IsUnread, InOrder, Owed
  <1> QED
    BY <1>3, <1>4, <1>5, <1>6, <1>7 DEF UnreadInv

LEMMA OpenPieceStep ==
  ASSUME UnreadInv, NEW u \in People, OpenPiece(u)
  PROVE  UnreadInv'
  <1>a. PICK at \in DeviceTime(clock') : opens' = opens \union {[user |-> u, at |-> at]}
    BY DEF OpenPiece
  <1> DEFINE new == [user |-> u, at |-> at]
  <1>0. /\ clock \in Nat /\ updatedAt \in Nat
        /\ reads \in [People -> Nat]
        /\ bumps \union committed \subseteq [edit : 1..Last, at : Nat]
        /\ opens \subseteq [user : People, at : Nat]
        /\ openedAt \in [People -> Nat] /\ Skew \in Nat
        /\ unseen \in [People -> SUBSET (1..Last)]
    BY Facts
  <1>1. /\ clock < MaxClock /\ clock' = clock + 1
        /\ opens' = opens \union {new}
        /\ unseen' = [unseen EXCEPT ![u] = {}]
        /\ openedAt' = [openedAt EXCEPT ![u] = clock + 1]
        /\ UNCHANGED <<updatedAt, reads, author, events, bumps,
                       committed, disordered, lastWriter, setBack>>
    BY <1>a DEF OpenPiece, Tick
  <1>2. /\ new.user = u /\ new.at = at /\ clock' \in ServerStamps
        /\ at \in Stamps /\ at \in Nat /\ 1 <= at /\ at <= clock + 1 + Skew
    BY <1>0, <1>1, <1>a, UnreadAssumption DEF ServerStamps, Stamps, DeviceTime
  <1>3. Last' = Last
    BY <1>1 DEF Last
  <1>4. TypeOK'
    <2>1. opens' \subseteq [user : People, at : Stamps]
      BY <1>1, <1>2 DEF UnreadInv, TypeOK
    <2>2. unseen' \in [People -> SUBSET Edits]
      BY <1>1 DEF UnreadInv, TypeOK
    <2> QED
      BY <1>1, <1>2, <2>1, <2>2 DEF UnreadInv, TypeOK
  <1> HIDE DEF new
  <1>5. unseen'[u] = {} /\ \A v \in People : unseen'[v] \subseteq unseen[v]
    BY <1>0, <1>1
  <1>6. Written'
    BY <1>1, <1>3 DEF UnreadInv, Written
  <1>7. Past'
    BY <1>0, <1>1, <1>2 DEF UnreadInv, Past
  <1>8. Unseen'
    BY <1>1, <1>3, <1>5 DEF UnreadInv, Unseen
  <1>9. OpenedBefore'
    <2>1. openedAt'[u] = clock + 1 /\ \A v \in People : openedAt[v] <= openedAt'[v]
      BY <1>0, <1>1 DEF UnreadInv, Past
    <2>2. \A o \in opens' : o.user \in People /\ o.at \in Nat
      BY <1>0, <1>1, <1>2
    <2>3. \A v \in People : openedAt'[v] \in Nat
      BY <1>0, <1>1
    <2> QED
      BY <1>0, <1>1, <1>2, <2>1, <2>2, <2>3 DEF UnreadInv, OpenedBefore
  <1>10. ReadBefore'
    BY <1>1, <1>5 DEF UnreadInv, ReadBefore, Owed
  <1>11. OwnEditIsRead'
    BY <1>1 DEF UnreadInv, OwnEditIsRead, IsUnread
  <1>12. ~disordered' => InOrder'
    BY <1>1, <1>5 DEF UnreadInv, InOrder, Owed
  <1> QED
    BY <1>4, <1>6, <1>7, <1>8, <1>9, <1>10, <1>11, <1>12 DEF UnreadInv

LEMMA MarkOpenedStep ==
  ASSUME UnreadInv, NEW o \in opens, MarkOpened(o)
  PROVE  UnreadInv'
  <1>0. /\ clock \in Nat /\ updatedAt \in Nat
        /\ reads \in [People -> Nat]
        /\ bumps \union committed \subseteq [edit : 1..Last, at : Nat]
        /\ opens \subseteq [user : People, at : Nat]
        /\ openedAt \in [People -> Nat] /\ Skew \in Nat
    BY Facts
  <1>1. /\ reads' = [reads EXCEPT ![o.user] = o.at]
        /\ opens' \subseteq opens
        /\ setBack' = IF o.at < reads[o.user] THEN setBack \union {o.user} ELSE setBack
        /\ UNCHANGED <<clock, updatedAt, author, events, bumps,
                       unseen, openedAt, committed, disordered, lastWriter>>
    BY DEF MarkOpened
  <1>2. /\ o.user \in People /\ o.at \in Nat /\ 1 <= o.at
        /\ o.at <= openedAt[o.user] + Skew
        /\ o.at \in Stamps
    BY <1>0 DEF UnreadInv, OpenedBefore, TypeOK
  <1>3. Last' = Last
    BY <1>1 DEF Last
  <1>4. TypeOK'
    <2>1. reads' \in [People -> Stamps] /\ setBack' \subseteq People
      BY <1>1, <1>2 DEF UnreadInv, TypeOK
    <2> QED
      BY <1>1, <2>1 DEF UnreadInv, TypeOK
  <1>5. Written' /\ Unseen'
    BY <1>1, <1>3 DEF UnreadInv, Written, Unseen
  <1>6. Past'
    BY <1>0, <1>1, <1>2 DEF UnreadInv, Past
  <1>7. OpenedBefore'
    BY <1>1 DEF UnreadInv, OpenedBefore
  <1>8. \A v \in People : reads'[v] = IF v = o.user THEN o.at ELSE reads[v]
    BY <1>0, <1>1
  <1>9. ReadBefore'
    BY <1>0, <1>1, <1>2, <1>8 DEF UnreadInv, ReadBefore, Owed
  <1>10. OwnEditIsRead'
    <2> SUFFICES ASSUME NEW v \in People \ setBack', lastWriter = v
                 PROVE  ~IsUnread(v)'
      BY <1>1 DEF OwnEditIsRead
    <2>1. v \notin setBack /\ ~IsUnread(v)
      BY <1>1 DEF UnreadInv, OwnEditIsRead
    <2>2. CASE v = o.user
      BY <1>0, <1>1, <1>2, <1>8, <2>1, <2>2 DEF IsUnread
    <2>3. CASE v # o.user
      BY <1>1, <1>8, <2>1, <2>3 DEF IsUnread
    <2> QED
      BY <2>2, <2>3
  <1>11. ~disordered' => InOrder'
    BY <1>0, <1>1, <1>2, <1>8 DEF UnreadInv, InOrder, Owed
  <1> QED
    BY <1>4, <1>5, <1>6, <1>7, <1>9, <1>10, <1>11 DEF UnreadInv

LEMMA OpenLostStep ==
  ASSUME UnreadInv, NEW o \in opens, OpenLost(o)
  PROVE  UnreadInv'
  <1>1. /\ opens' \subseteq opens
        /\ UNCHANGED <<clock, updatedAt, reads, author, events, bumps,
                       unseen, openedAt, committed, disordered, lastWriter, setBack>>
    BY DEF OpenLost, history
  <1>2. Last' = Last
    BY <1>1 DEF Last
  <1>3. TypeOK'
    BY <1>1 DEF UnreadInv, TypeOK
  <1>4. Written' /\ Unseen'
    BY <1>1, <1>2 DEF UnreadInv, Written, Unseen
  <1>5. Past'
    BY <1>1 DEF UnreadInv, Past
  <1>6. OpenedBefore' /\ ReadBefore'
    BY <1>1 DEF UnreadInv, OpenedBefore, ReadBefore, Owed
  <1>7. OwnEditIsRead' /\ (~disordered' => InOrder')
    BY <1>1 DEF UnreadInv, OwnEditIsRead, IsUnread, InOrder, Owed
  <1> QED
    BY <1>3, <1>4, <1>5, <1>6, <1>7 DEF UnreadInv

LEMMA RenamePieceStep ==
  ASSUME UnreadInv, RenamePiece
  PROVE  UnreadInv'
  <1>0. /\ clock \in Nat /\ updatedAt \in Nat
        /\ reads \in [People -> Nat]
        /\ bumps \union committed \subseteq [edit : 1..Last, at : Nat]
        /\ opens \subseteq [user : People, at : Nat]
        /\ openedAt \in [People -> Nat] /\ Skew \in Nat
    BY Facts
  <1>a. PICK at \in DeviceTime(clock') :
           /\ updatedAt' = at
           /\ disordered' = (disordered \/ \E c \in committed : c.at > at)
    BY DEF RenamePiece
  <1>b. at \in Stamps /\ at \in Nat
    BY UnreadAssumption DEF DeviceTime, Stamps
  <1>1. /\ clock < MaxClock /\ clock' = clock + 1
        /\ updatedAt' = at
        /\ lastWriter' = Owner
        /\ UNCHANGED <<reads, author, events, bumps, opens,
                       unseen, openedAt, committed, setBack>>
    BY <1>a DEF RenamePiece, Tick
  <1>2. Last' = Last
    BY <1>1 DEF Last
  <1>3. TypeOK'
    <2>1. /\ clock' \in ServerStamps /\ updatedAt' \in Stamps
          /\ disordered' \in BOOLEAN
      BY <1>0, <1>1, <1>a, <1>b, UnreadAssumption DEF ServerStamps
    <2> QED
      BY <1>1, <2>1, UnreadAssumption DEF UnreadInv, TypeOK
  <1>4. Written' /\ Unseen'
    BY <1>1, <1>2 DEF UnreadInv, Written, Unseen
  <1>5. Past'
    BY <1>0, <1>1 DEF UnreadInv, Past
  <1>6. OpenedBefore' /\ ReadBefore'
    BY <1>1 DEF UnreadInv, OpenedBefore, ReadBefore, Owed
  <1>7. OwnEditIsRead'
    BY <1>1 DEF OwnEditIsRead, IsUnread
  <1>8. ~disordered' => InOrder'
    <2>1. \A c \in committed : c.at \in Nat
      BY <1>0
    <2>2. ASSUME ~disordered' PROVE ~disordered /\ \A c \in committed : ~(c.at > at)
      BY <1>a, <2>2, Zenon
    <2>3. ASSUME ~disordered' PROVE \A c \in committed : c.at <= at
      BY <1>b, <2>1, <2>2, <2>3
    <2> QED
      BY <1>1, <2>2, <2>3 DEF UnreadInv, InOrder, Owed
  <1> QED
    BY <1>3, <1>4, <1>5, <1>6, <1>7, <1>8 DEF UnreadInv

LEMMA StutterStep ==
  ASSUME UnreadInv, UNCHANGED vars
  PROVE  UnreadInv'
  <1> USE DEF vars
  <1>1. TypeOK'
    BY DEF UnreadInv, TypeOK
  <1>2. Written' /\ Unseen'
    BY DEF UnreadInv, Written, Unseen, Last
  <1>3. Past' /\ OpenedBefore' /\ ReadBefore'
    BY DEF UnreadInv, Past, OpenedBefore, ReadBefore, Owed
  <1>4. OwnEditIsRead' /\ (~disordered' => InOrder')
    BY DEF UnreadInv, OwnEditIsRead, IsUnread, InOrder, Owed
  <1> QED
    BY <1>1, <1>2, <1>3, <1>4 DEF UnreadInv

LEMMA NextInv == UnreadInv /\ [Next]_vars => UnreadInv'
  <1> SUFFICES ASSUME UnreadInv, [Next]_vars PROVE UnreadInv'
    OBVIOUS
  <1>1. CASE \E u \in People : Edit(u) \/ OpenPiece(u)
    BY <1>1, EditStep, OpenPieceStep
  <1>2. CASE \E e \in Edits : TriggerStamps(e)
    BY <1>2, TriggerStampsStep
  <1>3. CASE \E b \in bumps : TriggerCommits(b) \/ TriggerDies(b)
    BY <1>3, TriggerCommitsStep, TriggerDiesStep
  <1>4. CASE \E o \in opens : MarkOpened(o) \/ OpenLost(o)
    BY <1>4, MarkOpenedStep, OpenLostStep
  <1>5. CASE RenamePiece
    BY <1>5, RenamePieceStep
  <1>6. CASE UNCHANGED vars
    BY <1>6, StutterStep
  <1> QED
    BY <1>1, <1>2, <1>3, <1>4, <1>5, <1>6 DEF Next

-----------------------------------------------------------------------------
(* The theorems.                                                           *)

\* Whatever the triggers and the readers do, the invariant above holds.
THEOREM InductiveInvariant == Spec => []UnreadInv
  BY InitInv, NextInv, PTL DEF Spec

\* The stamps, the edits and what is on its way keep their types.
THEOREM TypeCorrect == Spec => []TypeOK
  <1>1. UnreadInv => TypeOK
    BY DEF UnreadInv
  <1> QED
    BY <1>1, InductiveInvariant, PTL

\* bumpPieceActivity writes the editor's watermark in the batch of the piece's
\* stamp: nobody sees their own edit as unread, in whatever order triggers
\* commit, unless their own markOpened write was overtaken by a later stamp.
THEOREM NoMarkForOwnEdit == Spec => []OwnEditIsRead
  <1>1. UnreadInv => OwnEditIsRead
    BY DEF UnreadInv
  <1> QED
    BY <1>1, InductiveInvariant, PTL

\* While triggers commit in the order of their edits and stamps, an edit of
\* somebody else that a trigger has stamped stays unread until the reader is
\* opened, although the watermarks are written late and without a comparison.
THEOREM NobodyMisses == Spec => []NobodyMissesAnEdit
  <1>1. ASSUME UnreadInv PROVE NobodyMissesAnEdit
    <2> SUFFICES ASSUME ~disordered, NEW u \in People \ {Owner}, NEW b \in committed,
                        b.edit \in unseen[u], b.at > openedAt[u] + Skew
                 PROVE  IsUnread(u)
      BY DEF NobodyMissesAnEdit
    <2>1. updatedAt \in Nat /\ reads[u] \in Nat /\ b.at \in Nat
      BY <1>1, Facts
    <2>2. b.at <= updatedAt /\ reads[u] < b.at
      BY <1>1 DEF UnreadInv, InOrder, Owed
    <2> QED
      BY <2>1, <2>2 DEF IsUnread
  <1> QED
    BY <1>1, InductiveInvariant, PTL

=============================================================================
