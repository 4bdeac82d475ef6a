---------------------------- MODULE UnreadActivity ----------------------------
(***************************************************************************)
(* Unread marks of one shared piece: the triggers onLayerWrite and         *)
(* onNoteWrite (apps/duet/functions/src/pieceActivity.ts) stamp the        *)
(* piece's updatedAt and the editor's own watermark, the reader stamps its *)
(* user's watermark when it opens, and the library shows a piece as unread *)
(* when updatedAt is after the watermark.                                  *)
(*                                                                         *)
(* Every stamp is taken at one moment and written, blindly, at a later     *)
(* one: triggers run in any order, more than once or not at all, and the   *)
(* reader does not await its write.                                        *)
(*                                                                         *)
(* Triggers stamp with the server's clock, which counts the stamps taken,  *)
(* so that no two triggers share one.  The app stamps with the clock of    *)
(* its device, which is off by up to Skew, either way and differently each *)
(* time.                                                                   *)
(***************************************************************************)
EXTENDS Naturals, FiniteSets

CONSTANTS
    People,     \* the participants of the piece
    Owner,      \* its owner
    MaxEdits,   \* bounds the annotation writes
    MaxClock,   \* bounds the stamps taken
    Skew        \* how far a device's clock may be from the server's

ASSUME UnreadAssumption ==
    /\ Owner \in People
    /\ MaxEdits \in Nat
    /\ MaxClock \in Nat \ {0}
    /\ Skew \in Nat

VARIABLES
    clock,      \* the server's clock: the last stamp taken
    updatedAt,  \* pieces/{id}.updatedAt
    reads,      \* reads[u]: lastOpenedAt of reads/{u}; 0 when there is none
    author,     \* author[e] for the edits written so far, numbered as written
    events,     \* edits whose trigger may start (again)
    bumps,      \* running triggers: their edit and the stamp taken
    opens,      \* markOpened writes on their way: their user and stamp
    unseen,     \* history: unseen[u], edits of others since u last looked
    openedAt,   \* history: the server's time when u last opened the piece
    committed,  \* history: the bumps committed
    disordered, \* history: a bump was committed after one of a later edit or
                \* with a later stamp, or a rename stamped before a bump
                \* that it follows
    lastWriter, \* history: who wrote updatedAt last
    setBack     \* history: users whose markOpened write replaced a later stamp

vars == <<clock, updatedAt, reads, author, events, bumps, opens,
          unseen, openedAt, committed, disordered, lastWriter, setBack>>

history == <<unseen, openedAt, committed, disordered, lastWriter, setBack>>

Edits == 1..MaxEdits
ServerStamps == 0..MaxClock
Stamps == 0..(MaxClock + Skew)

\* A stamp is taken.
Tick == clock < MaxClock /\ clock' = clock + 1

\* What a device's clock may show when the server's shows t.
DeviceTime(t) == {s \in Stamps \ {0} : s <= t + Skew /\ t <= s + Skew}

\* The owner imported the piece, with the first stamp, and shared it.
Init ==
    /\ clock = 1
    /\ updatedAt \in DeviceTime(1)
    /\ reads = [u \in People |-> 0]
    /\ author = << >>
    /\ events = {}
    /\ bumps = {}
    /\ opens = {}
    /\ unseen = [u \in People |-> {}]
    /\ openedAt = [u \in People |-> 0]
    /\ committed = {}
    /\ disordered = FALSE
    /\ lastWriter = Owner
    /\ setBack = {}

-----------------------------------------------------------------------------
\* A participant, in the reader, writes a layer or a note: they see what is
\* there, the others have something to see.
Edit(u) ==
    LET e == Cardinality(DOMAIN author) + 1 IN
    /\ e \in Edits
    /\ author' = [i \in 1..e |-> IF i = e THEN u ELSE author[i]]
    /\ events' = events \union {e}
    /\ unseen' = [v \in People |-> IF v = u THEN {} ELSE unseen[v] \union {e}]
    /\ UNCHANGED <<clock, updatedAt, reads, bumps, opens,
                   openedAt, committed, disordered, lastWriter, setBack>>

\* Mutant: the stamp is rounded up.
MutantStampRoundedUp(e) ==
    /\ e \in events
    /\ Tick
    /\ bumps' = bumps \union {[edit |-> e, at |-> clock' + 1]}
    /\ events' \in {events, events \ {e}}
    /\ UNCHANGED <<updatedAt, reads, author, opens, history>>

\* onLayerWrite, onNoteWrite: the trigger runs and takes its stamp.  The event
\* may be delivered again.
TriggerStamps(e) ==
    /\ e \in events
    /\ Tick
    /\ bumps' = bumps \union {[edit |-> e, at |-> clock']}
    /\ events' \in {events, events \ {e}}
    /\ UNCHANGED <<updatedAt, reads, author, opens, history>>

\* Mutant: the piece gets a stamp of its own, taken after the watermark's.
MutantPieceStampedLater(b) ==
    /\ updatedAt' = clock
    /\ reads' = [reads EXCEPT ![author[b.edit]] = b.at]

\* Mutant: the watermark gets a stamp of its own, taken after the piece's.
MutantWatermarkStampedLater(b) ==
    /\ updatedAt' = b.at
    /\ reads' = [reads EXCEPT ![author[b.edit]] = clock]

\* The batch of bumpPieceActivity: the piece and the editor's watermark get the
\* same stamp, whatever they held.
BumpPieceActivity(b) ==
    /\ updatedAt' = b.at
    /\ reads' = [reads EXCEPT ![author[b.edit]] = b.at]

TriggerCommits(b) ==
    /\ b \in bumps
    /\ BumpPieceActivity(b)
    /\ bumps' = bumps \ {b}
    /\ committed' = committed \union {b}
    /\ disordered' =
          (disordered \/ \E c \in committed : c.edit > b.edit \/ c.at > b.at)
    /\ lastWriter' = author[b.edit]
    /\ setBack' = setBack \ {author[b.edit]}
    /\ UNCHANGED <<clock, author, events, opens, unseen, openedAt>>

\* The trigger fails; its event is not retried.
TriggerDies(b) ==
    /\ b \in bumps
    /\ bumps' = bumps \ {b}
    /\ UNCHANGED <<clock, updatedAt, reads, author, events, opens, history>>

\* The reader opens the piece, shows what is there, and sends the watermark,
\* stamped by the device.
OpenPiece(u) ==
    /\ Tick
    /\ \E at \in DeviceTime(clock') : opens' = opens \union {[user |-> u, at |-> at]}
    /\ unseen' = [unseen EXCEPT ![u] = {}]
    /\ openedAt' = [openedAt EXCEPT ![u] = clock']
    /\ UNCHANGED <<updatedAt, reads, author, events, bumps,
                   committed, disordered, lastWriter, setBack>>

\* markOpened's write arrives.
MarkOpened(o) ==
    /\ o \in opens
    /\ reads' = [reads EXCEPT ![o.user] = o.at]
    /\ opens' = opens \ {o}
    /\ setBack' = IF o.at < reads[o.user] THEN setBack \union {o.user} ELSE setBack
    /\ UNCHANGED <<clock, updatedAt, author, events, bumps,
                   unseen, openedAt, committed, disordered, lastWriter>>

\* markOpened is best effort: its write may fail.
OpenLost(o) ==
    /\ o \in opens
    /\ opens' = opens \ {o}
    /\ UNCHANGED <<clock, updatedAt, reads, author, events, bumps, history>>

\* The owner renames the piece: a transaction, which stamps by the device and
\* commits on the document it has read, without looking at the stamp there.
RenamePiece ==
    /\ Tick
    /\ \E at \in DeviceTime(clock') :
          /\ updatedAt' = at
          /\ disordered' = (disordered \/ \E c \in committed : c.at > at)
    /\ lastWriter' = Owner
    /\ UNCHANGED <<reads, author, events, bumps, opens,
                   unseen, openedAt, committed, setBack>>

Next ==
    \/ \E u \in People : Edit(u) \/ OpenPiece(u)
    \/ \E e \in Edits : TriggerStamps(e)
    \/ \E b \in bumps : TriggerCommits(b) \/ TriggerDies(b)
    \/ \E o \in opens : MarkOpened(o) \/ OpenLost(o)
    \/ RenamePiece

Spec == Init /\ [][Next]_vars

-----------------------------------------------------------------------------
(* Properties.                                                             *)

\* LibraryState.isUnread: a piece shared with u, changed after the watermark.
IsUnread(u) ==
    /\ u # Owner
    /\ reads[u] = 0 \/ updatedAt > reads[u]

\* The stamps, the edits and what is on its way keep their types.
TypeOK ==
    /\ clock \in ServerStamps /\ updatedAt \in Stamps
    /\ reads \in [People -> Stamps]
    /\ \E n \in 0..MaxEdits : author \in [1..n -> People]
    /\ events \subseteq Edits
    /\ bumps \subseteq [edit : Edits, at : ServerStamps]
    /\ committed \subseteq [edit : Edits, at : ServerStamps]
    /\ opens \subseteq [user : People, at : Stamps]
    /\ unseen \in [People -> SUBSET Edits]
    /\ openedAt \in [People -> ServerStamps]
    /\ disordered \in BOOLEAN
    /\ lastWriter \in People
    /\ setBack \subseteq People

\* An author never sees their own edit as unread: while updatedAt is the stamp
\* of their edit the piece has no mark for them, unless a markOpened write of
\* theirs, late or stamped by a slow clock, put an earlier stamp over a later.
OwnEditIsRead ==
    \A u \in People \ setBack : lastWriter = u => ~IsUnread(u)

\* Nobody misses an edit for long, however fast the clock of their device: an
\* edit of somebody else, stamped more than Skew after the reader was last
\* opened, keeps the piece unread once its trigger has committed, until the
\* reader is opened again, whatever late markOpened writes, own edits, lost and
\* repeated triggers do meanwhile.  It rests on the piece's stamps being written
\* in order: triggers in that of their edits and stamps, and no rename by a
\* clock behind a stamp that is already there.
NobodyMissesAnEdit ==
    ~disordered =>
        \A u \in People \ {Owner} : \A b \in committed :
            b.edit \in unseen[u] /\ b.at > openedAt[u] + Skew => IsUnread(u)

=============================================================================
