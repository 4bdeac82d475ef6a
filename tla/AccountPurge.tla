----------------------------- MODULE AccountPurge -----------------------------
(***************************************************************************)
(* Account deletion (apps/duet/functions/src/deleteAccount.ts) beside the  *)
(* membership functions of PieceMembership: a long callable that purges    *)
(* everything of one uid step by step and deletes the Auth user last.  It  *)
(* may die after any step and be called again; it overlaps the other calls *)
(* and the writes of its own user's devices, whose ID tokens stay valid    *)
(* for a while after the account is gone.                                  *)
(*                                                                         *)
(* One piece, and one purge of a user at a time.  Device tokens, read      *)
(* watermarks, audio objects and the entry that DirectoryPublisher writes  *)
(* at the next sign-in are left out.                                       *)
(***************************************************************************)
EXTENDS PieceMembership

CONSTANT NoteIds    \* ids of audio notes: bounds the notes ever recorded

\* The states of a note without an author are no uids.
ASSUME NotesAssumption == "absent" \notin Users /\ "deleted" \notin Users

VARIABLES
    purge,      \* purge[u]: the deleteAccount call of u
    notes,      \* notes[n]: the author of pieces/{id}/notes/{n}, or its state
    directory,  \* uids with an entry in usersByEmail
    accounts,   \* uids with an Auth user
    left,       \* history: out of the piece by leavePiece, not rejoined since
    stray,      \* history: users of whom something appeared while their purge
                \* ran or after it
    relisted    \* history: collaborators put back on the list by a leavePiece
                \* of somebody else that had read it before they were taken off

purgeVars == <<vars, purge, notes, directory, accounts, left, stray, relisted>>

NotPurging == [pc |-> "idle", found |-> {}]

PurgeCall ==
    [pc : {"idle", "inbox", "list", "owned", "notes", "slice", "roster", "auth"},
     found : SUBSET NoteIds]

NotesOf(u) == {n \in NoteIds : notes[n] = u}

PurgeInit ==
    /\ Init
    /\ purge = [u \in Users |-> NotPurging]
    /\ notes = [n \in NoteIds |-> "absent"]
    /\ directory = Users
    /\ accounts = Users
    /\ left = {}
    /\ stray = {}
    /\ relisted = {}

-----------------------------------------------------------------------------
(* deleteAccount.                                                          *)

PurgeAt(u, step) == purge[u].pc = step
PurgeGoto(u, step) == purge' = [purge EXCEPT ![u] = [pc |-> step, found |-> {}]]

\* The directory entries found for the uid are deleted.
PurgeDirectory(u) ==
    /\ PurgeAt(u, "idle")
    /\ directory' = directory \ {u}
    /\ PurgeGoto(u, "inbox")
    /\ UNCHANGED <<vars, notes, accounts>>

\* recursiveDelete of the inbox: all of it, or some of it and the call fails.
PurgeInbox(u) ==
    /\ PurgeAt(u, "inbox")
    /\ \E done \in SUBSET {m \in MessageIds : inbox[u][m] \in {"unread", "read"}} :
          /\ inbox' = [inbox EXCEPT ![u] =
                [m \in MessageIds |-> IF m \in done THEN "purged" ELSE @[m]]]
          /\ PurgeGoto(u, IF \A m \in MessageIds : inbox'[u][m] \notin {"unread", "read"}
                            THEN "list" ELSE "idle")
    /\ UNCHANGED <<piece, layers, calls, cascade, leftClean, notes, directory, accounts>>

\* The pieces whose participantIds hold the uid; ownerId tells what to do.
PurgeList(u) ==
    /\ PurgeAt(u, "list")
    /\ PurgeGoto(u, CASE u \notin piece.participantIds -> "auth"
                      [] u \in piece.participantIds /\ u = Owner -> "owned"
                      [] u \in piece.participantIds /\ u # Owner -> "notes")
    /\ UNCHANGED <<vars, notes, directory, accounts>>

\* An owned piece is deleted whole, its subcollections by onPieceDeleted.
PurgeOwned(u) ==
    /\ PurgeAt(u, "owned")
    /\ piece' = NoPiece
    /\ cascade' = (cascade \/ piece.exists)
    /\ PurgeGoto(u, "auth")
    /\ UNCHANGED <<layers, inbox, calls, leftClean, notes, directory, accounts>>

\* Mutant: the arrays are written before the slice is deleted.
MutantPurgeRosterFirst(u) ==
    /\ PurgeAt(u, "notes")
    /\ piece' = [piece EXCEPT !.participantIds = @ \ {u}, !.collaborators = @ \ {u}]
    /\ purge' = [purge EXCEPT ![u] = [pc |-> "slice", found |-> NotesOf(u)]]
    /\ UNCHANGED <<layers, inbox, calls, cascade, leftClean, notes, directory, accounts>>

\* The notes of the uid on a piece of somebody else are read.
PurgeNotesRead(u) ==
    /\ PurgeAt(u, "notes")
    /\ purge' = [purge EXCEPT ![u] = [pc |-> "slice", found |-> NotesOf(u)]]
    /\ UNCHANGED <<vars, notes, directory, accounts>>

\* The layer and the notes that were read are deleted: all of them, or some of
\* them and the call fails.
PurgeSlice(u) ==
    /\ PurgeAt(u, "slice")
    /\ \E done \in SUBSET purge[u].found, drop \in BOOLEAN :
          /\ notes' = [n \in NoteIds |-> IF n \in done THEN "deleted" ELSE notes[n]]
          /\ layers' = IF drop THEN layers \ {u} ELSE layers
          /\ PurgeGoto(u, IF done = purge[u].found /\ drop THEN "roster" ELSE "idle")
    /\ UNCHANGED <<piece, inbox, calls, cascade, leftClean, directory, accounts>>

\* Mutant: the document is set whether it is there or not.
MutantPurgeRosterSets(u) ==
    /\ PurgeAt(u, "roster")
    /\ piece' = [exists |-> TRUE,
                 participantIds |-> piece.participantIds \ {u},
                 collaborators |-> piece.collaborators \ {u}]
    /\ PurgeGoto(u, "auth")
    /\ UNCHANGED <<layers, inbox, calls, cascade, leftClean, notes, directory, accounts>>

\* The transaction takes the uid out of both arrays as they are now; a piece
\* that is gone is left so.
PurgeRoster(u) ==
    /\ PurgeAt(u, "roster")
    /\ piece' = [piece EXCEPT !.participantIds = @ \ {u}, !.collaborators = @ \ {u}]
    /\ PurgeGoto(u, "auth")
    /\ UNCHANGED <<layers, inbox, calls, cascade, leftClean, notes, directory, accounts>>

\* The Auth user goes last; one that is gone already is no error.
PurgeAuth(u) ==
    /\ PurgeAt(u, "auth")
    /\ accounts' = accounts \ {u}
    /\ PurgeGoto(u, "idle")
    /\ UNCHANGED <<vars, notes, directory>>

\* The call dies between two steps; its client may call again.
PurgeDies(u) ==
    /\ ~PurgeAt(u, "idle")
    /\ PurgeGoto(u, "idle")
    /\ UNCHANGED <<vars, notes, directory, accounts>>

PurgeStep(u) ==
    \/ PurgeDirectory(u) \/ PurgeInbox(u) \/ PurgeList(u) \/ PurgeOwned(u)
    \/ PurgeNotesRead(u) \/ PurgeSlice(u) \/ PurgeRoster(u) \/ PurgeAuth(u)
    \/ PurgeDies(u)

-----------------------------------------------------------------------------
(* The clients and the other functions.                                    *)

\* addAudioNote: the rules ask for a participant who is the note's author.
AddAudioNote(u, n) ==
    /\ notes[n] = "absent"
    /\ IsParticipant(u, piece)
    /\ notes' = [notes EXCEPT ![n] = u]
    /\ UNCHANGED <<vars, purge, directory, accounts>>

\* A step of PieceMembership: sendInvite goes on only when the directory has an
\* entry for the invitee, and the cascade of a deleted piece takes its notes
\* too, all of them or, when it fails, some.
MembershipBesidePurge ==
    /\ Next
    /\ \A c \in Calls : At(c, "sendLookup") /\ calls'[c].pc = "sendWrite" =>
          calls[c].to \in directory
    /\ \/ UNCHANGED notes
       \/ /\ OnPieceDeleted
          /\ \E gone \in SUBSET {n \in NoteIds : notes[n] \in Users} :
                notes' = [n \in NoteIds |-> IF n \in gone THEN "deleted" ELSE notes[n]]
    /\ UNCHANGED <<purge, directory, accounts>>

-----------------------------------------------------------------------------
(* History.                                                                *)

\* Messages of u that are there.
MessagesOf(u) == {m \in MessageIds : inbox[u][m] \in {"unread", "read"}}

\* Something of u appears in this step.
Appears(u) ==
    \/ u \in piece'.participantIds \ piece.participantIds
    \/ u \in layers' \ layers
    \/ ~(NotesOf(u)' \subseteq NotesOf(u))
    \/ ~(MessagesOf(u)' \subseteq MessagesOf(u))

\* The purge of a living account starts, on a user without ink or notes on a
\* piece they are not on.
StartsAfresh(u) ==
    /\ u \in accounts
    /\ PurgeAt(u, "idle") /\ ~PurgeAt(u, "idle")'
    /\ u \in piece.participantIds \/ (u \notin layers /\ NotesOf(u) = {})

\* A leavePiece writes its roster in this step, and u, who is off the list, is
\* on it.
PutBack(u) ==
    /\ u \notin piece.collaborators
    /\ \E c \in Calls :
          /\ At(c, "leaveUpdate") /\ calls'[c].pc = "leaveDrop"
          /\ u \in calls[c].roster

Record ==
    /\ left' = {u \in Users :
          /\ u \notin piece'.participantIds
          /\ \/ u \in left
             \/ u \in piece.participantIds /\ UNCHANGED purge /\ piece'.exists}
    /\ stray' = {u \in Users :
          \/ u \in stray /\ ~StartsAfresh(u)
          \/ Appears(u) /\ (~PurgeAt(u, "idle") \/ u \notin accounts)}
    /\ relisted' = {u \in piece'.collaborators : u \in relisted \/ PutBack(u)}

PurgeNext ==
    /\ \/ MembershipBesidePurge
       \/ \E u \in Users : PurgeStep(u)
       \/ \E u \in Users, n \in NoteIds : AddAudioNote(u, n)
    /\ Record

PurgeSpec == PurgeInit /\ [][PurgeNext]_purgeVars

-----------------------------------------------------------------------------
(* Properties.                                                             *)

\* The membership state and the purges keep their types.
PurgeTypeOK ==
    /\ TypeOK
    /\ purge \in [Users -> PurgeCall]
    /\ notes \in [NoteIds -> Users \union {"absent", "deleted"}]
    /\ directory \in SUBSET Users /\ accounts \in SUBSET Users
    /\ left \in SUBSET Users /\ stray \in SUBSET Users
    /\ relisted \in SUBSET Users

\* A purge that reached its end is complete, however often it died and was
\* called again and whatever other people's calls it overlapped: a deleted
\* account has no access, directory entry or message and, on a piece its user
\* had not left by leavePiece, neither layer nor notes.  What its own user's
\* devices or an inviter wrote while the purge ran is exempt, until the purge is
\* called again on the living account.  The entry with the name and the address
\* among the collaborators is gone too, but for the one way back that
\* deleteAccount does not close: somebody else's leavePiece that had read the
\* list before the purge and writes it afterwards.
PurgedIsGone ==
    \A u \in Users \ accounts :
        /\ u \in piece.collaborators => u \in stray \union relisted
        /\ u \notin stray =>
              /\ u \notin piece.participantIds
              /\ u \notin directory
              /\ MessagesOf(u) = {}
              /\ piece.exists /\ u \notin left => u \notin layers /\ NotesOf(u) = {}

=============================================================================
