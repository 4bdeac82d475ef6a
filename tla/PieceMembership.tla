---------------------------- MODULE PieceMembership ----------------------------
(***************************************************************************)
(* Membership of one shared piece, as the Cloud Functions sendInvite,      *)
(* acceptInvite, leavePiece and onPieceDeleted and the owner's client      *)
(* maintain it (apps/duet/functions/src).                                  *)
(*                                                                         *)
(* Every callable is a process of its own: each await of a read or a write *)
(* is a step, calls of the same or of different users interleave, a call   *)
(* may die between any two steps (instance killed, request failed), and a  *)
(* client may call again, so that two calls with the same arguments can be *)
(* in flight.  A Firestore transaction is one step.                        *)
(***************************************************************************)
EXTENDS PieceRules

CONSTANTS
    Users,          \* every account
    Owner,          \* the piece's ownerId
    MessageIds,     \* ids of inbox messages: bounds the invites ever sent
    Calls           \* slots for callables in flight: bounds the concurrency

ASSUME OwnerAssumption == Owner \in Users

VARIABLES
    piece,          \* pieces/{id}
    layers,         \* uids with a document in pieces/{id}/layers
    inbox,          \* inbox[u][m]: userInbox/{u}/messages/{m}
    calls,          \* calls[c]: the callable in flight in slot c
    cascade,        \* a deletion event onPieceDeleted has not handled yet
    leftClean       \* history: answered 'left' while out, not rejoined since

vars == <<piece, layers, inbox, calls, cascade, leftClean>>

-----------------------------------------------------------------------------
(* Calls in flight.  pc names the next step; the other fields are the      *)
(* values the call read before and still uses.                             *)

Idle == [pc |-> "idle"]

SendCall   == [pc : {"sendLookup", "sendWrite"}, to : Users]
AcceptCall == [pc : {"acceptJoin", "acceptConsume"}, uid : Users, msg : MessageIds]
LeaveCall  == [pc : {"leaveUpdate"}, uid : Users, roster : SUBSET Users]
DropCall   == [pc : {"leaveDrop"}, uid : Users]

CallState == {Idle} \union SendCall \union AcceptCall \union LeaveCall \union DropCall

PieceDoc == [exists : BOOLEAN, participantIds : SUBSET Users, collaborators : SUBSET Users]

\* purged: deleted together with its account; the id is not used again.
MessageState == {"absent", "unread", "read", "purged"}

At(c, step) == calls[c].pc = step

\* Put slot c in state s.
Goto(c, s) == calls' = [calls EXCEPT ![c] = s]

\* Everyone whose inbox holds an invite to the piece, consumed or not.
Invited == {u \in Users : \E m \in MessageIds : inbox[u][m] # "absent"}

Init ==
    /\ piece = [exists |-> TRUE, participantIds |-> {Owner}, collaborators |-> {}]
    /\ layers = {}
    /\ inbox = [u \in Users |-> [m \in MessageIds |-> "absent"]]
    /\ calls = [c \in Calls |-> Idle]
    /\ cascade = FALSE
    /\ leftClean = {}

-----------------------------------------------------------------------------
(* sendInvite: read the piece, resolve the invitee, write the message.     *)

\* The owner's call has read the piece: it exists and is theirs.
SendInviteCheck(c, to) ==
    /\ calls[c] = Idle
    /\ piece.exists
    /\ Goto(c, [pc |-> "sendLookup", to |-> to])
    /\ UNCHANGED <<piece, layers, inbox, cascade, leftClean>>

\* The directory entry is read: the call goes on when the invitee's account is
\* there and ends as 'no-account' when it is not.
SendInviteLookup(c) ==
    /\ At(c, "sendLookup")
    /\ \/ Goto(c, [pc |-> "sendWrite", to |-> calls[c].to])
       \/ Goto(c, Idle)
    /\ UNCHANGED <<piece, layers, inbox, cascade, leftClean>>

\* A message with a fresh id is written to the recipient's inbox.
SendInviteWrite(c, m) ==
    /\ At(c, "sendWrite")
    /\ \A u \in Users : inbox[u][m] = "absent"
    /\ inbox' = [inbox EXCEPT ![calls[c].to] = [@ EXCEPT ![m] = "unread"]]
    /\ Goto(c, Idle)
    /\ UNCHANGED <<piece, layers, cascade, leftClean>>

-----------------------------------------------------------------------------
(* acceptInvite: read the message, join in a transaction, mark it read.    *)

\* Mutant: the message is not looked at.
MutantAcceptUnchecked(c, u, m) ==
    /\ calls[c] = Idle
    /\ Goto(c, [pc |-> "acceptJoin", uid |-> u, msg |-> m])
    /\ UNCHANGED <<piece, layers, inbox, cascade, leftClean>>

\* The caller's own message is an unread invite.
AcceptInviteRead(c, u, m) ==
    /\ calls[c] = Idle
    /\ inbox[u][m] = "unread"
    /\ Goto(c, [pc |-> "acceptJoin", uid |-> u, msg |-> m])
    /\ UNCHANGED <<piece, layers, inbox, cascade, leftClean>>

\* What the transaction makes of the piece: nothing when it is gone or the
\* caller is a participant already.
Joined(doc, u) ==
    IF ~doc.exists \/ u \in doc.participantIds
      THEN doc
      ELSE [exists |-> TRUE,
            participantIds |-> doc.participantIds \union {u},
            collaborators |-> doc.collaborators \union {u}]

AcceptInviteJoin(c) ==
    LET u == calls[c].uid IN
    /\ At(c, "acceptJoin")
    /\ piece' = Joined(piece, u)
    /\ leftClean' = IF u \in piece'.participantIds THEN leftClean \ {u} ELSE leftClean
    /\ Goto(c, [pc |-> "acceptConsume", uid |-> u, msg |-> calls[c].msg])
    /\ UNCHANGED <<layers, inbox, cascade>>

\* Mutant: the consumed message gets a state of its own.
MutantConsumeOther(c) ==
    /\ At(c, "acceptConsume")
    /\ inbox' = [inbox EXCEPT ![calls[c].uid][calls[c].msg] = "accepted"]
    /\ Goto(c, Idle)
    /\ UNCHANGED <<piece, layers, cascade, leftClean>>

\* The message is marked read, outside the transaction.
AcceptInviteConsume(c) ==
    /\ At(c, "acceptConsume")
    /\ inbox' = [inbox EXCEPT ![calls[c].uid] = [@ EXCEPT ![calls[c].msg] = "read"]]
    /\ Goto(c, Idle)
    /\ UNCHANGED <<piece, layers, cascade, leftClean>>

-----------------------------------------------------------------------------
(* leavePiece: read the piece, write both arrays, delete the own layer.    *)
(* collaborators is written whole, computed from the read; participantIds  *)
(* is an arrayRemove the server applies to the current value.              *)

\* Mutant: the owner may leave too.
MutantLeaveAnyone(c, u) ==
    /\ calls[c] = Idle
    /\ piece.exists
    /\ Goto(c, [pc |-> "leaveUpdate", uid |-> u, roster |-> piece.collaborators \ {u}])
    /\ UNCHANGED <<piece, layers, inbox, cascade, leftClean>>

\* The piece exists and the caller is not its owner (membership is not asked).
LeavePieceRead(c, u) ==
    /\ calls[c] = Idle
    /\ piece.exists
    /\ u # Owner
    /\ Goto(c, [pc |-> "leaveUpdate", uid |-> u, roster |-> piece.collaborators \ {u}])
    /\ UNCHANGED <<piece, layers, inbox, cascade, leftClean>>

\* The piece is gone: the call answers 'left' to anybody and touches nothing,
\* not even a layer of the caller's that still awaits the cascade.
LeavePieceGone(c, u) ==
    /\ calls[c] = Idle
    /\ ~piece.exists
    /\ leftClean' = leftClean \union {u}
    /\ UNCHANGED <<piece, layers, inbox, calls, cascade>>

\* Mutant: participantIds is written whole too, from the stale read.
MutantLeaveWholeWrite(c) ==
    LET u == calls[c].uid IN
    /\ At(c, "leaveUpdate")
    /\ IF piece.exists
         THEN /\ piece' = [exists |-> TRUE,
                           participantIds |-> {Owner} \union calls[c].roster,
                           collaborators |-> calls[c].roster]
              /\ Goto(c, [pc |-> "leaveDrop", uid |-> u])
         ELSE /\ Goto(c, Idle)
              /\ UNCHANGED piece
    /\ UNCHANGED <<layers, inbox, cascade, leftClean>>

\* update() fails on a document that is gone: the call ends with an error.
LeavePieceUpdate(c) ==
    LET u == calls[c].uid IN
    /\ At(c, "leaveUpdate")
    /\ IF piece.exists
         THEN /\ piece' = [exists |-> TRUE,
                           participantIds |-> piece.participantIds \ {u},
                           collaborators |-> calls[c].roster]
              /\ Goto(c, [pc |-> "leaveDrop", uid |-> u])
         ELSE /\ Goto(c, Idle)
              /\ UNCHANGED piece
    /\ UNCHANGED <<layers, inbox, cascade, leftClean>>

\* The layer is deleted and the call answers 'left'.
LeavePieceDrop(c) ==
    LET u == calls[c].uid IN
    /\ At(c, "leaveDrop")
    /\ layers' = layers \ {u}
    /\ leftClean' = IF u \in piece.participantIds THEN leftClean ELSE leftClean \union {u}
    /\ Goto(c, Idle)
    /\ UNCHANGED <<piece, inbox, cascade>>

-----------------------------------------------------------------------------
(* The rest of the system.                                                 *)

\* A call dies between two of its steps; its client may call again.
CallDies(c) ==
    /\ calls[c] # Idle
    /\ Goto(c, Idle)
    /\ UNCHANGED <<piece, layers, inbox, cascade, leftClean>>

\* The annotation repository's addStroke: a client transaction on the
\* author's own layer document.
WriteLayer(u) ==
    /\ AllowLayerWrite(u, u, piece)
    /\ layers' = layers \union {u}
    /\ UNCHANGED <<piece, inbox, calls, cascade, leftClean>>

\* The owner's client deletes the document; its subcollections stay.
DeletePiece(u) ==
    /\ piece.exists
    /\ AllowPieceDelete(u, Owner)
    /\ piece' = NoPiece
    /\ cascade' = TRUE
    /\ UNCHANGED <<layers, inbox, calls, leftClean>>

\* The deletion trigger runs: recursiveDelete removes the subcollections, all
\* of them or, when it fails on the way (the event is not retried), only some.
OnPieceDeleted ==
    /\ cascade
    /\ cascade' = FALSE
    /\ layers' \in SUBSET layers
    /\ UNCHANGED <<piece, inbox, calls, leftClean>>

Step(c) ==
    \/ \E to \in Users : SendInviteCheck(c, to)
    \/ SendInviteLookup(c)
    \/ \E m \in MessageIds : SendInviteWrite(c, m)
    \/ \E u \in Users, m \in MessageIds : AcceptInviteRead(c, u, m)
    \/ AcceptInviteJoin(c)
    \/ AcceptInviteConsume(c)
    \/ \E u \in Users : LeavePieceRead(c, u) \/ LeavePieceGone(c, u)
    \/ LeavePieceUpdate(c)
    \/ LeavePieceDrop(c)
    \/ CallDies(c)

Next ==
    \/ \E c \in Calls : Step(c)
    \/ \E u \in Users : WriteLayer(u) \/ DeletePiece(u)
    \/ OnPieceDeleted

Spec == Init /\ [][Next]_vars

-----------------------------------------------------------------------------
(* Properties.                                                             *)

\* The document, the inboxes and the calls in flight keep their shape.
TypeOK ==
    /\ piece \in PieceDoc
    /\ layers \in SUBSET Users
    /\ inbox \in [Users -> [MessageIds -> MessageState]]
    /\ calls \in [Calls -> CallState]
    /\ cascade \in BOOLEAN
    /\ leftClean \in SUBSET Users

\* Nobody reads a piece, is listed on it or has ink on it who was not invited
\* to it: the rosters that stale leavePiece calls write back, and the layers
\* that calls leave behind, name the owner and invited people only.
OnlyInvitedEverOnPiece ==
    piece.participantIds \union piece.collaborators \union layers
        \subseteq {Owner} \union Invited

\* A call that answered 'left' while its caller was out of the piece keeps its
\* word: until they accept another invite they have no access and, on a piece
\* that exists, no layer, whatever other calls of theirs are still running.
\* Of a deleted piece 'left' promises no more than that nobody can read it: the
\* layer stays until the cascade takes it, and for good when that fails.
LeftMeansGone ==
    \A u \in leftClean :
        u \notin piece.participantIds /\ (u \in layers => ~piece.exists)

\* The owner can read their piece for as long as it exists, and is never one
\* of its collaborators, even when an invite went to their own address.
OwnerKeepsPiece ==
    /\ piece.exists => Owner \in piece.participantIds
    /\ Owner \notin piece.collaborators

\* participantIds is the materialized [ownerId, ...collaborator uids] that
\* docs/duet_cloud_schema.md defines and the rules file repeats.
RosterConsistent ==
    piece.exists => piece.participantIds = {Owner} \union piece.collaborators

\* Access seen from outside.
Access == INSTANCE PieceAccess WITH
            open <- piece.exists, members <- piece.participantIds, invited <- Invited

\* PieceMembership implements PieceAccess: no interleaving of calls gives or
\* takes anyone's access but the one of the caller, who had been invited or
\* chose to leave.
AccessSpec == Access!Spec

=============================================================================
