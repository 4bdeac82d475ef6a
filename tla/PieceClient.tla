------------------------------ MODULE PieceClient ------------------------------
(***************************************************************************)
(* The app's own writes to a piece document, beside the Cloud Functions of *)
(* PieceMembership.                                                        *)
(*                                                                         *)
(* FirestorePieceRepository edits the document in a transaction that reads *)
(* it, rebuilds it from the Piece entity (which derives participantIds     *)
(* from ownerId and collaborators, and knows no upload mark) and sets it   *)
(* whole.  FirebasePieceBinaryStore uploads the base PDF and then stamps   *)
(* basePdfUploaded on the document with a merging set.  The rules accept   *)
(* or deny each write.                                                     *)
(***************************************************************************)
EXTENDS PieceMembership

VARIABLES
    object,     \* whether base.pdf is in Cloud Storage
    mark,       \* basePdfUploaded of the piece document
    upload      \* the owner's uploadBasePdf: stored, and about to be stamped?

clientVars == <<vars, object, mark, upload>>

ClientInit ==
    /\ Init
    /\ object = FALSE /\ mark = FALSE /\ upload = FALSE

-----------------------------------------------------------------------------
(* FirestorePieceRepository.                                               *)

\* The document written for an entity with these collaborators.
PieceToFirestore(collaborators) ==
    [exists |-> TRUE,
     participantIds |-> {Owner} \union collaborators,
     collaborators |-> collaborators]

\* The rules accept the document that u's edit makes of the piece.
Accepted(u, collaborators) ==
    AllowPieceUpdate(u, Owner, piece, PieceToFirestore(collaborators))

\* _mutate: the transaction's read needs a participant; its set is committed
\* if the rules accept it, and with it the mark is gone, and otherwise the call
\* fails.
Mutate(u, collaborators) ==
    /\ IsParticipant(u, piece)
    /\ \/ /\ Accepted(u, collaborators)
          /\ piece' = PieceToFirestore(collaborators)
          /\ mark' = FALSE
       \/ /\ ~Accepted(u, collaborators)
          /\ UNCHANGED <<piece, mark>>
    /\ UNCHANGED <<layers, inbox, calls, cascade, leftClean, object, upload>>

\* The owner renames the piece: the title is data, the roster is written back.
RenamePiece == Mutate(Owner, piece.collaborators)

\* A collaborator leaves from the app.
LeaveFromApp(u) ==
    /\ u # Owner
    /\ u \in piece.collaborators
    /\ Mutate(u, piece.collaborators \ {u})

\* The owner removes a collaborator.
RemoveCollaborator(u) ==
    /\ u \in piece.collaborators
    /\ Mutate(Owner, piece.collaborators \ {u})

ClientEdit ==
    \/ RenamePiece
    \/ \E u \in Users : LeaveFromApp(u) \/ RemoveCollaborator(u)

-----------------------------------------------------------------------------
(* FirebasePieceBinaryStore.uploadBasePdf, on the owner's device.          *)

\* The object is put, or found to be there already with the same checksum.
\* The Storage rules ask for the piece's owner.
UploadBasePdf ==
    /\ ~upload
    /\ piece.exists
    /\ object' = TRUE
    /\ upload' = TRUE
    /\ UNCHANGED <<vars, mark>>

\* What a merging set of the mark alone creates where there is no document.
StubDoc == [exists |-> TRUE, participantIds |-> {}, collaborators |-> {}]

\* _markUploaded: on the document it is an update that leaves the membership
\* fields alone; where the document is gone it is a create.
MarkUploaded ==
    /\ upload
    /\ upload' = FALSE
    /\ \/ /\ piece.exists
          /\ mark' = TRUE
          /\ UNCHANGED piece
       \/ /\ ~piece.exists
          /\ IF AllowPieceCreate(Owner, Owner, StubDoc)
               THEN piece' = StubDoc /\ mark' = TRUE
               ELSE UNCHANGED <<piece, mark>>
    /\ UNCHANGED <<layers, inbox, calls, cascade, leftClean, object>>

\* The app is killed, or the write fails, before the mark is written.
UploadDies ==
    /\ upload
    /\ upload' = FALSE
    /\ UNCHANGED <<vars, object, mark>>

-----------------------------------------------------------------------------
\* A step of PieceMembership: a deleted document takes its mark along, and
\* onPieceDeleted removes the object, best effort.
MembershipStep ==
    /\ Next
    /\ mark' = (mark /\ piece'.exists)
    /\ \/ UNCHANGED object
       \/ OnPieceDeleted /\ object' = FALSE
    /\ UNCHANGED upload

ClientNext ==
    \/ MembershipStep
    \/ ClientEdit
    \/ UploadBasePdf \/ MarkUploaded \/ UploadDies

ClientSpec == ClientInit /\ [][ClientNext]_clientVars

-----------------------------------------------------------------------------
(* Properties.                                                             *)

\* The membership state and the upload flags keep their types.
ClientTypeOK ==
    /\ TypeOK
    /\ object \in BOOLEAN /\ mark \in BOOLEAN /\ upload \in BOOLEAN

\* The app's own writes change nobody's membership: with them the system still
\* behaves as PieceMembership says, whatever document a client builds from the
\* roster it read, diverged or not, and whenever its upload ends.
MembershipUnaffected == Spec

\* A document that says its base PDF is uploaded is right: an upload that ends
\* after the owner deleted the piece, when the cascade has removed the object,
\* leaves no document with the mark behind.
MarkMeansStored == mark => object

=============================================================================
