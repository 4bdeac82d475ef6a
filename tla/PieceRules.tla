------------------------------ MODULE PieceRules ------------------------------
(***************************************************************************)
(* The Firestore security rules of a piece and of its subcollections       *)
(* (apps/duet/firestore.rules).  A client write is committed only when its *)
(* rule holds; the Cloud Functions use the Admin SDK and bypass them.      *)
(*                                                                         *)
(* A piece document is the record [exists, participantIds, collaborators]. *)
(* The two membership arrays are sets of uids; the update rule compares    *)
(* them as lists, so it also denies some writes that are allowed here,     *)
(* those that only change the order.  ownerId never changes: it is a       *)
(* parameter of the rules.                                                 *)
(***************************************************************************)

\* The document that is not there.
NoPiece == [exists |-> FALSE, participantIds |-> {}, collaborators |-> {}]

\* request.auth.uid in resource.data.participantIds; reading a missing
\* document denies the request.
IsParticipant(uid, piece) == piece.exists /\ uid \in piece.participantIds

\* Mutant: anyone may create a document, whatever is in it.
MutantPieceCreateAny(uid, owner, new) == uid = owner

\* allow create: by the owner, who is its one participant, without
\* collaborators.
AllowPieceCreate(uid, owner, new) ==
    /\ uid = owner
    /\ new.participantIds = {uid}
    /\ new.collaborators = {}

\* Mutant: the membership fields are not compared.
MutantPieceUpdateAnyRoster(uid, owner, old, new) == uid = owner

\* allow update: owner only, and the membership fields keep their values.
AllowPieceUpdate(uid, owner, old, new) ==
    /\ uid = owner
    /\ new.participantIds = old.participantIds
    /\ new.collaborators = old.collaborators

\* allow delete: owner only.
AllowPieceDelete(uid, owner) == uid = owner

\* Mutant: anyone signed in may write their own layer.
MutantLayerWriteOwn(uid, author, piece) == uid = author

\* layers/{author}: a participant writes only their own layer.
AllowLayerWrite(uid, author, piece) == uid = author /\ IsParticipant(uid, piece)

=============================================================================
