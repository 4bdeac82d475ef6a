----------------------------- MODULE PieceProofs -----------------------------
(***************************************************************************)
(* Proofs about PieceMembership, and about PieceClient and AccountPurge,   *)
(* which run the app's own writes and the account deletion beside it: for  *)
(* any set of users, messages, notes and calls in flight.  The inductive   *)
(* invariant of PieceMembership comes first; the other two carry it over,  *)
(* because each of their steps on the membership variables is a step of    *)
(* PieceMembership or one that PieceAccess allows.                         *)
(***************************************************************************)
EXTENDS PieceClient, AccountPurge, TLAPS

\* What a call in flight may assume of the state it acts on although it read
\* it earlier: an accepting caller's message is still there, and a leaving
\* caller is not the owner and writes back a roster of invited people only,
\* without themselves.
CallsJustified ==
    \A c \in Calls :
        /\ calls[c].pc \in {"acceptJoin", "acceptConsume"} =>
              inbox[calls[c].uid][calls[c].msg] # "absent"
        /\ calls[c].pc = "leaveUpdate" =>
              /\ calls[c].uid # Owner /\ calls[c].uid \notin calls[c].roster
              /\ calls[c].roster \subseteq Invited \ {Owner}

\* A piece that is gone has no participants.
GoneIsEmpty == ~piece.exists => piece.participantIds = {}

\* The inductive invariant.
IInv ==
    /\ TypeOK
    /\ CallsJustified
    /\ OnlyInvitedEverOnPiece
    /\ LeftMeansGone
    /\ OwnerKeepsPiece
    /\ GoneIsEmpty

-----------------------------------------------------------------------------
(* Facts about the state that several steps use.                           *)

\* A document of the piece never changes its shape.
LEMMA JoinedType ==
    ASSUME NEW doc \in PieceDoc, NEW u \in Users
    PROVE  /\ Joined(doc, u) \in PieceDoc
           /\ Joined(doc, u).exists = doc.exists
           /\ Joined(doc, u).participantIds \subseteq doc.participantIds \union {u}
           /\ doc.participantIds \subseteq Joined(doc, u).participantIds
           /\ Joined(doc, u).collaborators \subseteq doc.collaborators \union {u}
           /\ ~doc.exists \/ u \in doc.participantIds => Joined(doc, u) = doc
  BY DEF Joined, PieceDoc

\* The fields of a call are what its step says they are.
LEMMA CallFields ==
    ASSUME TypeOK, NEW c \in Calls
    PROVE  /\ calls[c].pc \in {"acceptJoin", "acceptConsume"} =>
                 /\ calls[c] \in AcceptCall
                 /\ calls[c].uid \in Users /\ calls[c].msg \in MessageIds
           /\ calls[c].pc = "leaveUpdate" =>
                 calls[c].uid \in Users /\ calls[c].roster \in SUBSET Users
           /\ calls[c].pc = "leaveDrop" => calls[c].uid \in Users
           /\ calls[c].pc \in {"sendLookup", "sendWrite"} => calls[c].to \in Users
  BY DEF TypeOK, CallState, Idle, SendCall, AcceptCall, LeaveCall, DropCall

\* Writing one message keeps every inbox well formed, changes no other message
\* and can only add to the invited.
LEMMA MessageWritten ==
    ASSUME TypeOK, NEW u \in Users, NEW m \in MessageIds,
           NEW s \in {"unread", "read"},
           inbox' = [inbox EXCEPT ![u] = [inbox[u] EXCEPT ![m] = s]]
    PROVE  /\ inbox' \in [Users -> [MessageIds -> MessageState]]
           /\ \A v \in Users, n \in MessageIds :
                 inbox[v][n] # "absent" => inbox'[v][n] # "absent"
           /\ Invited' = Invited \union {u}
  <1>1. inbox' \in [Users -> [MessageIds -> MessageState]]
    BY DEF TypeOK, MessageState
  <1>2. inbox'[u][m] = s
    BY DEF TypeOK
  <1>3. \A v \in Users, n \in MessageIds : v # u \/ n # m => inbox'[v][n] = inbox[v][n]
    BY DEF TypeOK
  <1>4. \A v \in Users, n \in MessageIds :
           inbox[v][n] # "absent" => inbox'[v][n] # "absent"
    BY <1>2, <1>3
  <1>5. Invited' = Invited \union {u}
    BY <1>2, <1>3, <1>4 DEF Invited
  <1> QED
    BY <1>1, <1>4, <1>5

\* A step that leaves the inboxes alone leaves the invited alone.
LEMMA InvitedUnchanged ==
    inbox' = inbox => Invited' = Invited
  BY DEF Invited

-----------------------------------------------------------------------------
(* The inductive invariant.                                                *)

\* The invariant holds for a piece nobody was invited to yet.
LEMMA InitIInv == Init => IInv
  <1> SUFFICES ASSUME Init PROVE IInv
    OBVIOUS
  <1>1. TypeOK
    BY OwnerAssumption DEF Init, TypeOK, PieceDoc, MessageState, CallState
  <1>2. CallsJustified
    BY DEF Init, CallsJustified, Idle
  <1>3. OnlyInvitedEverOnPiece /\ LeftMeansGone /\ OwnerKeepsPiece /\ GoneIsEmpty
    BY DEF Init, OnlyInvitedEverOnPiece, LeftMeansGone, OwnerKeepsPiece, GoneIsEmpty
  <1> QED
    BY <1>1, <1>2, <1>3 DEF IInv

\* Every step keeps the invariant.
LEMMA NextIInv == IInv /\ [Next]_vars => IInv'
  <1> SUFFICES ASSUME IInv, [Next]_vars
               PROVE  IInv'
    OBVIOUS
  <1> USE OwnerAssumption DEF IInv
  <1>1. ASSUME NEW c \in Calls, NEW to \in Users, SendInviteCheck(c, to)
        PROVE  IInv'
    BY <1>1, InvitedUnchanged
    DEF SendInviteCheck, Goto, TypeOK, CallState, SendCall, CallsJustified,
        OnlyInvitedEverOnPiece, LeftMeansGone, OwnerKeepsPiece, GoneIsEmpty
  <1>2. ASSUME NEW c \in Calls, SendInviteLookup(c)
        PROVE  IInv'
    BY <1>2, InvitedUnchanged, CallFields
    DEF SendInviteLookup, At, Goto, Idle, TypeOK, CallState, SendCall, CallsJustified,
        OnlyInvitedEverOnPiece, LeftMeansGone, OwnerKeepsPiece, GoneIsEmpty
  <1>3. ASSUME NEW c \in Calls, NEW m \in MessageIds, SendInviteWrite(c, m)
        PROVE  IInv'
    <2>1. calls[c].to \in Users
      BY <1>3, CallFields DEF SendInviteWrite, At
    <2>2. /\ inbox' \in [Users -> [MessageIds -> MessageState]]
          /\ \A v \in Users, n \in MessageIds :
                inbox[v][n] # "absent" => inbox'[v][n] # "absent"
          /\ Invited \subseteq Invited'
      BY <1>3, <2>1, MessageWritten DEF SendInviteWrite
    <2>3. TypeOK'
      BY <1>3, <2>2 DEF SendInviteWrite, Goto, Idle, TypeOK, CallState
    <2>4. CallsJustified'
      BY <1>3, <2>2, CallFields DEF SendInviteWrite, Goto, Idle, TypeOK, CallsJustified
    <2> QED
      BY <1>3, <2>2, <2>3, <2>4
      DEF SendInviteWrite, OnlyInvitedEverOnPiece, LeftMeansGone,
          OwnerKeepsPiece, GoneIsEmpty
  <1>4. ASSUME NEW c \in Calls, NEW u \in Users, NEW m \in MessageIds,
               AcceptInviteRead(c, u, m)
        PROVE  IInv'
    BY <1>4, InvitedUnchanged
    DEF AcceptInviteRead, Goto, TypeOK, CallState, AcceptCall, CallsJustified,
        OnlyInvitedEverOnPiece, LeftMeansGone, OwnerKeepsPiece, GoneIsEmpty
  <1>5. ASSUME NEW c \in Calls, AcceptInviteJoin(c)
        PROVE  IInv'
    <2> DEFINE u == calls[c].uid
    <2>1. u \in Users /\ calls[c].msg \in MessageIds /\ u \in Invited
      BY <1>5, CallFields DEF AcceptInviteJoin, At, CallsJustified, Invited
    <2>2. piece' = Joined(piece, u) /\ piece \in PieceDoc
      BY <1>5 DEF AcceptInviteJoin, TypeOK
    <2> HIDE DEF u
    <2>3. /\ piece' \in PieceDoc
          /\ piece'.exists = piece.exists
          /\ piece'.participantIds \subseteq piece.participantIds \union {u}
          /\ piece.participantIds \subseteq piece'.participantIds
          /\ piece'.collaborators \subseteq piece.collaborators \union {u}
          /\ ~piece.exists \/ u \in piece.participantIds => piece' = piece
      BY <2>1, <2>2, JoinedType
    <2>4. TypeOK'
      BY <1>5, <2>1, <2>3
      DEF AcceptInviteJoin, Goto, TypeOK, CallState, AcceptCall, u
    <2>5. CallsJustified'
      BY <1>5, <2>1, InvitedUnchanged
      DEF AcceptInviteJoin, At, Goto, TypeOK, CallsJustified, u
    <2>6. OnlyInvitedEverOnPiece'
      BY <1>5, <2>1, <2>3, InvitedUnchanged DEF AcceptInviteJoin, OnlyInvitedEverOnPiece
    <2>7. LeftMeansGone'
      BY <1>5, <2>3 DEF AcceptInviteJoin, LeftMeansGone, u
    <2>8. OwnerKeepsPiece' /\ GoneIsEmpty'
      BY <2>3 DEF OwnerKeepsPiece, GoneIsEmpty
    <2> QED
      BY <2>4, <2>5, <2>6, <2>7, <2>8
  <1>6. ASSUME NEW c \in Calls, AcceptInviteConsume(c)
        PROVE  IInv'
    <2>1. calls[c].uid \in Users /\ calls[c].msg \in MessageIds
      BY <1>6, CallFields DEF AcceptInviteConsume, At
    <2>2. /\ inbox' \in [Users -> [MessageIds -> MessageState]]
          /\ \A v \in Users, n \in MessageIds :
                inbox[v][n] # "absent" => inbox'[v][n] # "absent"
          /\ Invited \subseteq Invited'
      BY <1>6, <2>1, MessageWritten DEF AcceptInviteConsume
    <2>3. TypeOK'
      BY <1>6, <2>2 DEF AcceptInviteConsume, Goto, Idle, TypeOK, CallState
    <2>4. CallsJustified'
      BY <1>6, <2>2, CallFields DEF AcceptInviteConsume, Goto, Idle, TypeOK, CallsJustified
    <2> QED
      BY <1>6, <2>2, <2>3, <2>4
      DEF AcceptInviteConsume, OnlyInvitedEverOnPiece, LeftMeansGone,
          OwnerKeepsPiece, GoneIsEmpty
  <1>7. ASSUME NEW c \in Calls, NEW u \in Users, LeavePieceRead(c, u)
        PROVE  IInv'
    <2>1. piece.collaborators \subseteq Users
      BY DEF TypeOK, PieceDoc
    <2>2. piece.collaborators \subseteq Invited \ {Owner}
      BY DEF OnlyInvitedEverOnPiece, OwnerKeepsPiece
    <2>3. TypeOK'
      BY <1>7, <2>1 DEF LeavePieceRead, Goto, TypeOK, CallState, LeaveCall
    <2>4. CallsJustified'
      BY <1>7, <2>2, InvitedUnchanged DEF LeavePieceRead, Goto, TypeOK, CallsJustified
    <2> QED
      BY <1>7, <2>3, <2>4, InvitedUnchanged
      DEF LeavePieceRead, OnlyInvitedEverOnPiece, LeftMeansGone,
          OwnerKeepsPiece, GoneIsEmpty
  <1>g. ASSUME NEW c \in Calls, NEW u \in Users, LeavePieceGone(c, u)
        PROVE  IInv'
    BY <1>g, InvitedUnchanged
    DEF LeavePieceGone, TypeOK, CallsJustified,
        OnlyInvitedEverOnPiece, LeftMeansGone, OwnerKeepsPiece, GoneIsEmpty
  <1>8. ASSUME NEW c \in Calls, LeavePieceUpdate(c)
        PROVE  IInv'
    <2>1. /\ calls[c].uid \in Users /\ calls[c].uid # Owner
          /\ calls[c].roster \in SUBSET Users
          /\ calls[c].roster \subseteq Invited \ {Owner}
      BY <1>8, CallFields DEF LeavePieceUpdate, At, CallsJustified
    <2>2. CASE piece.exists
      <3>1. piece' = [exists |-> TRUE,
                      participantIds |-> piece.participantIds \ {calls[c].uid},
                      collaborators |-> calls[c].roster]
        BY <1>8, <2>2 DEF LeavePieceUpdate
      <3>2. TypeOK'
        BY <1>8, <2>1, <2>2, <3>1
        DEF LeavePieceUpdate, Goto, TypeOK, PieceDoc, CallState, DropCall
      <3>3. CallsJustified'
        BY <1>8, <2>2, InvitedUnchanged
        DEF LeavePieceUpdate, Goto, TypeOK, CallsJustified
      <3> QED
        BY <1>8, <2>1, <2>2, <3>1, <3>2, <3>3, InvitedUnchanged
        DEF LeavePieceUpdate, OnlyInvitedEverOnPiece, LeftMeansGone,
            OwnerKeepsPiece, GoneIsEmpty
    <2>3. CASE ~piece.exists
      BY <1>8, <2>3, InvitedUnchanged
      DEF LeavePieceUpdate, Goto, Idle, TypeOK, CallState, CallsJustified,
          OnlyInvitedEverOnPiece, LeftMeansGone, OwnerKeepsPiece, GoneIsEmpty
    <2> QED
      BY <2>2, <2>3
  <1>9. ASSUME NEW c \in Calls, LeavePieceDrop(c)
        PROVE  IInv'
    <2>1. calls[c].uid \in Users
      BY <1>9, CallFields DEF LeavePieceDrop, At
    <2> QED
      BY <1>9, <2>1, InvitedUnchanged
      DEF LeavePieceDrop, Goto, Idle, TypeOK, CallState, CallsJustified,
          OnlyInvitedEverOnPiece, LeftMeansGone, OwnerKeepsPiece, GoneIsEmpty
  <1>10. ASSUME NEW c \in Calls, CallDies(c)
         PROVE  IInv'
    BY <1>10, InvitedUnchanged
    DEF CallDies, Goto, Idle, TypeOK, CallState, CallsJustified,
        OnlyInvitedEverOnPiece, LeftMeansGone, OwnerKeepsPiece, GoneIsEmpty
  <1>11. ASSUME NEW u \in Users, WriteLayer(u)
         PROVE  IInv'
    BY <1>11, InvitedUnchanged
    DEF WriteLayer, AllowLayerWrite, IsParticipant, TypeOK, CallsJustified,
        OnlyInvitedEverOnPiece, LeftMeansGone, OwnerKeepsPiece, GoneIsEmpty
  <1>12. ASSUME NEW u \in Users, DeletePiece(u)
         PROVE  IInv'
    BY <1>12, InvitedUnchanged
    DEF DeletePiece, NoPiece, TypeOK, PieceDoc, CallsJustified,
        OnlyInvitedEverOnPiece, LeftMeansGone, OwnerKeepsPiece, GoneIsEmpty
  <1>13. CASE OnPieceDeleted
    BY <1>13, InvitedUnchanged
    DEF OnPieceDeleted, TypeOK, CallsJustified,
        OnlyInvitedEverOnPiece, LeftMeansGone, OwnerKeepsPiece, GoneIsEmpty
  <1>14. CASE UNCHANGED vars
    BY <1>14, InvitedUnchanged
    DEF vars, TypeOK, CallsJustified,
        OnlyInvitedEverOnPiece, LeftMeansGone, OwnerKeepsPiece, GoneIsEmpty
  <1> QED
    BY <1>1, <1>2, <1>3, <1>4, <1>5, <1>6, <1>7, <1>g, <1>8, <1>9, <1>10, <1>11, <1>12,
       <1>13, <1>14
    DEF Next, Step

\* Every reachable state satisfies the inductive invariant.
THEOREM InductiveInvariant == Spec => []IInv
  BY InitIInv, NextIInv, PTL DEF Spec

\* The type invariant of the membership model.
THEOREM TypeCorrect == Spec => []TypeOK
  <1>1. IInv => TypeOK
    BY DEF IInv
  <1> QED
    BY <1>1, InductiveInvariant, PTL

\* Whoever reads the piece, is listed on it or has ink on it is its owner or
\* was sent an invite to it, however sendInvite, acceptInvite and leavePiece
\* interleave, are retried or die on the way.
THEOREM AccessOnlyByInvite == Spec => []OnlyInvitedEverOnPiece
  <1>1. IInv => OnlyInvitedEverOnPiece
    BY DEF IInv
  <1> QED
    BY <1>1, InductiveInvariant, PTL

\* The 'left' answer of leavePiece, whether the piece was there or gone, is final
\* until the caller joins again: no access and, while there is a piece, no layer.
THEOREM LeavingIsComplete == Spec => []LeftMeansGone
  <1>1. IInv => LeftMeansGone
    BY DEF IInv
  <1> QED
    BY <1>1, InductiveInvariant, PTL

\* leavePiece never puts the owner out of their own piece.
THEOREM OwnerNeverLosesPiece == Spec => []OwnerKeepsPiece
  <1>1. IInv => OwnerKeepsPiece
    BY DEF IInv
  <1> QED
    BY <1>1, InductiveInvariant, PTL

-----------------------------------------------------------------------------
(* PieceMembership implements PieceAccess.                                 *)

\* A new piece is an initial state of PieceAccess.
LEMMA InitAccess == Init => Access!Init
  <1> SUFFICES ASSUME Init PROVE Access!Init
    OBVIOUS
  <1>1. Invited = {}
    BY DEF Init, Invited
  <1> QED
    BY <1>1 DEF Init, Access!Init

\* A step of a call or of a client is a step of PieceAccess, or changes nobody's
\* access.
LEMMA NextAccess == IInv /\ [Next]_vars => [Access!Next]_(Access!accessVars)
  <1> SUFFICES ASSUME IInv, [Next]_vars
               PROVE  [Access!Next]_(Access!accessVars)
    OBVIOUS
  <1> USE DEF IInv
  <1>1. ASSUME piece' = piece, inbox' = inbox
        PROVE  UNCHANGED Access!accessVars
    BY <1>1, InvitedUnchanged DEF Access!accessVars
  <1>2. ASSUME NEW c \in Calls, NEW m \in MessageIds, SendInviteWrite(c, m)
        PROVE  Access!Next
    <2>1. calls[c].to \in Users
      BY <1>2, CallFields DEF SendInviteWrite, At
    <2>2. Invited' = Invited \union {calls[c].to}
      BY <1>2, <2>1, MessageWritten DEF SendInviteWrite
    <2>3. Access!Invite(calls[c].to)
      BY <1>2, <2>2 DEF SendInviteWrite, Access!Invite
    <2> QED
      BY <2>1, <2>3 DEF Access!Next
  <1>3. ASSUME NEW c \in Calls, AcceptInviteJoin(c)
        PROVE  [Access!Next]_(Access!accessVars)
    <2> DEFINE u == calls[c].uid
    <2>1. u \in Users /\ u \in Invited
      BY <1>3, CallFields DEF AcceptInviteJoin, At, CallsJustified, Invited
    <2>2. piece' = Joined(piece, u) /\ inbox' = inbox
      BY <1>3 DEF AcceptInviteJoin
    <2> HIDE DEF u
    <2>3. CASE ~piece.exists \/ u \in piece.participantIds
      BY <1>1, <2>2, <2>3 DEF Joined
    <2>4. CASE piece.exists /\ u \notin piece.participantIds
      <3>1. Access!Join(u)
        BY <2>1, <2>2, <2>4, InvitedUnchanged DEF Joined, Access!Join
      <3> QED
        BY <2>1, <3>1 DEF Access!Next
    <2> QED
      BY <2>3, <2>4
  <1>4. ASSUME NEW c \in Calls, AcceptInviteConsume(c)
        PROVE  UNCHANGED Access!accessVars
    <2>1. /\ calls[c].uid \in Users /\ calls[c].msg \in MessageIds
          /\ calls[c].uid \in Invited
      BY <1>4, CallFields DEF AcceptInviteConsume, At, CallsJustified, Invited
    <2>2. Invited' = Invited \union {calls[c].uid}
      BY <1>4, <2>1, MessageWritten DEF AcceptInviteConsume
    <2> QED
      BY <1>4, <2>1, <2>2 DEF AcceptInviteConsume, Access!accessVars
  <1>5. ASSUME NEW c \in Calls, LeavePieceUpdate(c)
        PROVE  [Access!Next]_(Access!accessVars)
    <2>1. calls[c].uid \in Users /\ calls[c].uid # Owner
      BY <1>5, CallFields DEF LeavePieceUpdate, At, CallsJustified
    <2>2. CASE piece.exists
      <3>1. /\ piece' = [exists |-> TRUE,
                         participantIds |-> piece.participantIds \ {calls[c].uid},
                         collaborators |-> calls[c].roster]
            /\ inbox' = inbox
        BY <1>5, <2>2 DEF LeavePieceUpdate
      <3>2. /\ piece'.exists = piece.exists
            /\ piece'.participantIds = piece.participantIds \ {calls[c].uid}
        BY <2>2, <3>1 DEF TypeOK, PieceDoc
      <3>3. Access!Leave(calls[c].uid)
        BY <2>1, <2>2, <3>1, <3>2, InvitedUnchanged DEF Access!Leave
      <3> QED
        BY <2>1, <3>3 DEF Access!Next
    <2>3. CASE ~piece.exists
      BY <1>1, <1>5, <2>3 DEF LeavePieceUpdate
    <2> QED
      BY <2>2, <2>3
  <1>6. ASSUME NEW u \in Users, DeletePiece(u)
        PROVE  Access!Next
    <2>1. Access!Close
      BY <1>6, InvitedUnchanged DEF DeletePiece, NoPiece, Access!Close
    <2> QED
      BY <2>1 DEF Access!Next
  <1>7. ASSUME NEW c \in Calls, NEW u \in Users, NEW m \in MessageIds,
               AcceptInviteRead(c, u, m)
        PROVE  UNCHANGED Access!accessVars
    BY <1>1, <1>7 DEF AcceptInviteRead
  <1>8. ASSUME NEW c \in Calls, NEW u \in Users,
               \/ SendInviteCheck(c, u) \/ SendInviteLookup(c) \/ LeavePieceRead(c, u)
               \/ LeavePieceDrop(c) \/ CallDies(c)
        PROVE  UNCHANGED Access!accessVars
    BY <1>1, <1>8
    DEF SendInviteCheck, SendInviteLookup, LeavePieceRead, LeavePieceDrop, CallDies
  <1>g. ASSUME NEW c \in Calls, NEW u \in Users, LeavePieceGone(c, u)
        PROVE  UNCHANGED Access!accessVars
    BY <1>1, <1>g DEF LeavePieceGone
  <1>9. ASSUME NEW u \in Users, WriteLayer(u)
        PROVE  UNCHANGED Access!accessVars
    BY <1>1, <1>9 DEF WriteLayer
  <1>10. CASE OnPieceDeleted \/ UNCHANGED vars
    BY <1>1, <1>10 DEF OnPieceDeleted, vars
  <1> QED
    BY <1>2, <1>3, <1>4, <1>5, <1>6, <1>7, <1>8, <1>g, <1>9, <1>10, OwnerAssumption DEF Next, Step

\* The calls and the rules, with all their interleavings, implement the simple
\* promise of PieceAccess.
THEOREM ImplementsAccess == Spec => AccessSpec
  BY InitAccess, NextAccess, InductiveInvariant, PTL DEF Spec, AccessSpec, Access!Spec

-----------------------------------------------------------------------------
(* The app's own writes: PieceClient.                                      *)

\* What keeps the mark honest: a marked document and an upload about to mark
\* one have their object for as long as the piece exists, and the cascade that
\* removes the object runs only once the piece is gone.
MarkInv ==
    /\ mark => object /\ piece.exists
    /\ upload /\ piece.exists => object
    /\ cascade => ~piece.exists

\* The inductive invariant.
ClientIInv == IInv /\ MarkInv

\* The invariant holds before the first upload.
LEMMA InitClientIInv == ClientInit => ClientIInv
  BY InitIInv DEF ClientInit, ClientIInv, MarkInv, Init

\* An edit the rules accept writes the membership it read.
LEMMA EditKeepsPiece ==
  ASSUME IInv, NEW u, NEW cs, Mutate(u, cs)
  PROVE  UNCHANGED vars
  <1>1. CASE Accepted(u, cs) /\ piece' = PieceToFirestore(cs)
    <2>1. piece \in PieceDoc /\ piece.exists
      BY DEF IInv, TypeOK, Mutate, IsParticipant
    <2>2. piece = [exists |-> TRUE, participantIds |-> piece.participantIds,
                   collaborators |-> piece.collaborators]
      BY <2>1 DEF PieceDoc
    <2> QED
      BY <1>1, <2>2 DEF Mutate, Accepted, AllowPieceUpdate, PieceToFirestore, vars
  <1>2. CASE UNCHANGED piece
    BY <1>2 DEF Mutate, vars
  <1> QED
    BY <1>1, <1>2 DEF Mutate

\* A mark that comes too late creates no document.
LEMMA NoStub == ~AllowPieceCreate(Owner, Owner, StubDoc)
  BY DEF AllowPieceCreate, StubDoc

\* Every step of the composed system is a step of PieceMembership or leaves its
\* variables alone.
LEMMA ClientStepIsMembership == IInv /\ [ClientNext]_clientVars => [Next]_vars
  <1> SUFFICES ASSUME IInv, [ClientNext]_clientVars
               PROVE  [Next]_vars
    OBVIOUS
  <1>1. CASE MembershipStep
    BY <1>1 DEF MembershipStep
  <1>2. CASE ClientEdit
    BY <1>2, EditKeepsPiece DEF ClientEdit, RenamePiece, LeaveFromApp, RemoveCollaborator
  <1>3. CASE UploadBasePdf \/ UploadDies
    BY <1>3 DEF UploadBasePdf, UploadDies
  <1>4. CASE MarkUploaded
    BY <1>4, NoStub DEF MarkUploaded, vars
  <1>5. CASE UNCHANGED clientVars
    BY <1>5 DEF clientVars
  <1> QED
    BY <1>1, <1>2, <1>3, <1>4, <1>5 DEF ClientNext

\* A step of PieceMembership that ends in an existing piece began in one; a
\* deletion is the only step that starts a cascade.
LEMMA PieceStaysDeleted ==
  ASSUME Next, cascade => ~piece.exists
  PROVE  /\ piece'.exists => piece.exists
         /\ cascade' => ~piece'.exists
         /\ OnPieceDeleted => ~piece'.exists
  <1>1. CASE \E c \in Calls : Step(c)
    <2> PICK c \in Calls : Step(c)
      BY <1>1
    <2>1. (piece'.exists => piece.exists) /\ cascade' = cascade
      BY DEF Step, SendInviteCheck, SendInviteLookup, SendInviteWrite, AcceptInviteRead,
         AcceptInviteJoin, Joined, AcceptInviteConsume, LeavePieceRead, LeavePieceGone,
         LeavePieceUpdate, LeavePieceDrop, CallDies
    <2>2. OnPieceDeleted => cascade /\ ~cascade'
      BY DEF OnPieceDeleted
    <2> QED
      BY <2>1, <2>2
  <1>2. CASE \E u \in Users : WriteLayer(u)
    BY <1>2 DEF WriteLayer, OnPieceDeleted
  <1>3. CASE \E u \in Users : DeletePiece(u)
    BY <1>3 DEF DeletePiece, NoPiece
  <1>4. CASE OnPieceDeleted
    BY <1>4 DEF OnPieceDeleted
  <1> QED
    BY <1>1, <1>2, <1>3, <1>4 DEF Next

\* Every step keeps the invariant.
LEMMA NextClientIInv == ClientIInv /\ [ClientNext]_clientVars => ClientIInv'
  <1> SUFFICES ASSUME ClientIInv, [ClientNext]_clientVars
               PROVE  ClientIInv'
    OBVIOUS
  <1>1. IInv'
    BY ClientStepIsMembership, NextIInv DEF ClientIInv
  <1>2. MarkInv'
    <2>1. CASE MembershipStep
      <3>1. Next /\ (cascade => ~piece.exists)
        BY <2>1 DEF MembershipStep, ClientIInv, MarkInv
      <3>2. /\ piece'.exists => piece.exists
            /\ cascade' => ~piece'.exists
            /\ OnPieceDeleted => ~piece'.exists
        BY <3>1, PieceStaysDeleted
      <3>3. mark' => mark /\ piece'.exists
        BY <2>1, Zenon DEF MembershipStep
      <3>4. upload' => upload
        BY <2>1, Zenon DEF MembershipStep
      <3>5. object /\ piece'.exists => object'
        BY <2>1, <3>2, Zenon DEF MembershipStep
      <3> QED
        BY <3>2, <3>3, <3>4, <3>5, Zenon DEF ClientIInv, MarkInv
    <2>2. CASE ClientEdit
      <3>1. UNCHANGED vars
        BY <2>2, EditKeepsPiece
        DEF ClientIInv, ClientEdit, RenamePiece, LeaveFromApp, RemoveCollaborator
      <3>2. PICK u, cs : Mutate(u, cs)
        BY <2>2, Zenon DEF ClientEdit, RenamePiece, LeaveFromApp, RemoveCollaborator
      <3>3. object' = object /\ upload' = upload
        BY <3>2 DEF Mutate
      <3>5. mark' = FALSE \/ mark' = mark
        BY <3>2 DEF Mutate
      <3>4. piece' = piece /\ cascade' = cascade
        BY <3>1 DEF vars
      <3>6. mark' => mark
        BY <3>5
      <3>7. (object => object') /\ (upload' => upload)
        BY <3>3
      <3>8. (piece'.exists <=> piece.exists) /\ (cascade' => cascade)
        BY <3>4
      <3> QED
        BY <3>6, <3>7, <3>8, Zenon DEF ClientIInv, MarkInv
    <2>3. CASE UploadBasePdf
      BY <2>3 DEF UploadBasePdf, ClientIInv, MarkInv, vars
    <2>4. CASE MarkUploaded
      BY <2>4, NoStub DEF MarkUploaded, ClientIInv, MarkInv
    <2>5. CASE UploadDies
      BY <2>5 DEF UploadDies, ClientIInv, MarkInv, vars
    <2>6. CASE UNCHANGED clientVars
      BY <2>6 DEF clientVars, vars, ClientIInv, MarkInv
    <2> QED
      BY <2>1, <2>2, <2>3, <2>4, <2>5, <2>6 DEF ClientNext
  <1> QED
    BY <1>1, <1>2 DEF ClientIInv

\* Every reachable state satisfies the inductive invariant.
THEOREM ClientInductiveInvariant == ClientSpec => []ClientIInv
  BY InitClientIInv, NextClientIInv, PTL DEF ClientSpec

\* Every step leaves the upload's flags Boolean.
UploadFlags == object \in BOOLEAN /\ mark \in BOOLEAN /\ upload \in BOOLEAN

LEMMA FlagsStep == UploadFlags /\ [ClientNext]_clientVars => UploadFlags'
  <1> SUFFICES ASSUME UploadFlags, [ClientNext]_clientVars
               PROVE  UploadFlags'
    OBVIOUS
  <1>1. CASE MembershipStep
    BY <1>1, Zenon DEF MembershipStep, UploadFlags
  <1>2. CASE ClientEdit
    <2>1. PICK u, cs : Mutate(u, cs)
      BY <1>2, Zenon DEF ClientEdit, RenamePiece, LeaveFromApp, RemoveCollaborator
    <2>2. object' = object /\ upload' = upload /\ (mark' = FALSE \/ mark' = mark)
      BY <2>1 DEF Mutate
    <2> QED
      BY <2>2, Zenon DEF UploadFlags
  <1>3. CASE UploadBasePdf \/ UploadDies
    BY <1>3, Zenon DEF UploadBasePdf, UploadDies, UploadFlags
  <1>4. CASE MarkUploaded
    <2>1. object' = object /\ upload' = FALSE /\ (mark' = TRUE \/ mark' = mark)
      BY <1>4 DEF MarkUploaded
    <2> QED
      BY <2>1, Zenon DEF UploadFlags
  <1>5. CASE UNCHANGED clientVars
    <2>1. object' = object /\ upload' = upload /\ mark' = mark
      BY <1>5 DEF clientVars
    <2> QED
      BY <2>1, Zenon DEF UploadFlags
  <1> QED
    BY <1>1, <1>2, <1>3, <1>4, <1>5 DEF ClientNext

\* The membership state and the upload's flags keep their types beside the
\* app's own writes, accepted or denied.
THEOREM ClientTypeCorrect == ClientSpec => []ClientTypeOK
  <1>1. ClientInit => UploadFlags
    BY DEF ClientInit, UploadFlags
  <1>2. ClientIInv /\ UploadFlags => ClientTypeOK
    BY DEF ClientIInv, IInv, UploadFlags, ClientTypeOK
  <1> QED
    BY <1>1, <1>2, FlagsStep, ClientInductiveInvariant, PTL DEF ClientSpec

\* The app's own writes change nobody's membership, so that everything proved
\* of PieceMembership holds with them too.
THEOREM ClientKeepsMembership == ClientSpec => MembershipUnaffected
  <1>1. ClientInit => Init
    BY DEF ClientInit
  <1>2. ClientIInv /\ [ClientNext]_clientVars => [Next]_vars
    BY ClientStepIsMembership DEF ClientIInv
  <1> QED
    BY <1>1, <1>2, ClientInductiveInvariant, PTL DEF ClientSpec, MembershipUnaffected, Spec

\* A document marked as uploaded has its base PDF in Storage, however upload,
\* deletion and cascade interleave and wherever the app is killed.
THEOREM MarkIsTrue == ClientSpec => []MarkMeansStored
  <1>1. ClientIInv => MarkMeansStored
    BY DEF ClientIInv, MarkInv, MarkMeansStored
  <1> QED
    BY <1>1, ClientInductiveInvariant, PTL

-----------------------------------------------------------------------------
(* Account deletion.                                                       *)

PurgeTypes ==
    /\ purge \in [Users -> PurgeCall]
    /\ notes \in [NoteIds -> Users \union {"absent", "deleted"}]
    /\ directory \in SUBSET Users /\ accounts \in SUBSET Users
    /\ left \in SUBSET Users /\ stray \in SUBSET Users
    /\ relisted \in SUBSET Users

\* Who is listed on the piece without access to it was put back there.
Listed == piece.collaborators \subseteq piece.participantIds \union relisted

\* The owner's purge deletes the piece and never takes them off its arrays; a
\* piece that is gone has no participants.
PurgeRoles ==
    /\ \A u \in Users : purge[u].pc \in {"notes", "slice", "roster"} => u # Owner
    /\ ~piece.exists => piece.participantIds = {}

Clean(u) == u \notin layers /\ NotesOf(u) = {}

\* The messages of u have been deleted.
InboxDone(u) == purge[u].pc \notin {"idle", "inbox"} \/ u \notin accounts

\* How far the purge of u has come, as long as nothing of u has appeared since
\* it began: whoever is out of the piece left nothing on it, unless they left
\* by leavePiece.
PurgeProgress(u) ==
    /\ purge[u].pc # "idle" \/ u \notin accounts => u \notin directory
    /\ u \notin stray =>
        /\ InboxDone(u) => MessagesOf(u) = {}
        /\ purge[u].pc = "auth" \/ u \notin accounts => u \notin piece.participantIds
        /\ purge[u].pc = "slice" => NotesOf(u) \subseteq purge[u].found
        /\ purge[u].pc = "roster" => Clean(u)
        /\ u \notin piece.participantIds /\ piece.exists /\ u \notin left => Clean(u)

PurgeIInv ==
    /\ IInv
    /\ PurgeTypes
    /\ PurgeRoles
    /\ Listed
    /\ \A u \in Users : PurgeProgress(u)

-----------------------------------------------------------------------------
\* What a step of PieceMembership may do to the piece and the layers.
LEMMA NextFacts ==
  ASSUME Next, TypeOK
  PROVE  /\ piece'.exists => piece.exists
         /\ piece.exists /\ ~piece'.exists => piece'.participantIds = {}
         /\ ~piece.exists => piece'.participantIds = piece.participantIds
         /\ \A u \in layers' \ layers : u \in piece'.participantIds
  <1>0. piece \in PieceDoc
    BY DEF TypeOK
  <1>1. CASE \E c \in Calls : Step(c)
    <2> PICK c \in Calls : Step(c)
      BY <1>1
    <2>1. CASE AcceptInviteJoin(c)
      BY <1>0, <2>1 DEF AcceptInviteJoin, Joined, PieceDoc
    <2>2. CASE LeavePieceUpdate(c)
      BY <1>0, <2>2 DEF LeavePieceUpdate, PieceDoc
    <2>3. CASE ~AcceptInviteJoin(c) /\ ~LeavePieceUpdate(c)
      BY <2>3 DEF Step, SendInviteCheck, SendInviteLookup, SendInviteWrite,
         AcceptInviteRead, AcceptInviteConsume, LeavePieceRead, LeavePieceGone,
         LeavePieceDrop, CallDies
    <2> QED
      BY <2>1, <2>2, <2>3
  <1>2. CASE \E u \in Users : WriteLayer(u)
    BY <1>2 DEF WriteLayer, AllowLayerWrite, IsParticipant
  <1>3. CASE \E u \in Users : DeletePiece(u)
    BY <1>3 DEF DeletePiece, NoPiece
  <1>4. CASE OnPieceDeleted
    BY <1>4 DEF OnPieceDeleted
  <1> QED
    BY <1>1, <1>2, <1>3, <1>4 DEF Next

\* Only a leavePiece puts anybody on the list without access.
LEMMA RosterFacts ==
  ASSUME Next, IInv
  PROVE  \A u \in piece'.collaborators \ piece'.participantIds :
            u \in piece.collaborators \ piece.participantIds \/ PutBack(u)
  <1>0. piece \in PieceDoc
    BY DEF IInv, TypeOK
  <1>1. CASE \E c \in Calls : Step(c)
    <2> PICK c \in Calls : Step(c)
      BY <1>1
    <2>1. CASE AcceptInviteJoin(c)
      BY <1>0, <2>1 DEF AcceptInviteJoin, Joined, PieceDoc
    <2>2. CASE LeavePieceUpdate(c)
      <3>1. calls[c].uid \notin calls[c].roster /\ At(c, "leaveUpdate")
        BY <2>2 DEF LeavePieceUpdate, At, IInv, CallsJustified
      <3>2. CASE ~piece.exists
        BY <2>2, <3>2 DEF LeavePieceUpdate
      <3>3. CASE piece.exists
        <4>1. /\ piece' = [exists |-> TRUE,
                           participantIds |-> piece.participantIds \ {calls[c].uid},
                           collaborators |-> calls[c].roster]
              /\ calls' = [calls EXCEPT ![c] = [pc |-> "leaveDrop", uid |-> calls[c].uid]]
          BY <2>2, <3>3 DEF LeavePieceUpdate, Goto
        <4>2. calls'[c].pc = "leaveDrop"
          BY <4>1 DEF IInv, TypeOK
        <4> QED
          BY <3>1, <4>1, <4>2 DEF PutBack
      <3> QED
        BY <3>2, <3>3
    <2>3. CASE ~AcceptInviteJoin(c) /\ ~LeavePieceUpdate(c)
      BY <2>3 DEF Step, SendInviteCheck, SendInviteLookup, SendInviteWrite,
         AcceptInviteRead, AcceptInviteConsume, LeavePieceRead, LeavePieceGone,
         LeavePieceDrop, CallDies
    <2> QED
      BY <2>1, <2>2, <2>3
  <1>2. CASE \E u \in Users : WriteLayer(u)
    BY <1>2 DEF WriteLayer
  <1>3. CASE \E u \in Users : DeletePiece(u)
    BY <1>3 DEF DeletePiece, NoPiece
  <1>4. CASE OnPieceDeleted
    BY <1>4 DEF OnPieceDeleted
  <1> QED
    BY <1>1, <1>2, <1>3, <1>4 DEF Next

\* A step in which nobody else comes on the list without access keeps it.
LEMMA ListedStep ==
  ASSUME Listed, Record,
         \A u \in piece'.collaborators \ piece'.participantIds :
            u \in piece.collaborators \ piece.participantIds \/ PutBack(u)
  PROVE  Listed'
  BY DEF Listed, Record

\* What Record makes of one user's history.
LEMMA RecordFacts ==
  ASSUME Record, NEW u \in Users
  PROVE  /\ u \notin stray' => u \notin stray \/ StartsAfresh(u)
         /\ u \notin stray' /\ Appears(u) => PurgeAt(u, "idle") /\ u \in accounts
         /\ u \in left /\ u \notin piece'.participantIds => u \in left'
         /\ /\ u \in piece.participantIds /\ u \notin piece'.participantIds
            /\ purge' = purge /\ piece'.exists
            => u \in left'
         /\ left' \in SUBSET Users /\ stray' \in SUBSET Users
  BY DEF Record

LEMMA PurgeInitInv == PurgeInit => PurgeIInv
  <1> SUFFICES ASSUME PurgeInit PROVE PurgeIInv
    OBVIOUS
  <1>1. IInv
    BY InitIInv DEF PurgeInit
  <1>2. \A u \in Users : purge[u].pc = "idle"
    BY DEF PurgeInit, NotPurging
  <1>3. PurgeTypes
    BY DEF PurgeInit, PurgeTypes, NotPurging, PurgeCall
  <1>4. PurgeRoles
    BY <1>2 DEF PurgeInit, PurgeRoles, Init
  <1>5. ASSUME NEW u \in Users PROVE PurgeProgress(u)
    <2>1. u \in accounts /\ u \notin layers
      BY DEF PurgeInit, Init
    <2>2. NotesOf(u) = {}
      BY NotesAssumption DEF PurgeInit, NotesOf
    <2> QED
      BY <1>2, <2>1, <2>2 DEF PurgeProgress, InboxDone, Clean
  <1>6. Listed
    BY DEF PurgeInit, Init, Listed
  <1> QED
    BY <1>1, <1>3, <1>4, <1>5, <1>6 DEF PurgeIInv

\* A step in which the purge of u rests.
LEMMA RestingUser ==
  ASSUME PurgeIInv, Record, NEW u \in Users,
         purge'[u] = purge[u],
         u \in directory' => u \in directory,
         u \in accounts' <=> u \in accounts,
         piece'.exists => piece.exists,
         /\ u \in piece.participantIds /\ u \notin piece'.participantIds
         /\ piece'.exists
         => purge' = purge,
         u \in layers' \ layers \/ ~(NotesOf(u)' \subseteq NotesOf(u))
         => u \in piece'.participantIds
  PROVE  PurgeProgress(u)'
  <1>1. PurgeProgress(u)
    BY DEF PurgeIInv
  <1>2. ASSUME u \notin stray'
        PROVE  /\ InboxDone(u)' => MessagesOf(u)' = {}
               /\ purge'[u].pc = "auth" \/ u \notin accounts' =>
                    u \notin piece'.participantIds
               /\ purge'[u].pc = "slice" => NotesOf(u)' \subseteq purge'[u].found
               /\ purge'[u].pc = "roster" => Clean(u)'
               /\ u \notin piece'.participantIds /\ piece'.exists /\ u \notin left' =>
                    Clean(u)'
    <2>1. u \notin stray
      BY <1>2, RecordFacts DEF StartsAfresh, PurgeAt
    <2>2. Appears(u) => purge[u].pc = "idle" /\ u \in accounts
      BY <1>2, RecordFacts DEF PurgeAt
    <2>3. InboxDone(u)' => MessagesOf(u)' = {}
      BY <1>1, <2>1, <2>2 DEF PurgeProgress, InboxDone, Appears
    <2>4. purge'[u].pc = "auth" \/ u \notin accounts' => u \notin piece'.participantIds
      BY <1>1, <2>1, <2>2 DEF PurgeProgress, Appears
    <2>5. purge'[u].pc = "slice" => NotesOf(u)' \subseteq purge'[u].found
      BY <1>1, <2>1, <2>2 DEF PurgeProgress, Appears
    <2>6. purge'[u].pc = "roster" => Clean(u)'
      BY <1>1, <2>1, <2>2 DEF PurgeProgress, Appears, Clean
    <2>7. ASSUME u \notin piece'.participantIds, piece'.exists, u \notin left'
          PROVE  Clean(u)'
      <3>1. u \notin left /\ u \notin piece.participantIds
        BY <2>7, RecordFacts
      <3>2. Clean(u)
        BY <1>1, <2>1, <2>7, <3>1 DEF PurgeProgress
      <3> QED
        BY <2>7, <3>2 DEF Clean
    <2> QED
      BY <2>3, <2>4, <2>5, <2>6, <2>7
  <1>3. purge'[u].pc # "idle" \/ u \notin accounts' => u \notin directory'
    BY <1>1 DEF PurgeProgress
  <1> QED
    BY <1>2, <1>3 DEF PurgeProgress

LEMMA MembershipPurgeStep ==
  ASSUME PurgeIInv, MembershipBesidePurge, Record
  PROVE  PurgeIInv'
  <1>1. IInv'
    BY NextIInv DEF PurgeIInv, MembershipBesidePurge
  <1>2. /\ piece'.exists => piece.exists
        /\ piece.exists /\ ~piece'.exists => piece'.participantIds = {}
        /\ ~piece.exists => piece'.participantIds = piece.participantIds
        /\ \A u \in layers' \ layers : u \in piece'.participantIds
    BY NextFacts DEF PurgeIInv, IInv, MembershipBesidePurge
  <1>3. UNCHANGED <<purge, directory, accounts>>
    BY DEF MembershipBesidePurge
  <1>4. /\ notes' \in [NoteIds -> Users \union {"absent", "deleted"}]
        /\ \A n \in NoteIds : notes'[n] \in {notes[n], "deleted"}
    BY DEF MembershipBesidePurge, PurgeIInv, PurgeTypes
  <1>5. \A u \in Users : NotesOf(u)' \subseteq NotesOf(u)
    BY <1>4, NotesAssumption DEF NotesOf
  <1>6. PurgeTypes'
    <2>1. left' \in SUBSET Users /\ stray' \in SUBSET Users /\ relisted' \in SUBSET Users
      BY <1>1 DEF Record, IInv, TypeOK, PieceDoc
    <2> QED
      BY <1>3, <1>4, <2>1 DEF PurgeIInv, PurgeTypes
  <1>7. PurgeRoles'
    BY <1>2, <1>3 DEF PurgeIInv, PurgeRoles
  <1>8. \A u \in Users : PurgeProgress(u)'
    BY <1>2, <1>3, <1>5, RestingUser
  <1>9. Listed'
    BY RosterFacts, ListedStep DEF PurgeIInv, MembershipBesidePurge
  <1> QED
    BY <1>1, <1>6, <1>7, <1>8, <1>9 DEF PurgeIInv

LEMMA AddNoteStep ==
  ASSUME PurgeIInv, NEW w \in Users, NEW n \in NoteIds, AddAudioNote(w, n), Record
  PROVE  PurgeIInv'
  <1>1. UNCHANGED <<piece, layers, inbox, calls, cascade, leftClean, purge,
                    directory, accounts>>
    BY DEF AddAudioNote, vars
  <1>2. /\ notes' \in [NoteIds -> Users \union {"absent", "deleted"}]
        /\ \A m \in NoteIds : notes'[m] = notes[m] \/ notes'[m] = w
        /\ w \in piece.participantIds
    BY DEF AddAudioNote, PurgeIInv, PurgeTypes, IsParticipant
  <1>3. \A u \in Users : ~(NotesOf(u)' \subseteq NotesOf(u)) => u = w
    BY <1>2 DEF NotesOf
  <1>4. IInv'
    BY NextIInv, <1>1 DEF PurgeIInv, vars
  <1>5. PurgeTypes'
    <2>1. left' \in SUBSET Users /\ stray' \in SUBSET Users /\ relisted' \in SUBSET Users
      BY <1>4 DEF Record, IInv, TypeOK, PieceDoc
    <2> QED
      BY <1>1, <1>2, <2>1 DEF PurgeIInv, PurgeTypes
  <1>6. PurgeRoles'
    BY <1>1 DEF PurgeIInv, PurgeRoles
  <1>7. \A u \in Users : PurgeProgress(u)'
    BY <1>1, <1>2, <1>3, RestingUser
  <1>8. Listed'
    BY <1>1, ListedStep DEF PurgeIInv
  <1> QED
    BY <1>4, <1>5, <1>6, <1>7, <1>8 DEF PurgeIInv

-----------------------------------------------------------------------------
(* The steps of deleteAccount.                                             *)

\* A purge takes people and layers away and forgets no invite.
LEMMA PurgeKeepsIInv ==
  ASSUME IInv,
         piece' \in PieceDoc,
         piece'.participantIds \subseteq piece.participantIds,
         piece'.collaborators \subseteq piece.collaborators,
         piece'.exists => piece.exists /\ Owner \in piece'.participantIds,
         ~piece'.exists => piece'.participantIds = {},
         layers' \subseteq layers,
         inbox' \in [Users -> [MessageIds -> MessageState]],
         \A u \in Users, m \in MessageIds :
            inbox'[u][m] = "absent" <=> inbox[u][m] = "absent",
         cascade' \in BOOLEAN,
         calls' = calls, leftClean' = leftClean
  PROVE  IInv' /\ Invited' = Invited
  <1>1. Invited' = Invited
    BY DEF Invited
  <1>2. TypeOK'
    BY DEF IInv, TypeOK
  <1>3. CallsJustified'
    <2> SUFFICES ASSUME NEW c \in Calls
                 PROVE  /\ calls[c].pc \in {"acceptJoin", "acceptConsume"} =>
                              inbox'[calls[c].uid][calls[c].msg] # "absent"
                        /\ calls[c].pc = "leaveUpdate" =>
                              /\ calls[c].uid # Owner
                              /\ calls[c].uid \notin calls[c].roster
                              /\ calls[c].roster \subseteq Invited \ {Owner}
      BY <1>1 DEF CallsJustified
    <2> QED
      BY CallFields DEF IInv, CallsJustified
  <1>4. OnlyInvitedEverOnPiece'
    BY <1>1 DEF IInv, OnlyInvitedEverOnPiece
  <1>5. LeftMeansGone' /\ OwnerKeepsPiece' /\ GoneIsEmpty'
    BY DEF IInv, LeftMeansGone, OwnerKeepsPiece, GoneIsEmpty
  <1> QED
    BY <1>1, <1>2, <1>3, <1>4, <1>5 DEF IInv

\* What every step of the purge of w has in common.
PurgeFrame(w) ==
    /\ \A u \in Users : u # w => purge'[u] = purge[u]
    /\ purge' \in [Users -> PurgeCall]
    /\ notes' \in [NoteIds -> Users \union {"absent", "deleted"}]
    /\ \A n \in NoteIds : notes'[n] \in {notes[n], "deleted"}
    /\ layers' \subseteq layers
    /\ \A u \in Users : MessagesOf(u)' \subseteq MessagesOf(u)
    /\ directory' \subseteq directory
    /\ accounts' \subseteq accounts /\ accounts \subseteq accounts' \union {w}
    /\ piece'.exists => piece.exists
    /\ piece'.participantIds \subseteq piece.participantIds
    /\ piece'.exists => piece.participantIds \subseteq piece'.participantIds \union {w}
    /\ piece'.collaborators \subseteq piece.collaborators
    /\ \A u \in piece'.collaborators :
          u \in piece.participantIds => u \in piece'.participantIds

\* A purge step keeps the invariant when it does so for its own user.
LEMMA PurgeFrameStep ==
  ASSUME PurgeIInv, Record, NEW w \in Users, PurgeFrame(w), IInv',
         PurgeRoles', PurgeProgress(w)'
  PROVE  PurgeIInv'
  <1>1. \A u \in Users : NotesOf(u)' \subseteq NotesOf(u)
    BY NotesAssumption DEF NotesOf, PurgeFrame
  <1>2. PurgeTypes'
    <2>1. left' \in SUBSET Users /\ stray' \in SUBSET Users /\ relisted' \in SUBSET Users
      BY DEF Record, IInv, TypeOK, PieceDoc
    <2> QED
      BY <2>1 DEF PurgeFrame, PurgeIInv, PurgeTypes
  <1>3. ASSUME NEW u \in Users, u # w PROVE PurgeProgress(u)'
    <2>1. /\ purge'[u] = purge[u]
          /\ u \in directory' => u \in directory
          /\ u \in accounts' <=> u \in accounts
          /\ piece'.exists => piece.exists
          /\ u \in piece.participantIds /\ piece'.exists => u \in piece'.participantIds
          /\ u \notin layers' \ layers
      BY <1>3 DEF PurgeFrame
    <2> QED
      BY <1>1, <2>1, RestingUser
  <1>4. Listed'
    BY ListedStep DEF PurgeFrame, PurgeIInv
  <1> QED
    BY <1>2, <1>3, <1>4 DEF PurgeIInv

\* Nothing of the user of a purge step appears in it.
LEMMA NothingAppears ==
  ASSUME PurgeIInv, Record, NEW w \in Users, PurgeFrame(w)
  PROVE  /\ NotesOf(w)' \subseteq NotesOf(w)
         /\ Clean(w) => Clean(w)'
         /\ MessagesOf(w) = {} => MessagesOf(w)' = {}
         /\ purge[w].pc # "idle" /\ w \notin stray' => w \notin stray
         /\ w \notin stray' => w \notin stray \/ StartsAfresh(w)
         /\ w \in left /\ w \notin piece'.participantIds => w \in left'
  <1>1. NotesOf(w)' \subseteq NotesOf(w)
    BY NotesAssumption DEF NotesOf, PurgeFrame
  <1>2. MessagesOf(w) = {} => MessagesOf(w)' = {}
    BY DEF PurgeFrame
  <1>3. Clean(w) => Clean(w)'
    BY <1>1 DEF Clean, PurgeFrame
  <1>4. /\ w \notin stray' => w \notin stray \/ StartsAfresh(w)
        /\ w \in left /\ w \notin piece'.participantIds => w \in left'
    BY RecordFacts
  <1>5. purge[w].pc # "idle" => ~StartsAfresh(w)
    BY DEF StartsAfresh, PurgeAt
  <1> QED
    BY <1>1, <1>2, <1>3, <1>4, <1>5

\* Steps that touch neither the piece, the inbox, the layers nor the notes.
LEMMA QuietPurgeStep ==
  ASSUME PurgeIInv, Record, NEW w \in Users, NEW r \in PurgeCall,
         purge' = [purge EXCEPT ![w] = r],
         UNCHANGED <<vars, notes>>,
         directory' \subseteq directory,
         accounts' \subseteq accounts, accounts \subseteq accounts' \union {w},
         r.pc # "idle" \/ w \notin accounts' => w \notin directory',
         r.pc \in {"notes", "slice", "roster"} => w # Owner,
         w \notin stray' /\ (r.pc \notin {"idle", "inbox"} \/ w \notin accounts') =>
            MessagesOf(w) = {},
         w \notin stray' /\ (r.pc = "auth" \/ w \notin accounts') =>
            w \notin piece.participantIds,
         r.pc = "slice" => NotesOf(w) \subseteq r.found,
         r.pc # "roster"
  PROVE  PurgeIInv'
  <1>0. /\ piece' = piece /\ layers' = layers /\ inbox' = inbox /\ notes' = notes
        /\ purge \in [Users -> PurgeCall]
    BY DEF vars, PurgeIInv, PurgeTypes
  <1>1. IInv'
    BY NextIInv DEF PurgeIInv
  <1>2. purge'[w] = r /\ purge' \in [Users -> PurgeCall]
        /\ \A u \in Users : u # w => purge'[u] = purge[u]
    BY <1>0
  <1>3. PurgeFrame(w)
    BY <1>0, <1>2 DEF PurgeFrame, MessagesOf, PurgeIInv, PurgeTypes
  <1>4. PurgeRoles'
    BY <1>0, <1>2 DEF PurgeIInv, PurgeRoles
  <1>5. PurgeProgress(w)'
    <2>1. MessagesOf(w)' = MessagesOf(w) /\ NotesOf(w)' = NotesOf(w)
          /\ (Clean(w)' <=> Clean(w))
      BY <1>0 DEF MessagesOf, NotesOf, Clean
    <2>2. ASSUME w \notin stray', w \notin piece.participantIds, piece.exists,
                 w \notin left'
          PROVE  Clean(w)
      <3>1. w \notin stray \/ StartsAfresh(w)
        BY <1>3, <2>2, NothingAppears
      <3>2. w \notin left
        BY <1>0, <1>3, <2>2, NothingAppears
      <3>3. StartsAfresh(w) => Clean(w)
        BY <2>2 DEF StartsAfresh, Clean
      <3> QED
        BY <2>2, <3>1, <3>2, <3>3 DEF PurgeIInv, PurgeProgress
    <2> QED
      BY <1>0, <1>2, <2>1, <2>2 DEF PurgeProgress, InboxDone
  <1> QED
    BY <1>1, <1>3, <1>4, <1>5, PurgeFrameStep

LEMMA PurgeTypesOf ==
  ASSUME PurgeIInv, NEW w \in Users
  PROVE  /\ purge \in [Users -> PurgeCall] /\ purge[w] \in PurgeCall
         /\ \A step \in {"idle", "inbox", "list", "owned", "notes", "slice",
                         "roster", "auth"} : \A f \in SUBSET NoteIds :
                [pc |-> step, found |-> f] \in PurgeCall
         /\ NotesOf(w) \in SUBSET NoteIds
  BY DEF PurgeIInv, PurgeTypes, PurgeCall, NotesOf

\* The five steps of that kind, and the death of the call.
LEMMA QuietSteps ==
  ASSUME PurgeIInv, Record, NEW w \in Users,
         \/ PurgeDirectory(w) \/ PurgeList(w) \/ PurgeNotesRead(w)
         \/ PurgeAuth(w) \/ PurgeDies(w)
  PROVE  PurgeIInv'
  <1>p. PurgeProgress(w)
    BY DEF PurgeIInv
  <1>s. w \notin stray' /\ purge[w].pc # "idle" => w \notin stray
    BY RecordFacts DEF StartsAfresh, PurgeAt
  <1>1. CASE PurgeDirectory(w)
    <2> DEFINE r == [pc |-> "inbox", found |-> {}]
    <2>1. /\ purge[w].pc = "idle"
          /\ purge' = [purge EXCEPT ![w] = r]
          /\ directory' = directory \ {w}
          /\ UNCHANGED <<vars, notes>> /\ accounts' = accounts
      BY <1>1 DEF PurgeDirectory, PurgeAt, PurgeGoto
    <2>2. r \in PurgeCall /\ r.pc = "inbox"
      BY PurgeTypesOf
    <2> HIDE DEF r
    <2>3. w \notin stray' /\ w \notin accounts =>
             MessagesOf(w) = {} /\ w \notin piece.participantIds
      BY <1>p, RecordFacts DEF PurgeProgress, InboxDone, StartsAfresh
    <2> QED
      BY <2>1, <2>2, <2>3, QuietPurgeStep
  <1>2. CASE PurgeList(w)
    <2>1. PICK step \in {"auth", "owned", "notes"} :
             /\ purge' = [purge EXCEPT ![w] = [pc |-> step, found |-> {}]]
             /\ step = "auth" => w \notin piece.participantIds
             /\ step = "notes" => w # Owner
      <3>1. w \in piece.participantIds \/ w \notin piece.participantIds
        OBVIOUS
      <3> QED
        BY <1>2, <3>1 DEF PurgeList, PurgeGoto
    <2>2. /\ purge[w].pc = "list"
          /\ UNCHANGED <<vars, notes>> /\ accounts' = accounts /\ directory' = directory
      BY <1>2 DEF PurgeList, PurgeAt
    <2> DEFINE r == [pc |-> step, found |-> {}]
    <2>3. r \in PurgeCall /\ r.pc = step
      BY PurgeTypesOf
    <2>4. purge' = [purge EXCEPT ![w] = r]
      BY <2>1
    <2> HIDE DEF r
    <2>5. w \notin directory
      BY <1>p, <2>2 DEF PurgeProgress
    <2>6. w \notin stray' => /\ MessagesOf(w) = {}
                             /\ w \notin accounts => w \notin piece.participantIds
      BY <1>p, <1>s, <2>2 DEF PurgeProgress, InboxDone
    <2> QED
      BY <2>1, <2>2, <2>3, <2>4, <2>5, <2>6, QuietPurgeStep
  <1>3. CASE PurgeNotesRead(w)
    <2> DEFINE r == [pc |-> "slice", found |-> NotesOf(w)]
    <2>1. /\ purge[w].pc = "notes"
          /\ purge' = [purge EXCEPT ![w] = r]
          /\ UNCHANGED <<vars, notes>> /\ accounts' = accounts /\ directory' = directory
      BY <1>3 DEF PurgeNotesRead, PurgeAt
    <2>2. r \in PurgeCall /\ r.pc = "slice" /\ r.found = NotesOf(w)
      BY PurgeTypesOf
    <2> HIDE DEF r
    <2>3. w \notin directory /\ w # Owner
      BY <1>p, <2>1 DEF PurgeProgress, PurgeIInv, PurgeRoles
    <2>4. w \notin stray' => /\ MessagesOf(w) = {}
                             /\ w \notin accounts => w \notin piece.participantIds
      BY <1>p, <1>s, <2>1 DEF PurgeProgress, InboxDone
    <2> QED
      BY <2>1, <2>2, <2>3, <2>4, QuietPurgeStep
  <1>4. CASE PurgeAuth(w)
    <2> DEFINE r == [pc |-> "idle", found |-> {}]
    <2>1. /\ purge[w].pc = "auth"
          /\ purge' = [purge EXCEPT ![w] = r]
          /\ accounts' = accounts \ {w}
          /\ UNCHANGED <<vars, notes>> /\ directory' = directory
      BY <1>4 DEF PurgeAuth, PurgeAt, PurgeGoto
    <2>2. r \in PurgeCall /\ r.pc = "idle"
      BY PurgeTypesOf
    <2> HIDE DEF r
    <2>3. w \notin directory
      BY <1>p, <2>1 DEF PurgeProgress
    <2>4. w \notin stray' => MessagesOf(w) = {} /\ w \notin piece.participantIds
      BY <1>p, <1>s, <2>1 DEF PurgeProgress, InboxDone
    <2> QED
      BY <2>1, <2>2, <2>3, <2>4, QuietPurgeStep
  <1>5. CASE PurgeDies(w)
    <2> DEFINE r == [pc |-> "idle", found |-> {}]
    <2>1. /\ purge[w].pc # "idle"
          /\ purge' = [purge EXCEPT ![w] = r]
          /\ UNCHANGED <<vars, notes>> /\ accounts' = accounts /\ directory' = directory
      BY <1>5 DEF PurgeDies, PurgeAt, PurgeGoto
    <2>2. r \in PurgeCall /\ r.pc = "idle"
      BY PurgeTypesOf
    <2> HIDE DEF r
    <2>3. w \notin directory
      BY <1>p, <2>1 DEF PurgeProgress
    <2>4. w \notin stray' /\ w \notin accounts =>
             MessagesOf(w) = {} /\ w \notin piece.participantIds
      BY <1>p, <1>s, <2>1 DEF PurgeProgress, InboxDone
    <2> QED
      BY <2>1, <2>2, <2>3, <2>4, QuietPurgeStep
  <1> QED
    BY <1>1, <1>2, <1>3, <1>4, <1>5

LEMMA PurgeInboxStep ==
  ASSUME PurgeIInv, Record, NEW w \in Users, PurgeInbox(w)
  PROVE  PurgeIInv'
  <1>p. PurgeProgress(w) /\ inbox \in [Users -> [MessageIds -> MessageState]]
    BY DEF PurgeIInv, IInv, TypeOK
  <1>1. PICK done \in SUBSET {m \in MessageIds : inbox[w][m] \in {"unread", "read"}} :
           /\ inbox' = [inbox EXCEPT ![w] =
                  [m \in MessageIds |-> IF m \in done THEN "purged" ELSE inbox[w][m]]]
           /\ PurgeGoto(w, IF \A m \in MessageIds : inbox'[w][m] \notin {"unread", "read"}
                             THEN "list" ELSE "idle")
    BY DEF PurgeInbox
  <1>2. PICK step \in {"list", "idle"} :
           /\ purge' = [purge EXCEPT ![w] = [pc |-> step, found |-> {}]]
           /\ step = "list" =>
                \A m \in MessageIds : inbox'[w][m] \notin {"unread", "read"}
    <2>1. \/ \A m \in MessageIds : inbox'[w][m] \notin {"unread", "read"}
          \/ ~(\A m \in MessageIds : inbox'[w][m] \notin {"unread", "read"})
      OBVIOUS
    <2> QED
      BY <1>1, <2>1 DEF PurgeGoto
  <1>3. /\ purge[w].pc = "inbox"
        /\ UNCHANGED <<piece, layers, calls, cascade, leftClean, notes, directory,
                       accounts>>
    BY DEF PurgeInbox, PurgeAt
  <1>4. /\ inbox' \in [Users -> [MessageIds -> MessageState]]
        /\ \A u \in Users, m \in MessageIds :
              \/ inbox'[u][m] = inbox[u][m]
              \/ inbox'[u][m] = "purged" /\ inbox[u][m] # "absent"
    BY <1>p, <1>1 DEF MessageState
  <1>5. IInv'
    <2>1. /\ piece' \in PieceDoc /\ cascade' \in BOOLEAN
          /\ piece'.exists => piece.exists /\ Owner \in piece'.participantIds
          /\ ~piece'.exists => piece'.participantIds = {}
      BY <1>3 DEF PurgeIInv, IInv, TypeOK, OwnerKeepsPiece, GoneIsEmpty
    <2> QED
      BY <1>3, <1>4, <2>1, PurgeKeepsIInv DEF PurgeIInv
  <1>6. /\ purge' \in [Users -> PurgeCall] /\ purge'[w].pc = step
        /\ \A u \in Users : u # w => purge'[u] = purge[u]
    <2>1. [pc |-> step, found |-> {}] \in PurgeCall
      BY PurgeTypesOf
    <2> QED
      BY <1>2, <2>1 DEF PurgeIInv, PurgeTypes
  <1>7. \A u \in Users : MessagesOf(u)' \subseteq MessagesOf(u)
    BY <1>4 DEF MessagesOf
  <1>8. PurgeFrame(w)
    BY <1>3, <1>6, <1>7 DEF PurgeFrame, PurgeIInv, PurgeTypes
  <1>9. PurgeRoles'
    BY <1>3, <1>6 DEF PurgeIInv, PurgeRoles
  <1>10. step = "list" => MessagesOf(w)' = {}
    BY <1>2 DEF MessagesOf
  <1>11. PurgeProgress(w)'
    <2>1. w \notin directory'
      BY <1>p, <1>3 DEF PurgeProgress
    <2>2. ASSUME w \notin stray'
          PROVE  /\ w \notin stray
                 /\ InboxDone(w)' => MessagesOf(w)' = {}
                 /\ w \notin accounts => w \notin piece.participantIds
                 /\ w \in left /\ w \notin piece.participantIds => w \in left'
                 /\ Clean(w) => Clean(w)'
      <3>1. w \notin stray
        BY <1>3, <1>8, <2>2, NothingAppears
      <3>2. InboxDone(w)' => MessagesOf(w)' = {}
        BY <1>p, <1>3, <1>6, <1>8, <1>10, <3>1, NothingAppears
           DEF PurgeProgress, InboxDone
      <3> QED
        BY <1>p, <1>3, <1>8, <3>1, <3>2, NothingAppears DEF PurgeProgress
    <2> QED
      BY <1>p, <1>3, <1>6, <2>1, <2>2 DEF PurgeProgress
  <1> QED
    BY <1>5, <1>8, <1>9, <1>11, PurgeFrameStep

LEMMA PurgeSliceStep ==
  ASSUME PurgeIInv, Record, NEW w \in Users, PurgeSlice(w)
  PROVE  PurgeIInv'
  <1>p. PurgeProgress(w) /\ notes \in [NoteIds -> Users \union {"absent", "deleted"}]
    BY DEF PurgeIInv, PurgeTypes
  <1>1. PICK done \in SUBSET purge[w].found, drop \in BOOLEAN :
           /\ notes' = [n \in NoteIds |-> IF n \in done THEN "deleted" ELSE notes[n]]
           /\ layers' = IF drop THEN layers \ {w} ELSE layers
           /\ PurgeGoto(w, IF done = purge[w].found /\ drop THEN "roster" ELSE "idle")
    BY DEF PurgeSlice
  <1>2. PICK step \in {"roster", "idle"} :
           /\ purge' = [purge EXCEPT ![w] = [pc |-> step, found |-> {}]]
           /\ step = "roster" => done = purge[w].found /\ drop
    <2>1. \/ done = purge[w].found /\ drop
          \/ ~(done = purge[w].found /\ drop)
      OBVIOUS
    <2> QED
      BY <1>1, <2>1 DEF PurgeGoto
  <1>3. /\ purge[w].pc = "slice"
        /\ UNCHANGED <<piece, inbox, calls, cascade, leftClean, directory, accounts>>
    BY DEF PurgeSlice, PurgeAt
  <1>4. /\ notes' \in [NoteIds -> Users \union {"absent", "deleted"}]
        /\ \A n \in NoteIds : notes'[n] \in {notes[n], "deleted"}
        /\ layers' \subseteq layers
    BY <1>p, <1>1
  <1>5. IInv'
    <2>1. /\ piece' \in PieceDoc /\ cascade' \in BOOLEAN
          /\ inbox' \in [Users -> [MessageIds -> MessageState]]
          /\ piece'.exists => piece.exists /\ Owner \in piece'.participantIds
          /\ ~piece'.exists => piece'.participantIds = {}
      BY <1>3 DEF PurgeIInv, IInv, TypeOK, OwnerKeepsPiece, GoneIsEmpty
    <2> QED
      BY <1>3, <1>4, <2>1, PurgeKeepsIInv DEF PurgeIInv
  <1>6. /\ purge' \in [Users -> PurgeCall] /\ purge'[w].pc = step
        /\ \A u \in Users : u # w => purge'[u] = purge[u]
    <2>1. [pc |-> step, found |-> {}] \in PurgeCall
      BY PurgeTypesOf
    <2> QED
      BY <1>2, <2>1 DEF PurgeIInv, PurgeTypes
  <1>7. \A u \in Users : MessagesOf(u)' = MessagesOf(u)
    BY <1>3 DEF MessagesOf
  <1>8. PurgeFrame(w)
    BY <1>3, <1>4, <1>6, <1>7 DEF PurgeFrame, PurgeIInv, PurgeTypes
  <1>9. PurgeRoles'
    BY <1>3, <1>6 DEF PurgeIInv, PurgeRoles
  <1>10. ASSUME step = "roster", w \notin stray PROVE Clean(w)'
    <2>1. NotesOf(w) \subseteq done /\ w \notin layers'
      BY <1>p, <1>1, <1>2, <1>3, <1>10 DEF PurgeProgress
    <2>2. NotesOf(w)' = {}
      BY <1>1, <2>1, NotesAssumption DEF NotesOf
    <2> QED
      BY <2>1, <2>2 DEF Clean
  <1>11. PurgeProgress(w)'
    <2>1. w \notin directory'
      BY <1>p, <1>3 DEF PurgeProgress
    <2>2. ASSUME w \notin stray'
          PROVE  /\ w \notin stray /\ MessagesOf(w)' = {}
                 /\ w \notin accounts => w \notin piece.participantIds
                 /\ w \in left /\ w \notin piece.participantIds => w \in left'
                 /\ Clean(w) => Clean(w)'
      <3>1. w \notin stray
        BY <1>3, <1>8, <2>2, NothingAppears
      <3> QED
        BY <1>p, <1>3, <1>7, <1>8, <3>1, NothingAppears DEF PurgeProgress, InboxDone
    <2> QED
      BY <1>p, <1>3, <1>6, <1>10, <2>1, <2>2 DEF PurgeProgress
  <1> QED
    BY <1>5, <1>8, <1>9, <1>11, PurgeFrameStep

\* The two steps that put w out of the piece.
LEMMA PurgeOutStep ==
  ASSUME PurgeIInv, Record, NEW w \in Users, PurgeOwned(w) \/ PurgeRoster(w)
  PROVE  PurgeIInv'
  <1>p. PurgeProgress(w) /\ piece \in PieceDoc
    BY DEF PurgeIInv, IInv, TypeOK
  <1>1. /\ purge[w].pc \in {"owned", "roster"}
        /\ purge' = [purge EXCEPT ![w] = [pc |-> "auth", found |-> {}]]
        /\ UNCHANGED <<layers, inbox, calls, leftClean, notes, directory, accounts>>
    BY DEF PurgeOwned, PurgeRoster, PurgeAt, PurgeGoto
  <1>2. /\ piece' \in PieceDoc
        /\ w \notin piece'.participantIds
        /\ piece'.participantIds \subseteq piece.participantIds
        /\ piece'.collaborators \subseteq piece.collaborators
        /\ piece'.exists => /\ piece.exists
                            /\ purge[w].pc = "roster"
                            /\ piece'.participantIds = piece.participantIds \ {w}
        /\ ~piece'.exists => piece'.participantIds = {}
        /\ \A u \in piece'.collaborators :
              u \in piece.participantIds => u \in piece'.participantIds
    <2>1. CASE PurgeOwned(w)
      BY <2>1 DEF PurgeOwned, NoPiece, PieceDoc
    <2>2. CASE PurgeRoster(w)
      <3>1. piece' = [piece EXCEPT !.participantIds = piece.participantIds \ {w},
                                   !.collaborators = piece.collaborators \ {w}]
            /\ purge[w].pc = "roster"
        BY <2>2 DEF PurgeRoster, PurgeAt
      <3> QED
        BY <1>p, <3>1 DEF PieceDoc, PurgeIInv, PurgeRoles
    <2> QED
      BY <2>1, <2>2
  <1>3. IInv'
    <2>1. purge[w].pc = "roster" => w # Owner
      BY DEF PurgeIInv, PurgeRoles
    <2>2. piece'.exists => Owner \in piece'.participantIds
      BY <1>2, <2>1 DEF PurgeIInv, IInv, OwnerKeepsPiece
    <2>3. /\ cascade' \in BOOLEAN
          /\ inbox' \in [Users -> [MessageIds -> MessageState]]
      BY <1>1 DEF PurgeOwned, PurgeRoster, PurgeIInv, IInv, TypeOK
    <2> QED
      BY <1>1, <1>2, <2>2, <2>3, PurgeKeepsIInv DEF PurgeIInv
  <1>4. /\ purge' \in [Users -> PurgeCall] /\ purge'[w].pc = "auth"
        /\ \A u \in Users : u # w => purge'[u] = purge[u]
    <2>1. [pc |-> "auth", found |-> {}] \in PurgeCall
      BY PurgeTypesOf
    <2> QED
      BY <1>1, <2>1 DEF PurgeIInv, PurgeTypes
  <1>5. \A u \in Users : MessagesOf(u)' = MessagesOf(u)
    BY <1>1 DEF MessagesOf
  <1>6. PurgeFrame(w)
    BY <1>1, <1>2, <1>4, <1>5 DEF PurgeFrame, PurgeIInv, PurgeTypes
  <1>7. PurgeRoles'
    BY <1>2, <1>4 DEF PurgeIInv, PurgeRoles
  <1>8. PurgeProgress(w)'
    <2>1. w \notin directory'
      BY <1>p, <1>1 DEF PurgeProgress
    <2>2. ASSUME w \notin stray'
          PROVE  MessagesOf(w)' = {} /\ (piece'.exists => Clean(w)')
      <3>1. w \notin stray
        BY <1>1, <1>6, <2>2, NothingAppears
      <3>2. MessagesOf(w) = {} /\ (purge[w].pc = "roster" => Clean(w))
        BY <1>p, <1>1, <3>1 DEF PurgeProgress, InboxDone
      <3> QED
        BY <1>2, <1>5, <1>6, <3>2, NothingAppears
    <2> QED
      BY <1>2, <1>4, <2>1, <2>2 DEF PurgeProgress
  <1> QED
    BY <1>3, <1>6, <1>7, <1>8, PurgeFrameStep

LEMMA PurgeNextInv == PurgeIInv /\ [PurgeNext]_purgeVars => PurgeIInv'
  <1> SUFFICES ASSUME PurgeIInv, [PurgeNext]_purgeVars PROVE PurgeIInv'
    OBVIOUS
  <1>1. CASE PurgeNext
    BY <1>1, MembershipPurgeStep, AddNoteStep, QuietSteps, PurgeInboxStep,
       PurgeSliceStep, PurgeOutStep
       DEF PurgeNext, PurgeStep
  <1>2. CASE UNCHANGED purgeVars
    <2>1. IInv'
      BY <1>2, NextIInv DEF PurgeIInv, purgeVars
    <2>2. UNCHANGED <<piece, layers, inbox, purge, notes, directory, accounts, left, stray,
                    relisted>>
      BY <1>2 DEF purgeVars, vars
    <2>3. PurgeTypes' /\ PurgeRoles' /\ Listed'
      BY <2>2 DEF PurgeIInv, PurgeTypes, PurgeRoles, Listed
    <2>4. \A u \in Users : PurgeProgress(u)'
      BY <2>2 DEF PurgeIInv, PurgeProgress, InboxDone, MessagesOf, NotesOf, Clean
    <2> QED
      BY <2>1, <2>3, <2>4 DEF PurgeIInv
  <1> QED
    BY <1>1, <1>2

LEMMA PurgeInvHolds == PurgeSpec => []PurgeIInv
  BY PurgeInitInv, PurgeNextInv, PTL DEF PurgeSpec

\* The membership state and the purges keep their types.
THEOREM PurgeTypeCorrect == PurgeSpec => []PurgeTypeOK
  <1>1. PurgeIInv => PurgeTypeOK
    BY DEF PurgeIInv, IInv, PurgeTypes, PurgeTypeOK
  <1> QED
    BY <1>1, PurgeInvHolds, PTL

\* For any number of people, invites, notes and calls under way: a deleteAccount
\* that got to its end leaves nothing of its user behind, wherever it died and
\* was called again before, except what was written while it ran; among the
\* collaborators the user can stand again only by the leavePiece of another one
\* that had read the list before.
THEOREM PurgeIsComplete == PurgeSpec => []PurgedIsGone
  <1>1. PurgeIInv => PurgedIsGone
    BY DEF PurgeIInv, PurgeProgress, InboxDone, Clean, Listed, PurgedIsGone
  <1> QED
    BY <1>1, PurgeInvHolds, PTL

\* Account deletion gives and takes nobody else's access: beside it the
\* membership functions still implement PieceAccess.
THEOREM PurgeImplementsAccess == PurgeSpec => AccessSpec
  <1>1. PurgeInit => Access!Init
    BY InitAccess DEF PurgeInit
  <1>2. ASSUME PurgeIInv, [PurgeNext]_purgeVars
        PROVE  [Access!Next]_(Access!accessVars)
    <2>1. CASE [Next]_vars
      BY <1>2, <2>1, NextAccess DEF PurgeIInv
    <2>2. ASSUME NEW w \in Users, PurgeInbox(w) PROVE UNCHANGED Access!accessVars
      <3>0. inbox \in [Users -> [MessageIds -> MessageState]]
        BY <1>2 DEF PurgeIInv, IInv, TypeOK
      <3>1. \A u \in Users, m \in MessageIds :
                inbox'[u][m] = "absent" <=> inbox[u][m] = "absent"
        BY <2>2, <3>0 DEF PurgeInbox
      <3>2. Invited' = Invited
        BY <3>1 DEF Invited
      <3> QED
        BY <2>2, <3>2 DEF PurgeInbox, Access!accessVars
    <2>3. ASSUME NEW w \in Users, PurgeSlice(w) PROVE UNCHANGED Access!accessVars
      BY <2>3, InvitedUnchanged DEF PurgeSlice, Access!accessVars
    <2>4. ASSUME NEW w \in Users, PurgeOwned(w)
          PROVE  [Access!Next]_(Access!accessVars)
      <3>1. piece' = NoPiece /\ inbox' = inbox
        BY <2>4 DEF PurgeOwned
      <3>2. CASE piece.exists
        BY <3>1, <3>2, InvitedUnchanged DEF NoPiece, Access!Close, Access!Next
      <3>3. CASE ~piece.exists
        <4>1. piece.participantIds = {} /\ piece.exists = FALSE
          BY <1>2, <3>3 DEF PurgeIInv, PurgeRoles, IInv, TypeOK, PieceDoc
        <4> QED
          BY <3>1, <4>1, InvitedUnchanged DEF NoPiece, Access!accessVars
      <3> QED
        BY <3>2, <3>3
    <2>5. ASSUME NEW w \in Users, PurgeRoster(w)
          PROVE  [Access!Next]_(Access!accessVars)
      <3>1. /\ piece'.exists = piece.exists
            /\ piece'.participantIds = piece.participantIds \ {w}
            /\ inbox' = inbox /\ w # Owner
        BY <1>2, <2>5
           DEF PurgeRoster, PurgeAt, PurgeIInv, PurgeRoles, IInv, TypeOK, PieceDoc
      <3>2. CASE piece.exists
        BY <3>1, <3>2, InvitedUnchanged DEF Access!Leave, Access!Next
      <3>3. CASE ~piece.exists
        <4>1. piece'.participantIds = piece.participantIds
          BY <1>2, <3>1, <3>3 DEF PurgeIInv, PurgeRoles
        <4> QED
          BY <3>1, <4>1, InvitedUnchanged DEF Access!accessVars
      <3> QED
        BY <3>2, <3>3
    <2>6. ASSUME NEW w \in Users,
                 \/ PurgeDirectory(w) \/ PurgeList(w) \/ PurgeNotesRead(w)
                 \/ PurgeAuth(w) \/ PurgeDies(w)
          PROVE  UNCHANGED vars
      BY <2>6 DEF PurgeDirectory, PurgeList, PurgeNotesRead, PurgeAuth, PurgeDies
    <2> QED
      BY <1>2, <2>1, <2>2, <2>3, <2>4, <2>5, <2>6
         DEF PurgeNext, PurgeStep, MembershipBesidePurge, AddAudioNote, purgeVars
  <1> QED
    BY <1>1, <1>2, PurgeInvHolds, PTL DEF PurgeSpec, AccessSpec, Access!Spec

=============================================================================
