------------------------------ MODULE PieceAccess ------------------------------
(***************************************************************************)
(* What the server promises about access to one piece, without its         *)
(* documents, calls and races: the owner opens it, people join it one at a *)
(* time and only when they have been invited, leave it one at a time by    *)
(* their own decision, and everyone loses it when the owner deletes it.    *)
(* PieceMembership implements this specification.                          *)
(***************************************************************************)
CONSTANTS
    Users,      \* every account
    Owner       \* the account that created the piece

VARIABLES
    open,       \* the piece exists
    members,    \* who can read it
    invited     \* who was ever sent an invite to it

accessVars == <<open, members, invited>>

Init ==
    /\ open = TRUE
    /\ members = {Owner}
    /\ invited = {}

\* The owner invites someone.  A person may be invited again.
Invite(u) ==
    /\ invited' = invited \union {u}
    /\ UNCHANGED <<open, members>>

\* An invited person joins.
Join(u) ==
    /\ open
    /\ u \in invited
    /\ members' = members \union {u}
    /\ UNCHANGED <<open, invited>>

\* A member other than the owner leaves.
Leave(u) ==
    /\ open
    /\ u # Owner
    /\ members' = members \ {u}
    /\ UNCHANGED <<open, invited>>

\* The owner deletes the piece: nobody keeps access.
Close ==
    /\ open
    /\ open' = FALSE
    /\ members' = {}
    /\ UNCHANGED invited

Next ==
    \/ \E u \in Users : Invite(u) \/ Join(u) \/ Leave(u)
    \/ Close

Spec == Init /\ [][Next]_accessVars

=============================================================================
