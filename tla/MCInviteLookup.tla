---------------------------- MODULE MCInviteLookup ----------------------------
(***************************************************************************)
(* InviteLookup with two accounts and their addresses, for TLC.            *)
(***************************************************************************)
EXTENDS InviteLookup, TLC

CONSTANTS ann, ben, annsMail, bensMail

MCUsers == {ann, ben}
MCEmails == {annsMail, bensMail}
MCAccount == annsMail :> ann @@ bensMail :> ben

\* The calls differ in nothing but their names, nor do the two people when
\* their addresses change places with them.
Swap == ann :> ben @@ ben :> ann @@ annsMail :> bensMail @@ bensMail :> annsMail
Symmetry == Permutations(Calls) \union {Swap}

\* The sheet in the first window and at the start of the second, the budget over
\* the three windows that five lookups take: once more than two lookups have been
\* let through, or the clock is past the second start, the sheet only looks up.
Bounds ==
    Len(admitted) > 2 \/ now > 2 * WindowMs =>
        /\ collaborators = {} /\ directory = Users
        /\ shown = {} /\ ~link /\ status # "sending"

=============================================================================
