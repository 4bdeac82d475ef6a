SPECIFICATION ClientSpec
CONSTANTS
    Users = {owner, ann, ben}
    Owner = owner
    MessageIds = {m1, m2}
    Calls = {c1, c2}
SYMMETRY Symmetry
INVARIANTS ClientTypeOK OnlyInvitedEverOnPiece LeftMeansGone OwnerKeepsPiece MarkMeansStored
PROPERTIES AccessSpec MembershipUnaffected
CHECK_DEADLOCK FALSE
