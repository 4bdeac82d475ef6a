----------------------------- MODULE InviteLookup -----------------------------
(***************************************************************************)
(* The sheet that invites a collaborator: InviteBloc                       *)
(* (apps/duet/lib/features/pairing/src/bloc/invite_bloc.dart) over         *)
(* CallableCollaboratorInviteService, whose lookups go to LookupRateLimit  *)
(* and whose invites to the callable sendInvite.                           *)
(*                                                                         *)
(* The bloc handles events concurrently.  Every keystroke looks up the     *)
(* address typed, and an answer finds the sheet in whatever state the      *)
(* handlers that ran meanwhile have left it.                               *)
(***************************************************************************)
EXTENDS LookupRateLimit, FiniteSets

CONSTANTS
    Emails,    \* addresses that may be typed
    Users,     \* accounts that can be found
    Account,   \* Account[e]: the account with address e, or Nobody
    Nobody,    \* no account, no recipient
    Cap        \* the collaborators the owner's tier allows

\* The empty field.
Blank == "blank"

ASSUME SheetAssumption ==
    /\ Nobody \notin Users
    /\ Account \in [Emails -> Users \union {Nobody}]
    /\ Blank \notin Emails
    /\ Cap \in Nat

VARIABLES
    status,         \* InviteState.status
    email,          \* InviteState.email
    recipient,      \* InviteState.recipient, as an account
    link,           \* InviteState.link is set
    handler,        \* handler[c]: the event handler that awaits call c
    collaborators,  \* the piece's collaborators
    directory,      \* the accounts with a discoverable entry in usersByEmail
    shown,          \* history: recipients on the screen when Send was pressed
    delivered,      \* history: accounts sent an invite
    crossed         \* history: a lookup answered while the sheet was sending

sheetVars == <<status, email, recipient, link, handler, collaborators,
               directory, shown, delivered, crossed>>
vars == <<rateVars, sheetVars>>

NoHandler == [kind |-> "none", email |-> Blank, fallback |-> "none"]

Gated == {"checkingAccess", "paywallRequired", "sending"}

Init ==
    /\ RateInit
    /\ status = "checkingAccess"
    /\ email = Blank
    /\ recipient = Nobody
    /\ link = FALSE
    /\ handler = [c \in Calls |-> NoHandler]
    /\ collaborators = {}
    /\ directory = Users
    /\ shown = {}
    /\ delivered = {}
    /\ crossed = FALSE

AtCap == Cardinality(collaborators) >= Cap

\* The piece was read, or could not be.
Opened ==
    /\ status = "checkingAccess"
    /\ status' \in {IF AtCap THEN "paywallRequired" ELSE "ready", "ready"}
    /\ UNCHANGED <<rateVars, email, recipient, link, handler, collaborators,
                   directory, shown, delivered, crossed>>

\* Handler c of an event starts and awaits; it is done.
Start(c, kind, e, fallback) ==
    /\ handler[c] = NoHandler
    /\ handler' = [handler EXCEPT ![c] =
                       [kind |-> kind, email |-> e, fallback |-> fallback]]

End(c) == handler' = [handler EXCEPT ![c] = NoHandler]

\* The field takes input while something is being sent.
MutantGateOpen == status \notin Gated \ {"sending"}

Ungated == status \notin Gated

\* The field and the buttons take input until a link has been made.
EmailCleared ==
    /\ Ungated /\ ~link
    /\ status' = "ready"
    /\ email' = Blank
    /\ recipient' = Nobody
    /\ UNCHANGED <<rateVars, link, handler, collaborators, directory,
                   shown, delivered, crossed>>

EmailChanged(c, e) ==
    /\ Ungated /\ ~link
    /\ Start(c, "lookup", e, "none") /\ Request(c)
    /\ status' = "lookingUp"
    /\ email' = e
    /\ recipient' = Nobody
    /\ UNCHANGED <<link, collaborators, directory, shown, delivered, crossed>>

\* The entry an exact-key read of usersByEmail finds.
Found(e) == IF e # Blank /\ Account[e] \in directory THEN Account[e] ELSE Nobody

\* What _resolve makes of an address whose lookup was let through.
Outcome(e) ==
    CASE Found(e) = Nobody -> "notFound"
      [] Found(e) \in collaborators -> "alreadyCollaborator"
      [] OTHER -> IF AtCap THEN "paywallRequired" ELSE "resolved"

\* An answer that is not compared with the address typed since.
MutantAnyAnswer(c) == TRUE

\* Only the answer for the address in the field counts.
Current(c) == email = handler[c].email

\* An answer that changes the sheet while it is sending ends the sending.
Crosses(c) == crossed' = (crossed \/ (Current(c) /\ status = "sending"))

LookupAnswered(c) ==
    /\ handler[c].kind = "lookup" /\ phase[c] = "admitted"
    /\ IF Current(c)
       THEN LET outcome == Outcome(handler[c].email) IN
            /\ status' = outcome
            /\ recipient' = IF outcome = "resolved"
                            THEN Found(handler[c].email) ELSE recipient
       ELSE UNCHANGED <<status, recipient>>
    /\ Crosses(c)
    /\ Returns(c) /\ End(c)
    /\ UNCHANGED <<email, link, collaborators, directory, shown, delivered>>

\* The budget is spent, or the call or the piece could not be had.
LookupFailed(c) ==
    /\ handler[c].kind = "lookup"
    /\ status' = IF Current(c) THEN "ready" ELSE status
    /\ Crosses(c)
    /\ Returns(c) /\ End(c)
    /\ UNCHANGED <<email, recipient, link, collaborators, directory, shown,
                   delivered>>

SendRequested(c) ==
    /\ status = "resolved" /\ ~link
    /\ Start(c, "send", email, "none")
    /\ status' = "sending"
    /\ shown' = shown \union {recipient}
    /\ UNCHANGED <<rateVars, email, recipient, link, collaborators, directory,
                   delivered, crossed>>

\* sendInvite reads the directory again and stores the message.
SendAnswered(c) ==
    /\ handler[c].kind = "send" /\ handler[c].email # Blank
    /\ LET who == Found(handler[c].email) IN
       IF who = Nobody
       THEN /\ status' = "notFound"
            /\ UNCHANGED <<recipient, delivered>>
       ELSE /\ status' = "sent"
            /\ recipient' = who
            /\ delivered' = delivered \union {who}
    /\ End(c)
    /\ UNCHANGED <<rateVars, email, link, collaborators, directory, shown,
                   crossed>>

\* The error reaches the sheet; the message may have been stored already.
SendFailed(c) ==
    /\ handler[c].kind = "send"
    /\ status' = "resolved"
    /\ delivered' \in
        {delivered, delivered \union ({Found(handler[c].email)} \ {Nobody})}
    /\ End(c)
    /\ UNCHANGED <<rateVars, email, recipient, link, collaborators, directory,
                   shown, crossed>>

\* The link is made without a lookup.
LinkCreateRequested(c) ==
    /\ Ungated /\ ~link
    /\ Start(c, "link", Blank, status)
    /\ status' = "sending"
    /\ UNCHANGED <<rateVars, email, recipient, link, collaborators, directory,
                   shown, delivered, crossed>>

LinkCreated(c) ==
    /\ handler[c].kind = "link"
    /\ status' = "sent"
    /\ link' = TRUE
    /\ End(c)
    /\ UNCHANGED <<rateVars, email, recipient, collaborators, directory,
                   shown, delivered, crossed>>

LinkFailed(c) ==
    /\ handler[c].kind = "link"
    /\ status' = handler[c].fallback
    /\ End(c)
    /\ UNCHANGED <<rateVars, email, recipient, link, collaborators, directory,
                   shown, delivered, crossed>>

\* Somebody invited before joins meanwhile: acceptInvite does not look at the
\* cap, so that the piece may go past it.
Joins(u) ==
    /\ u \notin collaborators
    /\ collaborators' = collaborators \union {u}
    /\ UNCHANGED <<rateVars, status, email, recipient, link, handler, directory,
                   shown, delivered, crossed>>

\* An account is deleted, its directory entry first.
Vanishes(u) ==
    /\ u \in directory
    /\ directory' = directory \ {u}
    /\ UNCHANGED <<rateVars, status, email, recipient, link, handler,
                   collaborators, shown, delivered, crossed>>

Server == (Tick \/ \E c \in Calls : LimitStep(c)) /\ UNCHANGED sheetVars

Sheet(c) ==
    \/ \E e \in Emails : EmailChanged(c, e)
    \/ LookupAnswered(c)
    \/ LookupFailed(c)
    \/ SendRequested(c)
    \/ SendAnswered(c)
    \/ SendFailed(c)
    \/ LinkCreateRequested(c)
    \/ LinkCreated(c)
    \/ LinkFailed(c)

Next ==
    \/ Server
    \/ Opened
    \/ EmailCleared
    \/ \E c \in Calls : Sheet(c)
    \/ \E u \in Users : Joins(u) \/ Vanishes(u)

Spec == Init /\ [][Next]_vars
-----------------------------------------------------------------------------
Statuses == Gated \union {"ready", "lookingUp", "resolved", "notFound",
                          "alreadyCollaborator", "sent"}

InFlight(kinds) == {c \in Calls : handler[c].kind \in kinds}

\* The states of the sheet, its handlers and its history.
TypeOK ==
    /\ RateTypeOK
    /\ status \in Statuses
    /\ email \in Emails \union {Blank}
    /\ recipient \in Users \union {Nobody}
    /\ link \in BOOLEAN
    /\ \A c \in Calls :
        /\ handler[c].kind \in {"none", "lookup", "send", "link"}
        /\ handler[c].email \in Emails \union {Blank}
        /\ handler[c].kind = "link" => handler[c].fallback \in Statuses \ Gated
        /\ handler[c].kind = "lookup" <=> phase[c] # "idle"
    /\ directory \subseteq Users
    /\ collaborators \subseteq Users
    /\ shown \subseteq Users \union {Nobody}
    /\ delivered \subseteq Users
    /\ crossed \in BOOLEAN

\* Unless a lookup answers while the sheet is sending, its status tells the
\* truth however the handlers interleave: an address marked as resolved is
\* shown with its own account, a sheet that says it is looking up has a lookup
\* of that address under way, and it says it is sending exactly while one
\* invite or link is being sent.
SheetTellsTheTruth ==
    ~crossed =>
        /\ status = "resolved" => email # Blank /\ recipient = Account[email]
        /\ status = "lookingUp" =>
            \E c \in InFlight({"lookup"}) : handler[c].email = email
        /\ Cardinality(InFlight({"send", "link"})) =
            IF status = "sending" THEN 1 ELSE 0

\* Unless a lookup answers while the sheet is sending, an invite goes only to
\* an account that was on the screen when Send was pressed: a late answer for
\* an address typed earlier is never what the owner confirms.
InviteGoesToShown == ~crossed => delivered \subseteq shown

=============================================================================
