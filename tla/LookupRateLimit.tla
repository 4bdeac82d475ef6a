---------------------------- MODULE LookupRateLimit ----------------------------
(***************************************************************************)
(* The callable lookupEmail and its budget, enforceRateLimit               *)
(* (apps/duet/functions/src/lookupEmail.ts), for one caller.  A call is    *)
(* counted by a Firestore transaction on rateLimits/{uid}, which reads the *)
(* document and the clock and commits only on the document it read.        *)
(***************************************************************************)
EXTENDS Integers, Sequences

CONSTANTS
    Calls,      \* names of the calls that may be under way together
    RateLimit,  \* RATE_LIMIT
    WindowMs,   \* WINDOW_MS
    MaxNow,     \* bounds the clock
    MaxAdmits   \* bounds the calls counted

ASSUME RateAssumption ==
    /\ RateLimit \in Nat \ {0}
    /\ WindowMs \in Nat \ {0}
    /\ MaxNow \in Nat /\ WindowMs <= MaxNow
    /\ MaxAdmits \in Nat

VARIABLES
    now,          \* Date.now()
    windowStart,  \* rateLimits/{uid}; 0 when there is no document
    count,
    phase,        \* phase[c]: where call c is
    tx,           \* tx[c]: what the transaction of c has read, and the time
    admitted,     \* history: the times of the calls let through
    starts        \* history: the members of admitted that began a window

rateVars == <<now, windowStart, count, phase, tx, admitted, starts>>

NoTx == [windowStart |-> 0, count |-> 0, now |-> 0]

RateInit ==
    /\ now = WindowMs  \* long after the epoch
    /\ windowStart = 0
    /\ count = 0
    /\ phase = [c \in Calls |-> "idle"]
    /\ tx = [c \in Calls |-> NoTx]
    /\ admitted = << >>
    /\ starts = {}

Tick ==
    /\ now < MaxNow
    /\ now' = now + 1
    /\ UNCHANGED <<windowStart, count, phase, tx, admitted, starts>>

\* The signed-in caller sends a call with an address in it.
Request(c) ==
    /\ phase[c] = "idle"
    /\ phase' = [phase EXCEPT ![c] = "sent"]
    /\ UNCHANGED <<now, windowStart, count, tx, admitted, starts>>

TxReads(c) ==
    /\ phase[c] = "sent"
    /\ phase' = [phase EXCEPT ![c] = "read"]
    /\ tx' = [tx EXCEPT ![c] = [windowStart |-> windowStart, count |-> count,
                                now |-> now]]
    /\ UNCHANGED <<now, windowStart, count, admitted, starts>>

\* A transaction that commits on a document changed since it read it.
MutantCommitsBlindly(c) == TRUE

\* A commit succeeds on the document that was read, and the call goes through.
Unchanged(c) ==
    tx[c].windowStart = windowStart /\ tx[c].count = count

Expired(c) == tx[c].now - tx[c].windowStart >= WindowMs

Admit(c) ==
    /\ Len(admitted) < MaxAdmits
    /\ phase' = [phase EXCEPT ![c] = "admitted"]
    /\ tx' = [tx EXCEPT ![c] = NoTx]
    /\ admitted' = Append(admitted, tx[c].now)
    /\ UNCHANGED now

StartsWindow(c) ==
    /\ phase[c] = "read" /\ Unchanged(c)
    /\ Expired(c)
    /\ windowStart' = tx[c].now
    /\ count' = 1
    /\ starts' = starts \union {Len(admitted) + 1}
    /\ Admit(c)

\* The limit is passed by one.
MutantOneMore(c) ==
    /\ phase[c] = "read" /\ Unchanged(c)
    /\ ~Expired(c)
    /\ tx[c].count <= RateLimit
    /\ count' = tx[c].count + 1
    /\ UNCHANGED <<windowStart, starts>>
    /\ Admit(c)

CountsInWindow(c) ==
    /\ phase[c] = "read" /\ Unchanged(c)
    /\ ~Expired(c)
    /\ tx[c].count < RateLimit
    /\ count' = tx[c].count + 1
    /\ UNCHANGED <<windowStart, starts>>
    /\ Admit(c)

\* resource-exhausted is thrown in the transaction, which then writes nothing.
Exhausted(c) ==
    /\ phase[c] = "read"
    /\ ~Expired(c)
    /\ tx[c].count >= RateLimit
    /\ phase' = [phase EXCEPT ![c] = "rejected"]
    /\ tx' = [tx EXCEPT ![c] = NoTx]
    /\ UNCHANGED <<now, windowStart, count, admitted, starts>>

\* Another call committed in between: the transaction function runs again.
TxRetries(c) ==
    /\ phase[c] = "read" /\ ~Unchanged(c)
    /\ phase' = [phase EXCEPT ![c] = "sent"]
    /\ tx' = [tx EXCEPT ![c] = NoTx]
    /\ UNCHANGED <<now, windowStart, count, admitted, starts>>

\* The caller has its answer, an error, or no connection any more.
Returns(c) ==
    /\ phase[c] # "idle"
    /\ phase' = [phase EXCEPT ![c] = "idle"]
    /\ tx' = [tx EXCEPT ![c] = NoTx]
    /\ UNCHANGED <<now, windowStart, count, admitted, starts>>

LimitStep(c) ==
    \/ TxReads(c)
    \/ StartsWindow(c)
    \/ CountsInWindow(c)
    \/ Exhausted(c)
    \/ TxRetries(c)

RateNext ==
    \/ Tick
    \/ \E c \in Calls : Request(c) \/ LimitStep(c) \/ Returns(c)

RateSpec == RateInit /\ [][RateNext]_rateVars

-----------------------------------------------------------------------------
Snapshots == [windowStart : Nat, count : Nat, now : Nat]

Phases == {"idle", "sent", "read", "admitted", "rejected"}

RateTypeOK ==
    /\ now \in 0..MaxNow
    /\ windowStart \in 0..now
    /\ count \in 0..RateLimit
    /\ phase \in [Calls -> Phases]
    /\ tx \in [Calls -> Snapshots]
    /\ admitted \in Seq(0..now)
    /\ starts \subseteq 1..Len(admitted)

\* A stretch of time shorter than the window sees fewer than twice the limit of
\* lookups let through, however the calls interleave and wherever the stretch
\* lies: twice the limit of them in a row take a window at least.  The limit
\* itself holds only for the fixed windows that enforceRateLimit keeps, not for
\* the rolling one its comment names.
UnderTwiceTheLimit ==
    \A i, j \in 1..Len(admitted) :
        j = i + 2 * RateLimit - 1 => admitted[j] - admitted[i] >= WindowMs

=============================================================================
