--------------------------- MODULE ShoppingPresence ---------------------------
(***************************************************************************)
(* Who is shopping the list right now: FirebasePresenceRepository          *)
(* (packages/features/feature_grocery_list/lib/src/data) over the Realtime *)
(* Database, as PresenceBloc and the list screen call it.                  *)
(*                                                                         *)
(* The requests of one phone are carried out in order and answered in      *)
(* order, and an await sends the next one of its call once the one before  *)
(* has been answered, so the calls of one phone interleave request by      *)
(* request.  When a socket drops, the client sends its unanswered writes   *)
(* again on the next connection; an unanswered request about a disconnect  *)
(* handler is lost, and its call waits for the answer for ever.            *)
(***************************************************************************)
EXTENDS Naturals, Sequences

CONSTANTS
    Shoppers,  \* the people who may shop, each on a phone
    MaxQueue   \* bounds the requests under way from one phone

ASSUME PresenceAssumption == MaxQueue \in Nat \ {0}

VARIABLES
    node,      \* node[p]: presence/{listId}/{p} exists
    queue,     \* queue[p]: unanswered requests of p, oldest first
    carried,   \* carried[p]: how many of them have been carried out
    armed,     \* armed[p]: p's connection has its onDisconnect handler
    dangling,  \* dangling[p]: the handler of a lost connection is still to run
    torn       \* history: phones that lost the connection in mid-call

presenceVars == <<node, queue, carried, armed, dangling, torn>>

PresenceInit ==
    /\ node = [p \in Shoppers |-> FALSE]
    /\ queue = [p \in Shoppers |-> << >>]
    /\ carried = [p \in Shoppers |-> 0]
    /\ armed = [p \in Shoppers |-> FALSE]
    /\ dangling = [p \in Shoppers |-> FALSE]
    /\ torn = {}

Send(p, request) ==
    /\ Len(queue[p]) < MaxQueue
    /\ queue' = [queue EXCEPT ![p] = Append(@, request)]
    /\ UNCHANGED <<node, carried, armed, dangling, torn>>

\* enter writes the node without waiting for its handler.
MutantEnter(p) == Send(p, "set")

\* Every tap that advances an item enters, also when already shopping.
Enter(p) == Send(p, "arm")

\* The list screen is closed: PresenceBloc leaves, whether it entered or not.
Leave(p) == Send(p, "cancel")

\* The database carries out the oldest request it has not yet carried out.  A
\* handler on the new connection ends what a lost one has left behind.
CarryOut(p) ==
    LET r == queue[p][carried[p] + 1]
    IN  /\ carried[p] < Len(queue[p])
        /\ carried' = [carried EXCEPT ![p] = @ + 1]
        /\ armed' = [armed EXCEPT ![p] = (@ \/ r = "arm") /\ r # "cancel"]
        /\ node' = [node EXCEPT ![p] = (@ \/ r = "set") /\ r # "remove"]
        /\ torn' = IF r = "arm" THEN torn \ {p} ELSE torn
        /\ UNCHANGED <<queue, dangling>>

\* enter goes on to write the node, and leave to remove it.
Answered(p) ==
    /\ carried[p] > 0
    /\ carried' = [carried EXCEPT ![p] = @ - 1]
    /\ queue' = [queue EXCEPT ![p] =
            CASE Head(@) = "arm" -> Append(Tail(@), "set")
              [] Head(@) = "cancel" -> Append(Tail(@), "remove")
              [] OTHER -> Tail(@)]
    /\ UNCHANGED <<node, armed, dangling, torn>>

\* The node of p will be removed: a removal is on its way, or the answer that
\* makes leave send one.
Leaving(p) ==
    \E i \in 1..Len(queue[p]) :
        IF i > carried[p] THEN queue[p][i] = "remove" ELSE queue[p][i] = "cancel"

\* What the server does about a connection that is gone.
Disconnected(p) ==
    /\ carried' = [carried EXCEPT ![p] = 0]
    /\ dangling' = [dangling EXCEPT ![p] = @ \/ armed[p]]
    /\ armed' = [armed EXCEPT ![p] = FALSE]
    /\ UNCHANGED node

\* The app is killed, with all it had under way.
Killed(p) ==
    /\ Disconnected(p)
    /\ queue' = [queue EXCEPT ![p] = << >>]
    /\ torn' = IF Leaving(p) THEN torn \union {p} ELSE torn

\* After writes of p have been sent again the node is there, and no removal is
\* behind; or leave has cancelled the handler and never hears of it.
TornBySocket(p) ==
    LET Removes(i) == \E j \in i..Len(queue[p]) : queue[p][j] = "remove"
    IN  \E i \in 1..Len(queue[p]) :
            \/ queue[p][i] = "set" /\ ~Removes(i)
            \/ i <= carried[p] /\ queue[p][i] = "cancel" /\ ~Removes(1)

\* The socket drops: the writes are sent again, without a handler.
SocketDrops(p) ==
    /\ Disconnected(p)
    /\ queue' = [queue EXCEPT ![p] = [i \in 1..Len(@) |->
            IF @[i] \in {"set", "remove"} THEN @[i] ELSE "lost"]]
    /\ torn' = IF TornBySocket(p) THEN torn \union {p} ELSE torn

\* The server notices the loss, perhaps after the phone is back.
HandlerRuns(p) ==
    /\ dangling[p]
    /\ dangling' = [dangling EXCEPT ![p] = FALSE]
    /\ node' = [node EXCEPT ![p] = FALSE]
    /\ UNCHANGED <<queue, carried, armed, torn>>

PresenceNext ==
    \E p \in Shoppers :
        \/ Enter(p)
        \/ Leave(p)
        \/ CarryOut(p)
        \/ Answered(p)
        \/ Killed(p)
        \/ SocketDrops(p)
        \/ HandlerRuns(p)

PresenceSpec == PresenceInit /\ [][PresenceNext]_presenceVars
-----------------------------------------------------------------------------
Requests == {"arm", "set", "cancel", "remove", "lost"}

PresenceTypeOK ==
    /\ node \in [Shoppers -> BOOLEAN]
    /\ queue \in [Shoppers -> Seq(Requests)]
    /\ carried \in [Shoppers -> Nat]
    /\ \A p \in Shoppers : carried[p] <= Len(queue[p])
    /\ armed \in [Shoppers -> BOOLEAN]
    /\ dangling \in [Shoppers -> BOOLEAN]
    /\ torn \subseteq Shoppers

\* Whoever is shown as shopping will go: the node has its disconnect handler,
\* registered or about to run, or a removal that is sure to come.  What enter's
\* order of requests cannot prevent is left out: a kill in the middle of a
\* leave, and a socket that drops under a write or an unanswered cancel, until
\* the next enter has registered its handler.
NoGhostShopper ==
    \A p \in Shoppers :
        node[p] => armed[p] \/ dangling[p] \/ Leaving(p) \/ p \in torn

=============================================================================
