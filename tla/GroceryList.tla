------------------------------ MODULE GroceryList ------------------------------
(***************************************************************************)
(* The items of Tandem's shared grocery list: FirestoreGroceryRepository   *)
(* (packages/features/feature_grocery_list/lib/src/data), as ListBloc      *)
(* calls it on several phones.                                             *)
(*                                                                         *)
(* An operation that reads before it writes does so in two steps: as a     *)
(* transaction (cycleStatus, reactOnIt), which commits only on the         *)
(* document it read, or without one (addItem, clearDone).                  *)
(***************************************************************************)
EXTENDS Naturals

CONSTANTS
    People,  \* the members of the household, each on a phone
    Items,   \* ids of item documents
    Rests,   \* what follows the first letter in the names that are typed
    None     \* no name

\* A trimmed name: whether its first letter is a capital, and the rest of it as
\* it is spelt.  "oat milk" and "oat Milk" differ in the rest.
Names == [capital : BOOLEAN, rest : Rests]

ASSUME GroceryAssumption == None \notin Names

VARIABLES
    item,       \* item[d]: households/{listId}/items/{d}
    op,         \* op[p]: what phone p has read and not yet written
    rewritten,  \* rewritten[p]: documents of op[p] written since it read them
    doubled     \* history: names restored, or added again, beside another item

listVars == <<item, op, rewritten, doubled>>

Absent == [name |-> None, status |-> "needed", flag |-> FALSE,
           reactions |-> {}, isDeleted |-> FALSE]

\* kind, the documents read, and the value of the field that matters.
Idle == [kind |-> "none", docs |-> {}, seen |-> None]

Exists(d) == item[d] # Absent
Live(d) == Exists(d) /\ ~item[d].isDeleted

ListInit ==
    /\ item = [d \in Items |-> Absent]
    /\ op = [p \in People |-> Idle]
    /\ rewritten = [p \in People |-> {}]
    /\ doubled = {}

\* The documents docs become new; phones that have read one are behind.
Write(docs, new) ==
    /\ item' = [d \in Items |-> IF d \in docs THEN new[d] ELSE item[d]]
    /\ rewritten' = [p \in People |->
            IF op'[p] = Idle THEN {}
            ELSE rewritten[p] \union (docs \intersect op[p].docs)]

Blindly(d, new) ==
    /\ Exists(d)
    /\ UNCHANGED op
    /\ Write({d}, [item EXCEPT ![d] = new])

Reads(p, kind, docs, seen) ==
    /\ op[p] = Idle
    /\ op' = [op EXCEPT ![p] = [kind |-> kind, docs |-> docs, seen |-> seen]]
    /\ UNCHANGED <<item, rewritten>>

Ends(p) == op' = [op EXCEPT ![p] = Idle]

-----------------------------------------------------------------------------
\* A query that looks at the deleted items only.
MutantTaken(n) == {d \in Items : item[d].name = n /\ item[d].isDeleted}

Taken(n) == {d \in Items : item[d].name = n /\ Live(d)}

Adding(n) == \E p \in People : op[p].kind = "add" /\ op[p].seen = n

\* Only the first letter is raised: the rest is listed as it was typed.
SentenceCase(name) == [name EXCEPT !.capital = TRUE]

Titles == {SentenceCase(name) : name \in Names}

\* A live item of the same titled name is returned as it is; one whose rest is
\* spelt in another case is not found.
AddQueries(p, name) ==
    LET n == SentenceCase(name)
    IN  /\ Taken(n) = {}
        /\ Reads(p, "add", {}, n)
        /\ doubled' = IF Adding(n) THEN doubled \union {n} ELSE doubled

AddSets(p, d) ==
    /\ op[p].kind = "add" /\ ~Exists(d)
    /\ Ends(p)
    /\ Write({d}, [item EXCEPT ![d] = [Absent EXCEPT !.name = op[p].seen]])
    /\ UNCHANGED doubled

SetStatus(d, s) ==
    Blindly(d, [item[d] EXCEPT !.status = s]) /\ UNCHANGED doubled

\* Clearing the flag drops the reactions to it.
SetFlag(d, flag) ==
    /\ Blindly(d, [item[d] EXCEPT !.flag = flag,
                                  !.reactions = IF flag THEN @ ELSE {}])
    /\ UNCHANGED doubled

DeleteItem(d) ==
    Blindly(d, [item[d] EXCEPT !.isDeleted = TRUE]) /\ UNCHANGED doubled

\* Nobody looks whether the name is back on the list.
RestoreItem(d) ==
    LET n == item[d].name
    IN  /\ Blindly(d, [item[d] EXCEPT !.isDeleted = FALSE])
        /\ doubled' = IF Taken(n) \ {d} # {} \/ Adding(n)
                      THEN doubled \union {n} ELSE doubled

Following == [needed |-> "inCart", inCart |-> "done", done |-> "needed"]

CycleStatus(p, d) ==
    /\ Exists(d)
    /\ Reads(p, "cycle", {d}, item[d].status)
    /\ UNCHANGED doubled

\* A second reaction of the same person writes nothing.
ReactOnIt(p, d) ==
    /\ Exists(d)
    /\ p \notin item[d].reactions
    /\ Reads(p, "react", {d}, item[d].reactions)
    /\ UNCHANGED doubled

\* A commit that does not look whether the document has changed.
MutantBlindCommit(p) == TRUE

\* The document is still the one the transaction read.
Unchanged(p) == rewritten[p] = {}

TxResult(p, d) ==
    IF op[p].kind = "cycle"
    THEN [item[d] EXCEPT !.status = Following[op[p].seen]]
    ELSE [item[d] EXCEPT !.reactions = op[p].seen \union {p}]

TxCommits(p) ==
    /\ op[p].kind \in {"cycle", "react"}
    /\ Unchanged(p)
    /\ \E d \in op[p].docs :
        /\ Ends(p)
        /\ Write({d}, [item EXCEPT ![d] = TxResult(p, d)])
    /\ UNCHANGED doubled

\* The transaction is given up with what it knew of the document.
MutantRetryForgets(p) ==
    /\ op[p].kind \in {"cycle", "react"}
    /\ ~Unchanged(p)
    /\ Ends(p)
    /\ UNCHANGED <<item, rewritten, doubled>>

\* The transaction runs again from its read.
TxRetries(p) ==
    /\ op[p].kind \in {"cycle", "react"}
    /\ ~Unchanged(p)
    /\ Ends(p)
    /\ rewritten' = [rewritten EXCEPT ![p] = {}]
    /\ UNCHANGED <<item, doubled>>

Done == {d \in Items : Live(d) /\ item[d].status = "done"}

ClearQueries(p) ==
    /\ Done # {}
    /\ Reads(p, "clear", Done, None)
    /\ UNCHANGED doubled

\* The batch deletes what the query found.
ClearCommits(p) ==
    /\ op[p].kind = "clear"
    /\ Ends(p)
    /\ Write(op[p].docs,
             [d \in Items |-> [item[d] EXCEPT !.isDeleted = TRUE]])
    /\ UNCHANGED doubled

\* The app is killed or the request fails before anything is written.
Lost(p) ==
    /\ op[p] # Idle
    /\ Ends(p)
    /\ rewritten' = [rewritten EXCEPT ![p] = {}]
    /\ UNCHANGED <<item, doubled>>

ListNext ==
    \/ \E d \in Items :
        \/ \E s \in DOMAIN Following : SetStatus(d, s)
        \/ \E flag \in BOOLEAN : SetFlag(d, flag)
        \/ DeleteItem(d)
        \/ RestoreItem(d)
    \/ \E p \in People :
        \/ \E name \in Names : AddQueries(p, name)
        \/ \E d \in Items : AddSets(p, d) \/ CycleStatus(p, d) \/ ReactOnIt(p, d)
        \/ TxCommits(p)
        \/ TxRetries(p)
        \/ ClearQueries(p)
        \/ ClearCommits(p)
        \/ Lost(p)

ListSpec == ListInit /\ [][ListNext]_listVars
-----------------------------------------------------------------------------
ItemStates ==
    [name : Titles, status : DOMAIN Following, flag : BOOLEAN,
     reactions : SUBSET People, isDeleted : BOOLEAN]

\* The documents and the operations under way.
ListTypeOK ==
    /\ item \in [Items -> ItemStates \union {Absent}]
    /\ \A p \in People :
        /\ op[p].kind \in {"none", "add", "cycle", "react", "clear"}
        /\ op[p].docs \subseteq {d \in Items : Exists(d)}
        /\ op[p].kind = "cycle" => op[p].seen \in DOMAIN Following
        /\ op[p].kind = "react" => op[p].seen \in SUBSET People
        /\ op[p].kind = "add" => op[p].seen \in Titles
        /\ rewritten[p] \subseteq op[p].docs
    /\ doubled \subseteq Titles

\* Somebody's "on it" reaction stays until the flag is cleared, whatever the
\* phones write at the same time: no reaction is lost to another one.
KeepsReactions ==
    [][\A d \in Items :
        \/ item[d].reactions \subseteq item'[d].reactions
        \/ ~item'[d].flag /\ item'[d].reactions = {}]_listVars

\* A name is listed once, as long as nobody added it while another phone was
\* adding it and nobody restored an item of it beside another one: adding what
\* is there, spelt alike but for the case of its first letter, adds nothing.
OneItemPerName ==
    \A d, e \in Items :
        Live(d) /\ Live(e) /\ item[d].name = item[e].name =>
            d = e \/ item[d].name \in doubled

=============================================================================
