----------------------------- MODULE TandemProofs -----------------------------
(***************************************************************************)
(* Proofs about GroceryList and ShoppingPresence, for any number of phones *)
(* and items, and of requests under way.                                   *)
(*                                                                         *)
(* The list: a phone that has read a document either still reads the same  *)
(* in it or is marked as behind, so that a transaction commits only on     *)
(* what it read; and the only addition of a name under way finds no live   *)
(* item of it, unless the history names it as doubled.                     *)
(*                                                                         *)
(* The presence: a phone may enter while it leaves, so that a node is      *)
(* written after the handler was cancelled; the removal of the node is     *)
(* then behind the write, or is sent once the cancel is answered.          *)
(***************************************************************************)
EXTENDS MCTandem, TLAPS

-----------------------------------------------------------------------------
(* The list.                                                               *)

\* op and rewritten are functions on the phones.
Shape ==
    /\ op = [p \in People |-> [kind |-> op[p].kind, docs |-> op[p].docs,
                               seen |-> op[p].seen]]
    /\ rewritten = [p \in People |-> rewritten[p]]

\* What phone p has read is of its kind's type, and each document it has read
\* is as it was unless it has been written since.
PhoneInv(p) ==
    /\ op[p].kind \in {"none", "add", "cycle", "react", "clear"}
    /\ op[p].kind = "none" => op[p] = Idle
    /\ op[p].docs \subseteq {d \in Items : Exists(d)}
    /\ rewritten[p] \subseteq op[p].docs
    /\ op[p].kind = "cycle" => op[p].seen \in DOMAIN Following
    /\ op[p].kind = "react" =>
          /\ op[p].seen \in SUBSET People
          /\ \A d \in op[p].docs :
                item[d].reactions = op[p].seen \/ d \in rewritten[p]
    /\ op[p].kind = "add" => op[p].seen \in Titles

\* One phone at a time adds a name, and no live item has it.
OneAdds ==
    \A p \in People : op[p].kind = "add" =>
        \/ op[p].seen \in doubled
        \/ /\ \A d \in Items : Live(d) => item[d].name # op[p].seen
           /\ \A q \in People :
                 op[q].kind = "add" /\ op[q].seen = op[p].seen => q = p

ListInv ==
    /\ Shape
    /\ item \in [Items -> ItemStates \union {Absent}]
    /\ \A p \in People : PhoneInv(p)
    /\ doubled \subseteq Titles
    /\ OneAdds
    /\ OneItemPerName

-----------------------------------------------------------------------------
\* A document of an item is not an absent one.
LEMMA ItemExists ==
    ASSUME NEW i \in ItemStates
    PROVE  i # Absent
<1>1. i.name \in Names
  BY DEF ItemStates, Titles, SentenceCase, Names
<1> QED BY <1>1, GroceryAssumption DEF Absent

LEMMA ExistsType ==
    ASSUME item \in [Items -> ItemStates \union {Absent}], NEW d \in Items
    PROVE  Exists(d) <=> item[d] \in ItemStates
BY ItemExists DEF Exists

LEMMA ListInitInv == ListInit => ListInv
<1> SUFFICES ASSUME ListInit PROVE ListInv
  OBVIOUS
<1>1. Shape
  BY DEF ListInit, Shape, Idle
<1>2. \A p \in People : PhoneInv(p)
  BY DEF ListInit, PhoneInv, Idle
<1>3. OneAdds
  BY DEF ListInit, OneAdds, Idle
<1>4. OneItemPerName
  BY DEF ListInit, OneItemPerName, Live, Exists
<1> QED BY <1>1, <1>2, <1>3, <1>4 DEF ListInit, ListInv

\* A write, whoever makes it: phones that have read one of its documents are
\* behind, and a phone that is done knows nothing any more.
LEMMA WriteStep ==
    ASSUME ListInv, NEW docs \in SUBSET Items, NEW new, Write(docs, new),
           \A d \in docs : new[d] \in ItemStates,
           op' = [p \in People |-> op'[p]],
           \A p \in People : op'[p] = op[p] \/ op'[p] = Idle
    PROVE  /\ Shape'
           /\ item' \in [Items -> ItemStates \union {Absent}]
           /\ \A p \in People : PhoneInv(p)'
           /\ \A d \in Items : item'[d] = IF d \in docs THEN new[d] ELSE item[d]
<1>1. /\ item' = [d \in Items |-> IF d \in docs THEN new[d] ELSE item[d]]
      /\ rewritten' = [p \in People |->
            IF op'[p] = Idle THEN {}
            ELSE rewritten[p] \union (docs \intersect op[p].docs)]
  BY DEF Write
<1>2. item' \in [Items -> ItemStates \union {Absent}]
  BY <1>1 DEF ListInv
<1>3. \A d \in Items : item'[d] = IF d \in docs THEN new[d] ELSE item[d]
  BY <1>1
<1>4. Shape'
  <2>1. \A p \in People : op[p] = [kind |-> op[p].kind, docs |-> op[p].docs,
                                   seen |-> op[p].seen]
    BY DEF ListInv, Shape
  <2>2. \A p \in People : op'[p] = [kind |-> op'[p].kind, docs |-> op'[p].docs,
                                    seen |-> op'[p].seen]
    <3>1. Idle = [kind |-> Idle.kind, docs |-> Idle.docs, seen |-> Idle.seen]
      BY DEF Idle
    <3> QED BY <2>1, <3>1
  <2> QED BY <1>1, <2>2 DEF Shape
<1>5. ASSUME NEW p \in People PROVE PhoneInv(p)'
  <2>1. CASE op'[p] = Idle
    BY <1>1, <2>1 DEF PhoneInv, Idle
  <2>2. CASE op'[p] = op[p] /\ op[p] # Idle
    <3>1. rewritten'[p] = rewritten[p] \union (docs \intersect op[p].docs)
      BY <1>1, <2>2
    <3>2. \A d \in Items : Exists(d) => Exists(d)'
      BY <1>3, ItemExists DEF Exists
    <3>3. \A d \in op[p].docs :
              d \in Items /\ (d \in rewritten'[p] \/ item'[d] = item[d])
      BY <1>3, <3>1 DEF ListInv, PhoneInv
    <3> QED BY <2>2, <3>1, <3>2, <3>3 DEF ListInv, PhoneInv, Live, Exists
  <2> QED BY <2>1, <2>2
<1> QED BY <1>2, <1>3, <1>4, <1>5

\* At most one item comes back to the list, and none of its name is there or
\* being added, or the name is doubled from now on.
LEMMA NamesKept ==
    ASSUME ListInv, doubled \subseteq doubled', NEW d,
           \A e \in Items : Live(e)' => item'[e].name = item[e].name,
           \A e \in Items \ {d} : Live(e)' => Live(e),
           d \in Items /\ Live(d)' =>
               \/ Live(d)
               \/ item[d].name \in doubled'
               \/ Taken(item[d].name) \ {d} = {} /\ ~Adding(item[d].name),
           \A p \in People : op'[p] = op[p] \/ op'[p] = Idle
    PROVE  OneAdds' /\ OneItemPerName'
<1>1. OneAdds /\ OneItemPerName
  BY DEF ListInv
<1>2. OneItemPerName'
  BY <1>1 DEF OneItemPerName, Taken
<1>3. ASSUME NEW p \in People, op'[p].kind = "add", op'[p].seen \notin doubled'
      PROVE  /\ \A e \in Items : Live(e)' => item'[e].name # op'[p].seen
             /\ \A q \in People :
                   op'[q].kind = "add" /\ op'[q].seen = op'[p].seen => q = p
  <2>1. \A q \in People : op'[q].kind = "add" => op'[q] = op[q]
    BY DEF Idle
  <2> DEFINE n == op[p].seen
  <2>2. op'[p] = op[p] /\ n \notin doubled' /\ n \notin doubled /\ Adding(n)
    BY <1>3, <2>1 DEF Adding
  <2>3. /\ \A e \in Items : Live(e) => item[e].name # n
        /\ \A q \in People : op[q].kind = "add" /\ op[q].seen = n => q = p
    BY <1>1, <1>3, <2>2 DEF OneAdds
  <2> HIDE DEF n
  <2>4. \A e \in Items : Live(e)' => item'[e].name # n
    BY <2>2, <2>3
  <2> QED BY <1>3, <2>1, <2>2, <2>3, <2>4 DEF n
<1> QED BY <1>2, <1>3 DEF OneAdds

-----------------------------------------------------------------------------
\* setStatus, setFlag, deleteItem and restoreItem.
LEMMA BlindlyStep ==
    ASSUME ListInv, NEW d \in Items, NEW new, Blindly(d, new),
           new \in ItemStates,
           new.name = item[d].name,
           doubled \subseteq doubled', doubled' \subseteq Titles,
           \/ new.isDeleted \/ new.isDeleted = item[d].isDeleted
           \/ item[d].name \in doubled'
           \/ Taken(item[d].name) \ {d} = {} /\ ~Adding(item[d].name)
    PROVE  ListInv'
<1>1. /\ Exists(d) /\ op' = op
      /\ Write({d}, [item EXCEPT ![d] = new])
  BY DEF Blindly
<1> DEFINE f == [item EXCEPT ![d] = new]
<1>2. f[d] = new /\ {d} \in SUBSET Items /\ \A e \in {d} : f[e] \in ItemStates
  BY DEF ListInv
<1>3. op' = [p \in People |-> op'[p]] /\ \A p \in People : op'[p] = op[p]
  BY <1>1 DEF ListInv, Shape
<1> HIDE DEF f
<1>4. Write({d}, f)
  BY <1>1 DEF f
<1>5. /\ Shape'
      /\ item' \in [Items -> ItemStates \union {Absent}]
      /\ \A p \in People : PhoneInv(p)'
      /\ \A e \in Items : item'[e] = IF e \in {d} THEN f[e] ELSE item[e]
  BY <1>2, <1>3, <1>4, WriteStep
<1>6. OneAdds' /\ OneItemPerName'
  <2>1. /\ item'[d] = new
        /\ \A e \in Items \ {d} : item'[e] = item[e]
    BY <1>2, <1>5
  <2>2. /\ \A e \in Items : Live(e)' => item'[e].name = item[e].name
        /\ \A e \in Items \ {d} : Live(e)' => Live(e)
        /\ Live(d)' => ~new.isDeleted
        /\ ~item[d].isDeleted => Live(d)
    BY <1>1, <2>1 DEF Live, Exists
  <2> QED BY <1>3, <2>2, NamesKept
<1> QED BY <1>5, <1>6 DEF ListInv

LEMMA AddSetsStep ==
    ASSUME ListInv, NEW p \in People, NEW d \in Items, AddSets(p, d)
    PROVE  ListInv'
<1> DEFINE new == [Absent EXCEPT !.name = op[p].seen]
           f == [item EXCEPT ![d] = new]
<1>1. /\ op[p].kind = "add" /\ ~Exists(d)
      /\ op' = [op EXCEPT ![p] = Idle]
      /\ Write({d}, f) /\ doubled' = doubled
  BY DEF AddSets, Ends
<1>2. op[p].seen \in Titles
  BY <1>1 DEF ListInv, PhoneInv
<1>3. new \in ItemStates /\ new.name = op[p].seen
  BY <1>2 DEF Absent, ItemStates, Following
<1>4. f[d] = new /\ {d} \in SUBSET Items /\ \A e \in {d} : f[e] \in ItemStates
  BY <1>3 DEF ListInv
<1>5. /\ op' = [q \in People |-> op'[q]] /\ op'[p] = Idle
      /\ \A q \in People : op'[q] = op[q] \/ op'[q] = Idle
      /\ \A q \in People : q # p => op'[q] = op[q]
  BY <1>1 DEF ListInv, Shape
<1> HIDE DEF f, new
<1>6. /\ Shape'
      /\ item' \in [Items -> ItemStates \union {Absent}]
      /\ \A q \in People : PhoneInv(q)'
      /\ \A e \in Items : item'[e] = IF e \in {d} THEN f[e] ELSE item[e]
  BY <1>1, <1>4, <1>5, WriteStep
<1> DEFINE n == op[p].seen
<1>a. /\ item'[d].name = n
      /\ \A e \in Items \ {d} : item'[e] = item[e]
  BY <1>3, <1>4, <1>6
<1>b. \A e \in Items \ {d} : Live(e)' => Live(e) /\ item'[e].name = item[e].name
  BY <1>a DEF Live, Exists
<1>c. OneAdds /\ OneItemPerName
  BY DEF ListInv
<1>d. n \in doubled
      \/ /\ \A e \in Items : Live(e) => item[e].name # n
         /\ \A q \in People : op[q].kind = "add" /\ op[q].seen = n => q = p
  BY <1>1, <1>c DEF OneAdds
<1>7. OneItemPerName'
  <2>1. \A e \in Items : Live(e) /\ item[e].name = n => n \in doubled
    BY <1>d
  <2> HIDE DEF n
  <2> QED BY <1>1, <1>a, <1>b, <1>c, <2>1 DEF OneItemPerName
<1>8. OneAdds'
  <2> SUFFICES ASSUME NEW q \in People, op'[q].kind = "add",
                      op'[q].seen \notin doubled
               PROVE  /\ \A e \in Items : Live(e)' => item'[e].name # op'[q].seen
                      /\ \A o \in People :
                            op'[o].kind = "add" /\ op'[o].seen = op'[q].seen => o = q
    BY <1>1 DEF OneAdds
  <2>1. q # p /\ op'[q] = op[q]
    BY <1>5 DEF Idle
  <2>2. op[q].seen # n
    BY <1>d, <2>1
  <2>3. /\ \A e \in Items : Live(e) => item[e].name # op[q].seen
        /\ \A o \in People :
              op[o].kind = "add" /\ op[o].seen = op[q].seen => o = q
    BY <1>c, <2>1 DEF OneAdds
  <2> HIDE DEF n
  <2>4. \A e \in Items : Live(e)' => item'[e].name # op[q].seen
    BY <1>a, <1>b, <2>2, <2>3
  <2>5. \A o \in People : op'[o].kind = "add" => op'[o] = op[o]
    BY <1>5 DEF Idle
  <2> QED BY <2>1, <2>3, <2>4, <2>5
<1> QED BY <1>1, <1>6, <1>7, <1>8 DEF ListInv

\* What a transaction writes: a document of the item it read, with no reaction
\* lost when nobody has written it since.
LEMMA TxResultFacts ==
    ASSUME ListInv, NEW p \in People, op[p].kind \in {"cycle", "react"},
           Unchanged(p), NEW d \in op[p].docs
    PROVE  /\ d \in Items /\ Exists(d)
           /\ TxResult(p, d) \in ItemStates
           /\ TxResult(p, d).name = item[d].name
           /\ TxResult(p, d).isDeleted = item[d].isDeleted
           /\ item[d].reactions \subseteq TxResult(p, d).reactions
<1>1. d \in Items /\ Exists(d)
  BY DEF ListInv, PhoneInv
<1>2. item[d] \in ItemStates
  BY <1>1, ExistsType DEF ListInv
<1>3. CASE op[p].kind = "cycle"
  <2>1. Following[op[p].seen] \in DOMAIN Following
    BY <1>3 DEF ListInv, PhoneInv, Following
  <2> QED BY <1>1, <1>2, <1>3, <2>1 DEF TxResult, ItemStates
<1>4. CASE op[p].kind = "react"
  <2>1. op[p].seen \in SUBSET People /\ item[d].reactions = op[p].seen
    BY <1>4 DEF ListInv, PhoneInv, Unchanged
  <2>2. op[p].seen \union {p} \in SUBSET People
    BY <2>1
  <2> QED BY <1>1, <1>2, <1>4, <2>1, <2>2 DEF TxResult, ItemStates
<1> QED BY <1>3, <1>4

LEMMA TxCommitsStep ==
    ASSUME ListInv, NEW p \in People, TxCommits(p)
    PROVE  ListInv' /\ \A d \in Items : item[d].reactions \subseteq item'[d].reactions
<1>0. op[p].kind \in {"cycle", "react"} /\ Unchanged(p) /\ doubled' = doubled
  BY DEF TxCommits
<1>1. PICK d \in op[p].docs :
          Ends(p) /\ Write({d}, [item EXCEPT ![d] = TxResult(p, d)])
  BY DEF TxCommits
<1> DEFINE new == TxResult(p, d)
           f == [item EXCEPT ![d] = new]
<1>2. /\ d \in Items /\ Exists(d)
      /\ new \in ItemStates
      /\ new.name = item[d].name
      /\ new.isDeleted = item[d].isDeleted
      /\ item[d].reactions \subseteq new.reactions
  BY <1>0, TxResultFacts
<1> HIDE DEF new
<1>3. f[d] = new /\ {d} \in SUBSET Items /\ \A e \in {d} : f[e] \in ItemStates
  BY <1>2 DEF ListInv
<1>4. /\ op' = [q \in People |-> op'[q]]
      /\ \A q \in People : op'[q] = op[q] \/ op'[q] = Idle
  BY <1>1 DEF ListInv, Shape, Ends
<1> HIDE DEF f
<1>5. Write({d}, f)
  BY <1>1 DEF f, new
<1>6. /\ Shape'
      /\ item' \in [Items -> ItemStates \union {Absent}]
      /\ \A q \in People : PhoneInv(q)'
      /\ \A e \in Items : item'[e] = IF e \in {d} THEN f[e] ELSE item[e]
  BY <1>3, <1>4, <1>5, WriteStep
<1>7. OneAdds' /\ OneItemPerName'
  <2>1. \A e \in Items : Live(e)' => Live(e) /\ item'[e].name = item[e].name
    BY <1>2, <1>3, <1>6 DEF Live, Exists
  <2> QED BY <1>0, <1>2, <1>4, <2>1, NamesKept
<1>8. \A e \in Items : item[e].reactions \subseteq item'[e].reactions
  BY <1>2, <1>3, <1>6
<1> QED BY <1>0, <1>6, <1>7, <1>8 DEF ListInv

LEMMA ClearCommitsStep ==
    ASSUME ListInv, NEW p \in People, ClearCommits(p)
    PROVE  ListInv' /\ \A d \in Items : item'[d].reactions = item[d].reactions
<1> DEFINE docs == op[p].docs
           f == [d \in Items |-> [item[d] EXCEPT !.isDeleted = TRUE]]
<1>1. /\ op' = [op EXCEPT ![p] = Idle]
      /\ Write(docs, f) /\ doubled' = doubled
  BY DEF ClearCommits, Ends
<1>2. docs \in SUBSET Items /\ \A d \in docs : item[d] \in ItemStates
  BY ExistsType DEF ListInv, PhoneInv
<1>3. \A d \in docs : f[d] \in ItemStates
  BY <1>2 DEF ItemStates
<1>f. \A d \in docs : f[d].isDeleted /\ f[d].reactions = item[d].reactions
  BY <1>2 DEF ItemStates
<1>4. /\ op' = [q \in People |-> op'[q]]
      /\ \A q \in People : op'[q] = op[q] \/ op'[q] = Idle
  BY <1>1 DEF ListInv, Shape
<1> HIDE DEF f, docs
<1>5. /\ Shape'
      /\ item' \in [Items -> ItemStates \union {Absent}]
      /\ \A q \in People : PhoneInv(q)'
      /\ \A d \in Items : item'[d] = IF d \in docs THEN f[d] ELSE item[d]
  BY <1>1, <1>2, <1>3, <1>4, WriteStep
<1>6. OneAdds' /\ OneItemPerName'
  <2>1. \A e \in Items : Live(e)' => Live(e) /\ item'[e].name = item[e].name
    BY <1>f, <1>5 DEF Live, Exists
  <2> QED BY <1>1, <1>4, <2>1, NamesKept
<1>7. \A d \in Items : item'[d].reactions = item[d].reactions
  BY <1>f, <1>5
<1> QED BY <1>1, <1>5, <1>6, <1>7 DEF ListInv

-----------------------------------------------------------------------------
\* The queries, and the reads of transactions.
LEMMA ReadsStep ==
    ASSUME ListInv, NEW p \in People, NEW kind, NEW docs, NEW seen,
           Reads(p, kind, docs, seen),
           kind \in {"add", "cycle", "react", "clear"},
           docs \subseteq {d \in Items : Exists(d)},
           kind = "cycle" => seen \in DOMAIN Following,
           kind = "react" => /\ seen \in SUBSET People
                             /\ \A d \in docs : item[d].reactions = seen,
           kind = "add" => /\ seen \in Titles /\ Taken(seen) = {}
                           /\ ~Adding(seen) \/ seen \in doubled',
           doubled \subseteq doubled', doubled' \subseteq Titles
    PROVE  ListInv'
<1> DEFINE new == [kind |-> kind, docs |-> docs, seen |-> seen]
<1>1. op[p] = Idle /\ op' = [op EXCEPT ![p] = new]
      /\ item' = item /\ rewritten' = rewritten
  BY DEF Reads
<1>2. new = [kind |-> new.kind, docs |-> new.docs, seen |-> new.seen]
      /\ new.kind = kind /\ new.docs = docs /\ new.seen = seen
  OBVIOUS
<1> HIDE DEF new
<1>3. op' = [q \in People |-> op'[q]] /\ op'[p] = new
      /\ \A q \in People : q # p => op'[q] = op[q]
  BY <1>1 DEF ListInv, Shape
<1>4. Shape'
  <2>1. \A q \in People : op'[q] = [kind |-> op'[q].kind, docs |-> op'[q].docs,
                                    seen |-> op'[q].seen]
    BY <1>2, <1>3 DEF ListInv, Shape
  <2> QED BY <1>1, <1>3, <2>1 DEF ListInv, Shape
<1>5. ASSUME NEW q \in People PROVE PhoneInv(q)'
  <2>1. CASE q = p
    <3>1. rewritten[p] = {}
      BY <1>1 DEF ListInv, PhoneInv, Idle
    <3> QED BY <1>1, <1>2, <1>3, <2>1, <3>1 DEF PhoneInv, Live, Exists
  <2>2. CASE q # p
    BY <1>1, <1>3, <2>2 DEF ListInv, PhoneInv, Live, Exists
  <2> QED BY <2>1, <2>2
<1>6. OneItemPerName'
  BY <1>1 DEF ListInv, OneItemPerName, Live, Exists
<1>7. OneAdds'
  <2>1. \A e \in Items :
            /\ item'[e] = item[e] /\ (Live(e)' <=> Live(e))
            /\ kind = "add" /\ Live(e) => item[e].name # seen
    BY <1>1 DEF Taken, Live, Exists
  <2>2. OneAdds
    BY DEF ListInv
  <2>3. ASSUME kind = "add", seen \notin doubled', NEW q \in People,
               op[q].kind = "add"
        PROVE  op[q].seen # seen
    BY <2>3 DEF Adding
  <2> QED BY <1>2, <1>3, <2>1, <2>2, <2>3 DEF OneAdds
<1> QED BY <1>1, <1>4, <1>5, <1>6, <1>7 DEF ListInv

\* An operation ends without a write: a lost one, or one that runs again.
LEMMA EndsStep ==
    ASSUME ListInv, NEW p \in People, Ends(p),
           rewritten' = [rewritten EXCEPT ![p] = {}],
           UNCHANGED <<item, doubled>>
    PROVE  ListInv'
<1>1. /\ op' = [q \in People |-> op'[q]] /\ op'[p] = Idle
      /\ \A q \in People : q # p => op'[q] = op[q]
      /\ rewritten' = [q \in People |-> rewritten'[q]] /\ rewritten'[p] = {}
      /\ \A q \in People : q # p => rewritten'[q] = rewritten[q]
  BY DEF ListInv, Shape, Ends
<1>2. Shape'
  <2>1. Idle = [kind |-> Idle.kind, docs |-> Idle.docs, seen |-> Idle.seen]
    BY DEF Idle
  <2>2. \A q \in People : op'[q] = [kind |-> op'[q].kind, docs |-> op'[q].docs,
                                    seen |-> op'[q].seen]
    BY <1>1, <2>1 DEF ListInv, Shape
  <2> QED BY <1>1, <2>2 DEF Shape
<1>3. ASSUME NEW q \in People PROVE PhoneInv(q)'
  <2>1. CASE q = p
    BY <1>1, <2>1 DEF PhoneInv, Idle
  <2>2. CASE q # p
    BY <1>1, <2>2 DEF ListInv, PhoneInv, Live, Exists
  <2> QED BY <2>1, <2>2
<1>4. OneAdds' /\ OneItemPerName'
  <2>1. \A e \in Items : Live(e)' => Live(e) /\ item'[e].name = item[e].name
    BY DEF Live, Exists
  <2>2. \A q \in People : op'[q] = op[q] \/ op'[q] = Idle
    BY <1>1
  <2> QED BY <2>1, <2>2, NamesKept
<1> QED BY <1>2, <1>3, <1>4 DEF ListInv

-----------------------------------------------------------------------------
\* What a step may do to the reactions of an item.
ReactionsKept ==
    \A d \in Items :
        \/ item[d].reactions \subseteq item'[d].reactions
        \/ ~item'[d].flag /\ item'[d].reactions = {}

LEMMA ListStepInv == ListInv /\ [ListNext]_listVars => ListInv' /\ ReactionsKept
<1> SUFFICES ASSUME ListInv, [ListNext]_listVars PROVE ListInv' /\ ReactionsKept
  OBVIOUS
<1>t. \A d \in Items : Exists(d) => item[d] \in ItemStates
  BY ExistsType DEF ListInv
<1>u. \A d \in Items : \A new : Blindly(d, new) =>
          \A e \in Items : item'[e] = IF e = d THEN new ELSE item[e]
  BY DEF ListInv, Blindly, Write
<1>1. ASSUME NEW d \in Items, NEW s \in DOMAIN Following, SetStatus(d, s)
      PROVE  ListInv' /\ ReactionsKept
  <2> DEFINE new == [item[d] EXCEPT !.status = s]
  <2>1. Exists(d) /\ Blindly(d, new) /\ doubled' = doubled
    BY <1>1 DEF SetStatus, Blindly
  <2>2. /\ new \in ItemStates /\ new.name = item[d].name
        /\ new.reactions = item[d].reactions
    BY <2>1, <1>t DEF ItemStates
  <2>3. new.isDeleted = item[d].isDeleted
    BY <2>1, <1>t DEF ItemStates
  <2> HIDE DEF new
  <2>4. ListInv'
    <3>1. doubled \subseteq doubled' /\ doubled' \subseteq Titles
      BY <2>1 DEF ListInv
    <3> QED BY <2>1, <2>2, <2>3, <3>1, BlindlyStep
  <2>5. ReactionsKept
    BY <2>1, <2>2, <1>u DEF ReactionsKept
  <2> QED BY <2>4, <2>5
<1>2. ASSUME NEW d \in Items, NEW flag \in BOOLEAN, SetFlag(d, flag)
      PROVE  ListInv' /\ ReactionsKept
  <2> DEFINE new == [item[d] EXCEPT !.flag = flag,
                                    !.reactions = IF flag THEN @ ELSE {}]
  <2>1. Exists(d) /\ Blindly(d, new) /\ doubled' = doubled
    BY <1>2 DEF SetFlag, Blindly
  <2>2. new \in ItemStates /\ new.name = item[d].name
    BY <2>1, <1>t DEF ItemStates
  <2>3. new.isDeleted = item[d].isDeleted
    BY <2>1, <1>t DEF ItemStates
  <2>r. \/ new.reactions = item[d].reactions
        \/ ~new.flag /\ new.reactions = {}
    BY <2>1, <1>t DEF ItemStates
  <2> HIDE DEF new
  <2>4. ListInv'
    <3>1. doubled \subseteq doubled' /\ doubled' \subseteq Titles
      BY <2>1 DEF ListInv
    <3> QED BY <2>1, <2>2, <2>3, <3>1, BlindlyStep
  <2>5. ReactionsKept
    BY <2>1, <2>r, <1>u DEF ReactionsKept
  <2> QED BY <2>4, <2>5
<1>3. ASSUME NEW d \in Items, DeleteItem(d) PROVE ListInv' /\ ReactionsKept
  <2> DEFINE new == [item[d] EXCEPT !.isDeleted = TRUE]
  <2>1. Exists(d) /\ Blindly(d, new) /\ doubled' = doubled
    BY <1>3 DEF DeleteItem, Blindly
  <2>2. /\ new \in ItemStates /\ new.name = item[d].name
        /\ new.reactions = item[d].reactions
    BY <2>1, <1>t DEF ItemStates
  <2>3. new.isDeleted
    BY <2>1, <1>t DEF ItemStates
  <2> HIDE DEF new
  <2>4. ListInv'
    <3>1. doubled \subseteq doubled' /\ doubled' \subseteq Titles
      BY <2>1 DEF ListInv
    <3> QED BY <2>1, <2>2, <2>3, <3>1, BlindlyStep
  <2>5. ReactionsKept
    BY <2>1, <2>2, <1>u DEF ReactionsKept
  <2> QED BY <2>4, <2>5
<1>4. ASSUME NEW d \in Items, RestoreItem(d) PROVE ListInv' /\ ReactionsKept
  <2> DEFINE new == [item[d] EXCEPT !.isDeleted = FALSE]
  <2> DEFINE n == item[d].name
  <2>1. /\ Exists(d) /\ Blindly(d, new)
        /\ doubled' = IF Taken(n) \ {d} # {} \/ Adding(n)
                      THEN doubled \union {n} ELSE doubled
    BY <1>4 DEF RestoreItem, Blindly
  <2>2. /\ new \in ItemStates /\ new.name = item[d].name
        /\ new.reactions = item[d].reactions
    BY <2>1, <1>t DEF ItemStates
  <2> HIDE DEF new
  <2>3. n \in Titles /\ doubled \subseteq Titles
    BY <2>1, <1>t DEF ItemStates, ListInv
  <2>c. doubled \subseteq doubled' /\ doubled' \subseteq Titles
    BY <2>1, <2>3
  <2>d. n \in doubled' \/ (Taken(n) \ {d} = {} /\ ~Adding(n))
    BY <2>1
  <2> HIDE DEF n
  <2>e. ListInv'
    BY <2>1, <2>2, <2>c, <2>d, BlindlyStep DEF n
  <2>4. ReactionsKept
    BY <2>1, <2>2, <1>u DEF ReactionsKept
  <2> QED BY <2>e, <2>4
<1>5. ASSUME NEW p \in People, NEW d \in Items, AddSets(p, d)
      PROVE  ListInv' /\ ReactionsKept
  <2>1. /\ item[d] = Absent
        /\ \A e \in Items \ {d} : item'[e] = item[e]
    BY <1>5 DEF AddSets, Write, Exists
  <2>2. ReactionsKept
    BY <2>1 DEF ReactionsKept, Absent
  <2> QED BY <1>5, <2>2, AddSetsStep
<1>6. ASSUME NEW p \in People, TxCommits(p) PROVE ListInv' /\ ReactionsKept
  BY <1>6, TxCommitsStep DEF ReactionsKept
<1>7. ASSUME NEW p \in People, ClearCommits(p) PROVE ListInv' /\ ReactionsKept
  BY <1>7, ClearCommitsStep DEF ReactionsKept
<1>8. ASSUME NEW p \in People, NEW name \in Names, AddQueries(p, name)
      PROVE  ListInv'
  <2> DEFINE n == SentenceCase(name)
  <2>1. /\ Taken(n) = {} /\ Reads(p, "add", {}, n)
        /\ doubled' = IF Adding(n) THEN doubled \union {n} ELSE doubled
    BY <1>8 DEF AddQueries
  <2>2. n \in Titles
    BY DEF Titles
  <2> HIDE DEF n
  <2>3. doubled \subseteq doubled' /\ doubled' \subseteq Titles
    BY <2>1, <2>2 DEF ListInv
  <2>4. ~Adding(n) \/ n \in doubled'
    BY <2>1
  <2> QED BY <2>1, <2>2, <2>3, <2>4, ReadsStep
<1>9. ASSUME NEW p \in People, NEW d \in Items, CycleStatus(p, d) PROVE ListInv'
  <2>1. Exists(d) /\ Reads(p, "cycle", {d}, item[d].status) /\ doubled' = doubled
    BY <1>9 DEF CycleStatus
  <2>2. item[d].status \in DOMAIN Following
    BY <2>1, <1>t DEF ItemStates
  <2>3. doubled \subseteq doubled' /\ doubled' \subseteq Titles
    BY <2>1 DEF ListInv
  <2> QED BY <2>1, <2>2, <2>3, ReadsStep
<1>10. ASSUME NEW p \in People, NEW d \in Items, ReactOnIt(p, d) PROVE ListInv'
  <2>1. Exists(d) /\ Reads(p, "react", {d}, item[d].reactions) /\ doubled' = doubled
    BY <1>10 DEF ReactOnIt
  <2>2. item[d].reactions \in SUBSET People
    BY <2>1, <1>t DEF ItemStates
  <2>3. doubled \subseteq doubled' /\ doubled' \subseteq Titles
    BY <2>1 DEF ListInv
  <2> QED BY <2>1, <2>2, <2>3, ReadsStep
<1>11. ASSUME NEW p \in People, ClearQueries(p) PROVE ListInv'
  <2>1. Reads(p, "clear", Done, None) /\ doubled' = doubled
    BY <1>11 DEF ClearQueries
  <2>2. Done \subseteq {d \in Items : Exists(d)}
    BY DEF Done, Live
  <2>3. doubled \subseteq doubled' /\ doubled' \subseteq Titles
    BY <2>1 DEF ListInv
  <2> QED BY <2>1, <2>2, <2>3, ReadsStep
<1>12. ASSUME NEW p \in People, TxRetries(p) \/ Lost(p)
       PROVE  ListInv' /\ ReactionsKept
  <2>1. /\ Ends(p) /\ rewritten' = [rewritten EXCEPT ![p] = {}]
        /\ UNCHANGED <<item, doubled>>
    BY <1>12 DEF TxRetries, Lost
  <2> QED BY <2>1, EndsStep DEF ReactionsKept
<1>13. ASSUME NEW p \in People,
              \/ \E name \in Names : AddQueries(p, name)
              \/ \E d \in Items : CycleStatus(p, d) \/ ReactOnIt(p, d)
              \/ ClearQueries(p)
       PROVE  ReactionsKept
  <2>1. item' = item
    BY <1>13 DEF AddQueries, CycleStatus, ReactOnIt, ClearQueries, Reads
  <2> QED BY <2>1 DEF ReactionsKept
<1>14. CASE UNCHANGED listVars
  <2>1. ListInv'
    BY <1>14 DEF listVars, ListInv, Shape, PhoneInv, OneAdds,
                 OneItemPerName, Live, Exists
  <2> QED BY <1>14, <2>1 DEF listVars, ReactionsKept
<1> QED
  BY <1>1, <1>2, <1>3, <1>4, <1>5, <1>6, <1>7, <1>8, <1>9, <1>10, <1>11, <1>12,
     <1>13, <1>14
     DEF ListNext

LEMMA ListInvHolds == ListSpec => []ListInv
  BY ListInitInv, ListStepInv, PTL DEF ListSpec

\* The documents and the operations under way keep their types: what a phone
\* has read is still there when it writes.
THEOREM ListTypeCorrect == ListSpec => []ListTypeOK
<1>1. ListInv => ListTypeOK
  BY DEF ListInv, PhoneInv, ListTypeOK
<1> QED BY <1>1, ListInvHolds, PTL

\* For any number of phones, items and spellings: the list shows a name once,
\* unless it was added twice at a time or restored beside another item of it.
THEOREM NamesAreUnique == ListSpec => []OneItemPerName
<1>1. ListInv => OneItemPerName
  BY DEF ListInv
<1> QED BY <1>1, ListInvHolds, PTL

\* For any number of phones: reactOnIt's transaction loses no reaction, and
\* the only write that drops reactions is the one that clears the flag.
THEOREM ReactionsSurvive == ListSpec => KeepsReactions
<1>1. ListInv /\ [ListNext]_listVars =>
          [\A d \in Items :
              \/ item[d].reactions \subseteq item'[d].reactions
              \/ ~item'[d].flag /\ item'[d].reactions = {}]_listVars
  BY ListStepInv DEF ReactionsKept
<1> QED BY <1>1, ListInvHolds, PTL DEF ListSpec, KeepsReactions

-----------------------------------------------------------------------------
(* The presence.                                                           *)

\* One phone's part of the invariant, for its unanswered requests q, of which
\* c are carried out, and its handler a.  A write of the node that is to come
\* has the handler, or a removal behind it, or a cancel before it; so has the
\* write that an answer to an "arm" will send.
SetsCovered(q, c, a) ==
    \A i \in 1..Len(q) : i > c /\ q[i] = "set" =>
        \/ a
        \/ \E j \in 1..Len(q) : j > i /\ q[j] = "remove"
        \/ \E j \in 1..Len(q) : j <= c /\ q[j] = "cancel"

ArmsCovered(q, c, a) ==
    \A i \in 1..Len(q) : i <= c /\ q[i] = "arm" =>
        \/ a
        \/ \E j \in 1..Len(q) : i < j /\ j <= c /\ q[j] = "cancel"

Goes(q, c) ==
    \E i \in 1..Len(q) : IF i > c THEN q[i] = "remove" ELSE q[i] = "cancel"

Covered(q, c, a) == SetsCovered(q, c, a) /\ ArmsCovered(q, c, a)

\* What the invariant says of phone p.
Safe(p) ==
    p \notin torn =>
        /\ Covered(queue[p], carried[p], armed[p])
        /\ node[p] => armed[p] \/ dangling[p] \/ Goes(queue[p], carried[p])

PresenceInv == PresenceTypeOK /\ \A p \in Shoppers : Safe(p)

\* A request sent.
LEMMA AppendKeeps ==
    ASSUME NEW q \in Seq(Requests), NEW c \in Nat, c <= Len(q), NEW a \in BOOLEAN,
           NEW r \in {"arm", "cancel"}
    PROVE  /\ Append(q, r) \in Seq(Requests)
           /\ c <= Len(Append(q, r))
           /\ Covered(q, c, a) => Covered(Append(q, r), c, a)
           /\ Goes(q, c) => Goes(Append(q, r), c)
<1> DEFINE s == Append(q, r)
<1>1. /\ s \in Seq(Requests)
      /\ Len(q) \in Nat
      /\ Len(s) = Len(q) + 1
      /\ \A i \in 1..Len(q) : s[i] = q[i]
      /\ s[Len(q) + 1] = r
  BY DEF Requests
<1> HIDE DEF s
<1>2. \A i \in 1..Len(s) :
          \/ i \in 1..Len(q)
          \/ i = Len(s) /\ s[i] = r /\ i > c
  BY <1>1
<1>3. SetsCovered(q, c, a) => SetsCovered(s, c, a)
  BY <1>1, <1>2 DEF SetsCovered
<1>4. ArmsCovered(q, c, a) => ArmsCovered(s, c, a)
  BY <1>1, <1>2 DEF ArmsCovered
<1>5. Goes(q, c) => Goes(s, c)
  BY <1>1, <1>2 DEF Goes
<1> QED BY <1>1, <1>3, <1>4, <1>5 DEF s, Covered

\* A request carried out.
LEMMA CarryKeeps ==
    ASSUME NEW q \in Seq(Requests), NEW c \in Nat, c < Len(q), NEW a \in BOOLEAN,
           NEW b \in BOOLEAN, b = ((a \/ q[c + 1] = "arm") /\ q[c + 1] # "cancel"),
           q[c + 1] = "arm" \/ Covered(q, c, a)
    PROVE  /\ Covered(q, c + 1, b)
           /\ q[c + 1] = "set" => b \/ Goes(q, c + 1)
           /\ a \/ Goes(q, c) => b \/ Goes(q, c + 1) \/ q[c + 1] = "remove"
<1>1. c + 1 \in 1..Len(q) /\ \A i \in 1..Len(q) : i <= c + 1 <=> i <= c \/ i = c + 1
  OBVIOUS
<1>2. CASE q[c + 1] = "arm"
  BY <1>2 DEF Covered, SetsCovered, ArmsCovered
<1>3. CASE q[c + 1] = "cancel"
  <2>1. SetsCovered(q, c + 1, b)
    BY <1>1, <1>3 DEF SetsCovered
  <2>2. ArmsCovered(q, c + 1, b)
    BY <1>1, <1>3 DEF ArmsCovered
  <2>3. Goes(q, c + 1)
    BY <1>1, <1>3 DEF Goes
  <2> QED BY <1>3, <2>1, <2>2, <2>3 DEF Covered
<1>4. CASE q[c + 1] \notin {"arm", "cancel"}
  <2>0. Covered(q, c, a) /\ a = b
    BY <1>4
  <2>1. SetsCovered(q, c + 1, b)
    BY <1>1, <2>0 DEF Covered, SetsCovered
  <2>2. ArmsCovered(q, c + 1, b)
    BY <1>1, <1>4, <2>0 DEF Covered, ArmsCovered
  <2>3. q[c + 1] = "set" => b \/ Goes(q, c + 1)
    BY <1>1, <2>0 DEF Covered, SetsCovered, Goes
  <2>4. Goes(q, c) => Goes(q, c + 1) \/ q[c + 1] = "remove"
    BY <1>1 DEF Goes
  <2> QED BY <2>0, <2>1, <2>2, <2>3, <2>4 DEF Covered
<1> QED BY <1>2, <1>3, <1>4

\* What an answer sends.
Goon(q) ==
    CASE Head(q) = "arm" -> Append(Tail(q), "set")
      [] Head(q) = "cancel" -> Append(Tail(q), "remove")
      [] OTHER -> Tail(q)

\* The requests after an answer: those behind it move up.
LEMMA GoonFacts ==
    ASSUME NEW q \in Seq(Requests), q # << >>
    PROVE  /\ Goon(q) \in Seq(Requests)
           /\ Len(q) \in Nat \ {0}
           /\ Len(Goon(q)) =
                 IF q[1] \in {"arm", "cancel"} THEN Len(q) ELSE Len(q) - 1
           /\ \A i \in 1..(Len(q) - 1) : Goon(q)[i] = q[i + 1]
           /\ q[1] = "arm" => Goon(q)[Len(q)] = "set"
           /\ q[1] = "cancel" => Goon(q)[Len(q)] = "remove"
<1> DEFINE t == Tail(q)
<1>1. /\ t \in Seq(Requests)
      /\ Len(q) \in Nat \ {0}
      /\ Len(t) = Len(q) - 1
      /\ \A i \in 1..(Len(q) - 1) : t[i] = q[i + 1]
      /\ Head(q) = q[1]
  OBVIOUS
<1> HIDE DEF t
<1>2. \A r \in Requests :
          /\ Append(t, r) \in Seq(Requests)
          /\ Len(Append(t, r)) = Len(q)
          /\ \A i \in 1..(Len(q) - 1) : Append(t, r)[i] = t[i]
          /\ Append(t, r)[Len(q)] = r
  BY <1>1
<1>3. CASE q[1] = "arm"
  <2>1. Goon(q) = Append(t, "set")
    BY <1>1, <1>3 DEF Goon, t
  <2> QED BY <1>1, <1>2, <1>3, <2>1 DEF Requests
<1>4. CASE q[1] = "cancel"
  <2>1. Goon(q) = Append(t, "remove")
    BY <1>1, <1>4 DEF Goon, t
  <2> QED BY <1>1, <1>2, <1>4, <2>1 DEF Requests
<1>5. CASE q[1] \notin {"arm", "cancel"}
  <2>1. Goon(q) = t
    BY <1>1, <1>5 DEF Goon, t
  <2> QED BY <1>1, <1>5, <2>1
<1> QED BY <1>3, <1>4, <1>5

LEMMA AnswerKeeps ==
    ASSUME NEW q \in Seq(Requests), NEW c \in Nat \ {0}, c <= Len(q),
           NEW a \in BOOLEAN, Covered(q, c, a)
    PROVE  /\ Covered(Goon(q), c - 1, a)
           /\ Goes(q, c) => Goes(Goon(q), c - 1)
<1> DEFINE s == Goon(q)
           n == Len(q)
<1>1. /\ n \in Nat \ {0} /\ c <= n /\ c - 1 \in Nat
      /\ Len(s) = IF q[1] \in {"arm", "cancel"} THEN n ELSE n - 1
      /\ \A i \in 1..(n - 1) : s[i] = q[i + 1]
      /\ q[1] = "arm" => s[n] = "set"
      /\ q[1] = "cancel" => s[n] = "remove"
  <2>1. Len(q) \in Nat /\ (q = << >> => Len(q) = 0)
    OBVIOUS
  <2>2. q # << >>
    BY <2>1
  <2> QED BY <2>2, GoonFacts
<1>2. \A j \in 1..Len(q) : j > 1 => j - 1 \in 1..Len(s) /\ s[j - 1] = q[j]
  BY <1>1
<1>3. \A i \in 1..Len(s) :
          \/ i + 1 \in 1..Len(q) /\ s[i] = q[i + 1]
          \/ /\ i = n /\ Len(s) = n
             /\ \/ q[1] = "arm" /\ s[i] = "set"
                \/ q[1] = "cancel" /\ s[i] = "remove"
  BY <1>1
<1> HIDE DEF s, n
<1>4. q[1] = "cancel" => Goes(s, c - 1)
  BY <1>1 DEF Goes, n
<1>5. Goes(q, c) => Goes(s, c - 1)
  <2> SUFFICES ASSUME NEW i \in 1..Len(q), q[1] # "cancel",
                      IF i > c THEN q[i] = "remove" ELSE q[i] = "cancel"
               PROVE  Goes(s, c - 1)
    BY <1>4 DEF Goes
  <2>1. i > 1
    BY <1>1
  <2> QED BY <1>1, <1>2, <2>1 DEF Goes
<1>6. ArmsCovered(s, c - 1, a)
  <2> SUFFICES ASSUME NEW i \in 1..Len(s), i <= c - 1, s[i] = "arm", ~a
               PROVE  \E j \in 1..Len(s) : i < j /\ j <= c - 1 /\ s[j] = "cancel"
    BY DEF ArmsCovered
  <2>1. i + 1 \in 1..Len(q) /\ q[i + 1] = "arm" /\ i + 1 <= c
    BY <1>1, <1>3
  <2>2. PICK j \in 1..Len(q) : i + 1 < j /\ j <= c /\ q[j] = "cancel"
    BY <2>1 DEF Covered, ArmsCovered
  <2>3. j - 1 \in 1..Len(s) /\ s[j - 1] = "cancel"
    BY <1>2, <2>2
  <2> QED BY <1>1, <2>2, <2>3
<1>7. SetsCovered(s, c - 1, a)
  <2> SUFFICES ASSUME NEW i \in 1..Len(s), i > c - 1, s[i] = "set", ~a
               PROVE  \/ \E j \in 1..Len(s) : j > i /\ s[j] = "remove"
                      \/ \E j \in 1..Len(s) : j <= c - 1 /\ s[j] = "cancel"
    BY DEF SetsCovered
  <2>1. CASE q[1] = "cancel"
    <3>1. n \in 1..Len(s) /\ s[n] = "remove" /\ i < n
      BY <1>1, <2>1
    <3> QED BY <3>1
  <2>2. CASE q[1] # "cancel" /\ i + 1 \in 1..Len(q) /\ s[i] = q[i + 1]
    <3>1. \/ \E j \in 1..Len(q) : j > i + 1 /\ q[j] = "remove"
          \/ \E j \in 1..Len(q) : j <= c /\ q[j] = "cancel"
      BY <1>1, <2>2 DEF Covered, SetsCovered
    <3>2. ASSUME NEW j \in 1..Len(q), j > i + 1, q[j] = "remove"
          PROVE  j - 1 \in 1..Len(s) /\ j - 1 > i /\ s[j - 1] = "remove"
      BY <1>2, <3>2
    <3>3. ASSUME NEW j \in 1..Len(q), j <= c, q[j] = "cancel"
          PROVE  j - 1 \in 1..Len(s) /\ j - 1 <= c - 1 /\ s[j - 1] = "cancel"
      <4>1. j > 1
        BY <2>2, <3>3
      <4> QED BY <1>1, <1>2, <3>3, <4>1
    <3> QED BY <3>1, <3>2, <3>3
  <2>3. CASE q[1] = "arm"  /\ i = n
    <3>1. 1 \in 1..Len(q) /\ 1 <= c
      BY <1>1 DEF n
    <3>2. PICK j \in 1..Len(q) : 1 < j /\ j <= c /\ q[j] = "cancel"
      BY <2>3, <3>1 DEF Covered, ArmsCovered
    <3>3. j - 1 \in 1..Len(s) /\ j - 1 <= c - 1 /\ s[j - 1] = "cancel"
      BY <1>1, <1>2, <3>2
    <3> QED BY <3>3
  <2> QED BY <1>3, <2>1, <2>2, <2>3
<1> QED BY <1>5, <1>6, <1>7 DEF s, Covered

\* What is sent again when the socket drops.
Resent(q) ==
    [i \in 1..Len(q) |-> IF q[i] \in {"set", "remove"} THEN q[i] ELSE "lost"]

LEMMA DropKeeps ==
    ASSUME NEW q \in Seq(Requests), NEW c \in Nat, c <= Len(q)
    PROVE  /\ Resent(q) \in Seq(Requests)
           /\ Len(Resent(q)) = Len(q)
           /\ (\A i \in 1..Len(q) :
                  q[i] = "set" => \E j \in i..Len(q) : q[j] = "remove")
                  => Covered(Resent(q), 0, FALSE)
           /\ (\E j \in 1..Len(q) : q[j] = "remove") => Goes(Resent(q), 0)
<1> DEFINE s == Resent(q)
<1>1. /\ s \in Seq(Requests)
      /\ Len(q) \in Nat
      /\ Len(s) = Len(q)
      /\ \A i \in 1..Len(q) :
            s[i] = IF q[i] \in {"set", "remove"} THEN q[i] ELSE "lost"
  BY DEF Resent, Requests
<1> HIDE DEF s
<1>2. ASSUME \A i \in 1..Len(q) :
                 q[i] = "set" => \E j \in i..Len(q) : q[j] = "remove"
      PROVE  SetsCovered(s, 0, FALSE)
  <2> SUFFICES ASSUME NEW i \in 1..Len(s), s[i] = "set"
               PROVE  \E j \in 1..Len(s) : j > i /\ s[j] = "remove"
    BY DEF SetsCovered
  <2>1. i \in 1..Len(q) /\ q[i] = "set"
    BY <1>1
  <2>2. PICK j \in i..Len(q) : q[j] = "remove"
    BY <1>2, <2>1
  <2>3. j \in 1..Len(s) /\ j > i /\ s[j] = "remove"
    BY <1>1, <2>1, <2>2
  <2> QED BY <2>3
<1>3. ArmsCovered(s, 0, FALSE)
  BY <1>1 DEF ArmsCovered
<1>4. (\E j \in 1..Len(q) : q[j] = "remove") => Goes(s, 0)
  BY <1>1 DEF Goes
<1> QED BY <1>1, <1>2, <1>3, <1>4 DEF s, Covered

-----------------------------------------------------------------------------
LEMMA PresenceInitInv == PresenceInit => PresenceInv
<1> SUFFICES ASSUME PresenceInit PROVE PresenceInv
  OBVIOUS
<1>1. Covered(<< >>, 0, FALSE)
  BY DEF Covered, SetsCovered, ArmsCovered
<1>2. << >> \in Seq(Requests) /\ Len(<< >>) = 0
  OBVIOUS
<1>3. PresenceTypeOK
  BY <1>2 DEF PresenceInit, PresenceTypeOK
<1>4. \A p \in Shoppers : Safe(p)
  BY <1>1 DEF PresenceInit, Safe
<1> QED BY <1>3, <1>4 DEF PresenceInv

\* A step of phone p leaves the others alone.
LEMMA OneMoves ==
    ASSUME PresenceInv, NEW p \in Shoppers, Safe(p)',
           NEW vn \in BOOLEAN, NEW vq \in Seq(Requests), NEW vc \in Nat,
           NEW va \in BOOLEAN, NEW vd \in BOOLEAN, vc <= Len(vq),
           node' = [node EXCEPT ![p] = vn],
           queue' = [queue EXCEPT ![p] = vq],
           carried' = [carried EXCEPT ![p] = vc],
           armed' = [armed EXCEPT ![p] = va],
           dangling' = [dangling EXCEPT ![p] = vd],
           torn' \in {torn, torn \union {p}, torn \ {p}}
    PROVE  PresenceInv'
<1>1. PresenceTypeOK /\ \A o \in Shoppers : Safe(o)
  BY DEF PresenceInv
<1>2. PresenceTypeOK'
  BY <1>1 DEF PresenceTypeOK
<1>3. \A o \in Shoppers \ {p} :
          /\ node'[o] = node[o] /\ queue'[o] = queue[o]
          /\ carried'[o] = carried[o] /\ armed'[o] = armed[o]
          /\ dangling'[o] = dangling[o] /\ (o \in torn' <=> o \in torn)
  BY <1>1 DEF PresenceTypeOK
<1>4. \A o \in Shoppers \ {p} : Safe(o)'
  BY <1>1, <1>3 DEF Safe
<1> QED BY <1>2, <1>4 DEF PresenceInv

LEMMA PresenceStepInv == PresenceInv /\ [PresenceNext]_presenceVars => PresenceInv'
<1> SUFFICES ASSUME PresenceInv, [PresenceNext]_presenceVars PROVE PresenceInv'
  OBVIOUS
<1>t. /\ node \in [Shoppers -> BOOLEAN] /\ queue \in [Shoppers -> Seq(Requests)]
      /\ carried \in [Shoppers -> Nat]
      /\ \A p \in Shoppers : carried[p] <= Len(queue[p])
      /\ armed \in [Shoppers -> BOOLEAN] /\ dangling \in [Shoppers -> BOOLEAN]
      /\ torn \subseteq Shoppers
  BY DEF PresenceInv, PresenceTypeOK
<1>s. \A p \in Shoppers : Safe(p)
  BY DEF PresenceInv
<1>l. \A p \in Shoppers : Leaving(p) <=> Goes(queue[p], carried[p])
  BY DEF Leaving, Goes
<1>1. ASSUME NEW p \in Shoppers, NEW r \in {"arm", "cancel"}, Send(p, r)
      PROVE  PresenceInv'
  <2> DEFINE q == Append(queue[p], r)
  <2>1. /\ queue' = [queue EXCEPT ![p] = q]
        /\ UNCHANGED <<node, carried, armed, dangling, torn>>
    BY <1>1 DEF Send
  <2>2. /\ q \in Seq(Requests) /\ carried[p] <= Len(q)
        /\ Covered(queue[p], carried[p], armed[p]) =>
              Covered(q, carried[p], armed[p])
        /\ Goes(queue[p], carried[p]) => Goes(q, carried[p])
    BY <1>t, AppendKeeps
  <2> HIDE DEF q
  <2>3. Safe(p)'
    BY <2>1, <2>2, <1>t, <1>s DEF Safe
  <2>4. /\ node' = [node EXCEPT ![p] = node[p]] /\ node[p] \in BOOLEAN
        /\ carried' = [carried EXCEPT ![p] = carried[p]] /\ carried[p] \in Nat
        /\ armed' = [armed EXCEPT ![p] = armed[p]] /\ armed[p] \in BOOLEAN
        /\ dangling' = [dangling EXCEPT ![p] = dangling[p]]
        /\ dangling[p] \in BOOLEAN
    BY <2>1, <1>t
  <2> QED BY <2>1, <2>2, <2>3, <2>4, OneMoves
<1>2. ASSUME NEW p \in Shoppers, CarryOut(p) PROVE PresenceInv'
  <2> DEFINE q == queue[p]
             c == carried[p]
             r == q[c + 1]
             a == (armed[p] \/ r = "arm") /\ r # "cancel"
             n == (node[p] \/ r = "set") /\ r # "remove"
  <2>1. /\ c < Len(q)
        /\ carried' = [carried EXCEPT ![p] = c + 1]
        /\ armed' = [armed EXCEPT ![p] = a]
        /\ node' = [node EXCEPT ![p] = n]
        /\ torn' = IF r = "arm" THEN torn \ {p} ELSE torn
        /\ UNCHANGED <<queue, dangling>>
    BY <1>2 DEF CarryOut
  <2>2. q \in Seq(Requests) /\ c \in Nat /\ a \in BOOLEAN /\ n \in BOOLEAN
        /\ armed[p] \in BOOLEAN
    BY <1>t
  <2>3. ASSUME r = "arm" \/ Covered(q, c, armed[p])
        PROVE  /\ Covered(q, c + 1, a)
               /\ r = "set" => a \/ Goes(q, c + 1)
               /\ armed[p] \/ Goes(q, c) => a \/ Goes(q, c + 1) \/ r = "remove"
    <3> DEFINE b == a
    <3>1. b \in BOOLEAN /\ b = ((armed[p] \/ q[c + 1] = "arm") /\ q[c + 1] # "cancel")
      BY <2>2
    <3> HIDE DEF b
    <3>2. /\ Covered(q, c + 1, b)
          /\ q[c + 1] = "set" => b \/ Goes(q, c + 1)
          /\ armed[p] \/ Goes(q, c) => b \/ Goes(q, c + 1) \/ q[c + 1] = "remove"
      BY <2>1, <2>2, <2>3, <3>1, CarryKeeps
    <3> QED BY <3>2 DEF b
  <2>4. /\ queue'[p] = q /\ carried'[p] = c + 1 /\ armed'[p] = a /\ node'[p] = n
        /\ dangling'[p] = dangling[p]
    BY <2>1, <1>t
  <2>5. Safe(p)'
    <3>1. SUFFICES ASSUME p \notin torn'
                   PROVE  /\ Covered(q, c + 1, a)
                          /\ n => a \/ dangling[p] \/ Goes(q, c + 1)
      BY <2>4 DEF Safe
    <3>2. CASE r = "arm"
      BY <2>3, <3>2
    <3>3. CASE r # "arm"
      <4>1. /\ Covered(q, c, armed[p])
            /\ node[p] => armed[p] \/ dangling[p] \/ Goes(q, c)
        BY <2>1, <3>1, <3>3, <1>s DEF Safe
      <4> HIDE DEF q, c
      <4> QED BY <2>3, <4>1
    <3> QED BY <3>2, <3>3
  <2>6. queue' = [queue EXCEPT ![p] = q] /\ dangling' = [dangling EXCEPT ![p] = dangling[p]]
    BY <2>1, <1>t
  <2>7. c + 1 \in Nat /\ c + 1 <= Len(q) /\ dangling[p] \in BOOLEAN
        /\ torn' \in {torn, torn \union {p}, torn \ {p}}
    BY <2>1, <1>t
  <2> HIDE DEF q, c, a, n
  <2> QED BY <2>1, <2>2, <2>5, <2>6, <2>7, OneMoves
<1>3. ASSUME NEW p \in Shoppers, Answered(p) PROVE PresenceInv'
  <2> DEFINE q == Goon(queue[p])
             c == carried[p] - 1
  <2>1. /\ carried[p] > 0
        /\ carried' = [carried EXCEPT ![p] = c]
        /\ queue' = [queue EXCEPT ![p] = q]
        /\ UNCHANGED <<node, armed, dangling, torn>>
    BY <1>3 DEF Answered, Goon
  <2>2. /\ queue[p] \in Seq(Requests) /\ carried[p] \in Nat \ {0}
        /\ carried[p] <= Len(queue[p]) /\ armed[p] \in BOOLEAN
        /\ queue[p] # << >>
    <3>1. Len(<< >>) = 0
      OBVIOUS
    <3> QED BY <2>1, <3>1, <1>t
  <2>3. q \in Seq(Requests) /\ c \in Nat /\ c <= Len(q)
    BY <2>2, GoonFacts
  <2>4. Covered(queue[p], carried[p], armed[p]) =>
            /\ Covered(q, c, armed[p])
            /\ Goes(queue[p], carried[p]) => Goes(q, c)
    BY <2>2, AnswerKeeps
  <2> HIDE DEF q, c
  <2>5. Safe(p)'
    BY <2>1, <2>4, <1>t, <1>s DEF Safe
  <2>6. /\ node' = [node EXCEPT ![p] = node[p]] /\ node[p] \in BOOLEAN
        /\ armed' = [armed EXCEPT ![p] = armed[p]] /\ armed[p] \in BOOLEAN
        /\ dangling' = [dangling EXCEPT ![p] = dangling[p]]
        /\ dangling[p] \in BOOLEAN
    BY <2>1, <1>t
  <2> QED BY <2>1, <2>3, <2>5, <2>6, OneMoves
<1>4. ASSUME NEW p \in Shoppers, Killed(p) PROVE PresenceInv'
  <2>1. /\ queue' = [queue EXCEPT ![p] = << >>]
        /\ carried' = [carried EXCEPT ![p] = 0]
        /\ dangling' = [dangling EXCEPT ![p] = dangling[p] \/ armed[p]]
        /\ armed' = [armed EXCEPT ![p] = FALSE]
        /\ torn' = (IF Leaving(p) THEN torn \union {p} ELSE torn)
        /\ UNCHANGED node
    BY <1>4 DEF Killed, Disconnected
  <2>2. Covered(<< >>, 0, FALSE)
    BY DEF Covered, SetsCovered, ArmsCovered
  <2>3. << >> \in Seq(Requests) /\ 0 <= Len(<< >>)
    OBVIOUS
  <2>4. Safe(p)'
    BY <2>1, <2>2, <1>t, <1>s, <1>l DEF Safe
  <2>5. node' = [node EXCEPT ![p] = node[p]] /\ node[p] \in BOOLEAN
        /\ (dangling[p] \/ armed[p]) \in BOOLEAN
    BY <2>1, <1>t
  <2> QED BY <2>1, <2>3, <2>4, <2>5, OneMoves
<1>5. ASSUME NEW p \in Shoppers, SocketDrops(p) PROVE PresenceInv'
  <2> DEFINE q == Resent(queue[p])
  <2>1. /\ queue' = [queue EXCEPT ![p] = q]
        /\ carried' = [carried EXCEPT ![p] = 0]
        /\ dangling' = [dangling EXCEPT ![p] = dangling[p] \/ armed[p]]
        /\ armed' = [armed EXCEPT ![p] = FALSE]
        /\ torn' = (IF TornBySocket(p) THEN torn \union {p} ELSE torn)
        /\ UNCHANGED node
    BY <1>5 DEF SocketDrops, Disconnected, Resent
  <2>2. /\ q \in Seq(Requests) /\ Len(q) = Len(queue[p])
        /\ (\A i \in 1..Len(queue[p]) : queue[p][i] = "set" =>
                \E j \in i..Len(queue[p]) : queue[p][j] = "remove")
                => Covered(q, 0, FALSE)
        /\ (\E j \in 1..Len(queue[p]) : queue[p][j] = "remove") => Goes(q, 0)
    BY <1>t, DropKeeps
  <2>3. 0 <= Len(q)
    BY <2>2, <1>t
  <2> HIDE DEF q
  <2>4. ASSUME ~TornBySocket(p)
        PROVE  /\ Covered(q, 0, FALSE)
               /\ Goes(queue[p], carried[p]) => Goes(q, 0)
    <3>1. Covered(q, 0, FALSE)
      BY <2>2, <2>4 DEF TornBySocket
    <3>2. Goes(queue[p], carried[p]) =>
              \E j \in 1..Len(queue[p]) : queue[p][j] = "remove"
      BY <2>4, <1>t DEF TornBySocket, Goes
    <3> QED BY <2>2, <3>1, <3>2
  <2>5. Safe(p)'
    BY <2>1, <2>4, <1>t, <1>s DEF Safe
  <2>6. node' = [node EXCEPT ![p] = node[p]] /\ node[p] \in BOOLEAN
        /\ (dangling[p] \/ armed[p]) \in BOOLEAN
    BY <2>1, <1>t
  <2> QED BY <2>1, <2>2, <2>3, <2>5, <2>6, OneMoves
<1>6. ASSUME NEW p \in Shoppers, HandlerRuns(p) PROVE PresenceInv'
  <2>1. /\ node' = [node EXCEPT ![p] = FALSE]
        /\ dangling' = [dangling EXCEPT ![p] = FALSE]
        /\ UNCHANGED <<queue, carried, armed, torn>>
    BY <1>6 DEF HandlerRuns
  <2>2. Safe(p)'
    BY <2>1, <1>t, <1>s DEF Safe
  <2>3. /\ queue' = [queue EXCEPT ![p] = queue[p]] /\ queue[p] \in Seq(Requests)
        /\ carried' = [carried EXCEPT ![p] = carried[p]] /\ carried[p] \in Nat
        /\ armed' = [armed EXCEPT ![p] = armed[p]] /\ armed[p] \in BOOLEAN
        /\ carried[p] <= Len(queue[p])
    BY <2>1, <1>t
  <2> QED BY <2>1, <2>2, <2>3, OneMoves
<1>7. CASE UNCHANGED presenceVars
  BY <1>7 DEF presenceVars, PresenceInv, PresenceTypeOK, Safe
<1> QED
  BY <1>1, <1>2, <1>3, <1>4, <1>5, <1>6, <1>7
     DEF PresenceNext, Enter, Leave

\* The presence database and the requests to it keep their types.
THEOREM PresenceTypeCorrect == PresenceSpec => []PresenceTypeOK
<1>1. PresenceInv => PresenceTypeOK
  BY DEF PresenceInv
<1> QED BY <1>1, PresenceInitInv, PresenceStepInv, PTL DEF PresenceSpec

\* For any number of phones and of requests under way: whoever is shown as
\* shopping has what will take them off, unless a kill or a dropped socket has
\* torn one of their calls since they last entered.
THEOREM NobodyHaunts == PresenceSpec => []NoGhostShopper
<1>1. PresenceInv => NoGhostShopper
  BY DEF PresenceInv, Safe, NoGhostShopper, Leaving, Goes
<1> QED BY <1>1, PresenceInitInv, PresenceStepInv, PTL DEF PresenceSpec

-----------------------------------------------------------------------------
(* Both.                                                                   *)

\* The states of both parts keep their types, whichever of them moves.
THEOREM TypeCorrect == Spec => []TypeOK
<1>1. Init => ListInv /\ PresenceInv
  BY ListInitInv, PresenceInitInv DEF Init
<1>2. ASSUME ListInv, PresenceInv, [Next]_vars PROVE ListInv' /\ PresenceInv'
  <2>1. [ListNext]_listVars /\ [PresenceNext]_presenceVars
    BY <1>2 DEF Next, vars
  <2> QED BY <1>2, <2>1, ListStepInv, PresenceStepInv
<1>3. ListInv /\ PresenceInv => TypeOK
  BY DEF ListInv, PhoneInv, ListTypeOK, PresenceInv, TypeOK
<1> QED BY <1>1, <1>2, <1>3, PTL DEF Spec

=============================================================================
