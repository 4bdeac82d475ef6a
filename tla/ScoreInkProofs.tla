---------------------------- MODULE ScoreInkProofs ----------------------------
(***************************************************************************)
(* Proofs about ScoreInk, for any strokes, any number of handlers in       *)
(* flight, with and without a second device.                               *)
(***************************************************************************)
EXTENDS ScoreInk, FiniteSetTheorems, TLAPS

\* A handler in flight, whatever stroke it is about.
IsCall(c) ==
    /\ c = [op |-> c.op, stroke |-> c.stroke, pc |-> c.pc]
    /\ c.op \in {"add", "erase", "undo"}
    /\ c.op = "add" => c.pc = "tx"

CallsShape ==
    /\ calls = [h \in Handlers |-> calls[h]]
    /\ \A h \in Handlers : calls[h] = Idle \/ IsCall(calls[h])

\* The layer is what was added and not erased, nothing is erased that was not
\* added, and an absent document has no strokes.
InkAccounted ==
    /\ layer = [strokes |-> layer.strokes, rev |-> layer.rev]
    /\ layer.rev \in Nat
    /\ layer.rev = 0 => layer.strokes = {}
    /\ layer.strokes \subseteq added
    /\ erased \subseteq added
    /\ onPiece \in BOOLEAN

\* A stroke on its way is one nobody has added yet, and no two handlers add
\* the same; a stroke about to be erased has been added.
CallsAccounted ==
    /\ \A h \in Handlers : calls[h].op = "add" =>
          calls[h].stroke \in drawn /\ calls[h].stroke \notin added
    /\ \A g, h \in Handlers : calls[g].op = "add" /\ calls[h].op = "add" /\ g # h =>
          calls[g].stroke # calls[h].stroke
    /\ \A h \in Handlers : calls[h].op \in {"erase", "undo"} /\ calls[h].pc = "tx" =>
          calls[h].stroke \in added

\* The inductive invariant.
IInv == CallsShape /\ InkAccounted /\ CallsAccounted /\ InkSurvives

\* The invariant holds at the start of a session on an empty layer.
LEMMA InitIInv == Init => IInv
  BY DEF Init, IInv, CallsShape, IsCall, InkAccounted, CallsAccounted, InkSurvives, Idle

\* A handler that ends or moves on leaves the others as they are.
LEMMA CallMoves ==
  ASSUME CallsShape, NEW h \in Handlers
  PROVE  /\ Finish(h) => /\ CallsShape'
                         /\ calls'[h] = Idle
                         /\ \A g \in Handlers \ {h} : calls'[g] = calls[g]
         /\ \A step : IsCall(calls[h]) /\ calls[h].op # "add" /\ Goto(h, step) =>
               /\ CallsShape'
               /\ calls'[h] = [op |-> calls[h].op, stroke |-> calls[h].stroke, pc |-> step]
               /\ \A g \in Handlers \ {h} : calls'[g] = calls[g]
  <1>1. ASSUME Finish(h)
        PROVE  /\ CallsShape'
               /\ calls'[h] = Idle
               /\ \A g \in Handlers \ {h} : calls'[g] = calls[g]
    BY <1>1 DEF Finish, CallsShape, IsCall
  <1>2. ASSUME NEW step, IsCall(calls[h]), calls[h].op # "add", Goto(h, step)
        PROVE  /\ CallsShape'
               /\ calls'[h] = [op |-> calls[h].op, stroke |-> calls[h].stroke, pc |-> step]
               /\ \A g \in Handlers \ {h} : calls'[g] = calls[g]
    <2> DEFINE c == [op |-> calls[h].op, stroke |-> calls[h].stroke, pc |-> step]
    <2>1. calls' = [calls EXCEPT ![h] = [calls[h] EXCEPT !.pc = step]]
      BY <1>2 DEF Goto
    <2>3. \E o, s, p : calls[h] = [op |-> o, stroke |-> s, pc |-> p]
      BY <1>2 DEF IsCall
    <2>4. [calls[h] EXCEPT !.pc = step] = c
      BY <2>3
    <2>2. IsCall(c)
      BY <1>2 DEF IsCall
    <2> QED
      BY <2>1, <2>2, <2>4 DEF CallsShape
  <1> QED
    BY <1>1, <1>2

\* A new handler starts in a free slot.
LEMMA CallStarts ==
  ASSUME CallsShape, NEW h \in Handlers, NEW c, IsCall(c), calls' = [calls EXCEPT ![h] = c]
  PROVE  CallsShape' /\ calls'[h] = c /\ \A g \in Handlers \ {h} : calls'[g] = calls[g]
  BY DEF CallsShape

\* Every step keeps the invariant.
LEMMA NextIInv == IInv /\ [Next]_vars => IInv'
  <1> SUFFICES ASSUME IInv, [Next]_vars
               PROVE  IInv'
    OBVIOUS
  <1> USE DEF IInv
  <1>1. ASSUME NEW h \in Handlers, NEW s \in Strokes, StrokeCompleted(h, s)
        PROVE  IInv'
    <2>1. IsCall([op |-> "add", stroke |-> s, pc |-> "tx"])
      BY DEF IsCall
    <2>2. /\ CallsShape'
          /\ calls'[h] = [op |-> "add", stroke |-> s, pc |-> "tx"]
          /\ \A g \in Handlers \ {h} : calls'[g] = calls[g]
      BY <1>1, <2>1, CallStarts DEF StrokeCompleted
    <2>3. CallsAccounted'
      BY <1>1, <2>2 DEF StrokeCompleted, CallsAccounted, CallsShape, IsCall, Idle
    <2> QED
      BY <1>1, <2>2, <2>3 DEF StrokeCompleted, InkAccounted, InkSurvives
  <1>2. ASSUME NEW h \in Handlers, NEW s \in Strokes, StrokeErased(h, s)
        PROVE  IInv'
    <2>1. IsCall([op |-> "erase", stroke |-> s, pc |-> "locate"])
      BY DEF IsCall
    <2>2. /\ CallsShape'
          /\ calls'[h] = [op |-> "erase", stroke |-> s, pc |-> "locate"]
          /\ \A g \in Handlers \ {h} : calls'[g] = calls[g]
      BY <1>2, <2>1, CallStarts DEF StrokeErased
    <2>3. CallsAccounted'
      BY <1>2, <2>2 DEF StrokeErased, CallsAccounted, CallsShape, IsCall, Idle
    <2> QED
      BY <1>2, <2>2, <2>3 DEF StrokeErased, InkAccounted, InkSurvives
  <1>3. ASSUME NEW h \in Handlers, UndoRequested(h)
        PROVE  IInv'
    <2> DEFINE c == [op |-> "undo", stroke |-> Last(undoStack), pc |-> "locate"]
    <2>1. IsCall(c)
      BY DEF IsCall
    <2>2. /\ CallsShape'
          /\ calls'[h] = c
          /\ \A g \in Handlers \ {h} : calls'[g] = calls[g]
      BY <1>3, <2>1, CallStarts DEF UndoRequested
    <2>3. CallsAccounted'
      BY <1>3, <2>2 DEF UndoRequested, CallsAccounted, CallsShape, IsCall, Idle
    <2> QED
      BY <1>3, <2>2, <2>3 DEF UndoRequested, InkAccounted, InkSurvives
  <1>4. ASSUME NEW h \in Handlers, AddCommits(h)
        PROVE  IInv'
    <2>1. /\ CallsShape'
          /\ calls'[h] = Idle
          /\ \A g \in Handlers \ {h} : calls'[g] = calls[g]
      BY <1>4, CallMoves DEF AddCommits
    <2>2. calls[h].stroke \notin added /\ calls[h].stroke \notin erased
      BY <1>4 DEF AddCommits, CallsAccounted, InkAccounted
    <2>3. InkAccounted' /\ InkSurvives'
      BY <1>4, <2>2 DEF AddCommits, AddStroke, WriteLayer, InkAccounted, InkSurvives
    <2>4. CallsAccounted'
      BY <1>4, <2>1, <2>2
      DEF AddCommits, AddStroke, CallsAccounted, CallsShape, IsCall, Idle
    <2> QED
      BY <2>1, <2>3, <2>4
  <1>5. ASSUME NEW h \in Handlers, Locate(h)
        PROVE  IInv'
    <2>1. IsCall(calls[h]) /\ calls[h].op # "add"
      BY <1>5 DEF Locate, At, CallsShape, IsCall
    <2>2. CASE calls[h].stroke \in layer.strokes
      <3>1. /\ CallsShape'
            /\ calls'[h] = [op |-> calls[h].op, stroke |-> calls[h].stroke, pc |-> "tx"]
            /\ \A g \in Handlers \ {h} : calls'[g] = calls[g]
        BY <1>5, <2>1, <2>2, CallMoves DEF Locate
      <3>2. CallsAccounted'
        BY <1>5, <2>1, <2>2, <3>1
        DEF Locate, CallsAccounted, CallsShape, IsCall, Idle, InkAccounted
      <3> QED
        BY <1>5, <3>1, <3>2 DEF Locate, InkAccounted, InkSurvives
    <2>3. CASE calls[h].stroke \notin layer.strokes
      <3>1. /\ CallsShape'
            /\ calls'[h] = Idle
            /\ \A g \in Handlers \ {h} : calls'[g] = calls[g]
        BY <1>5, <2>3, CallMoves DEF Locate
      <3>2. CallsAccounted'
        BY <1>5, <3>1 DEF Locate, CallsAccounted, CallsShape, IsCall, Idle
      <3> QED
        BY <1>5, <3>1, <3>2 DEF Locate, InkAccounted, InkSurvives
    <2> QED
      BY <2>2, <2>3
  <1>6. ASSUME NEW h \in Handlers, EraseCommits(h)
        PROVE  IInv'
    <2>1. IsCall(calls[h]) /\ calls[h].op # "add" /\ calls[h].pc = "tx"
      BY <1>6 DEF EraseCommits, At, CallsShape, IsCall
    <2>2. /\ CallsShape'
          /\ calls'[h] = [op |-> calls[h].op, stroke |-> calls[h].stroke, pc |-> "done"]
          /\ \A g \in Handlers \ {h} : calls'[g] = calls[g]
      BY <1>6, <2>1, CallMoves DEF EraseCommits
    <2>3. calls[h].stroke \in added
      BY <2>1 DEF CallsAccounted, IsCall
    <2>4. InkAccounted' /\ InkSurvives'
      BY <1>6, <2>3 DEF EraseCommits, EraseStroke, WriteLayer, InkAccounted, InkSurvives
    <2>5. CallsAccounted'
      BY <1>6, <2>1, <2>2
      DEF EraseCommits, EraseStroke, CallsAccounted, CallsShape, IsCall, Idle
    <2> QED
      BY <2>2, <2>4, <2>5
  <1>7. ASSUME NEW h \in Handlers, EraseReturns(h) \/ UndoReturns(h) \/ CallFails(h)
        PROVE  IInv'
    <2>1. /\ CallsShape'
          /\ calls'[h] = Idle
          /\ \A g \in Handlers \ {h} : calls'[g] = calls[g]
      BY <1>7, CallMoves DEF EraseReturns, UndoReturns, CallFails
    <2>2. UNCHANGED <<layer, onPiece, drawn, added, erased>>
      BY <1>7 DEF EraseReturns, UndoReturns, CallFails
    <2>3. CallsAccounted'
      BY <2>1, <2>2 DEF CallsAccounted, CallsShape, IsCall, Idle
    <2> QED
      BY <2>1, <2>2, <2>3 DEF InkAccounted, InkSurvives
  <1>8. ASSUME NEW s \in Strokes, DrawnElsewhere(s)
        PROVE  IInv'
    <2>1. InkAccounted' /\ InkSurvives'
      BY <1>8 DEF DrawnElsewhere, AddStroke, WriteLayer, InkAccounted, InkSurvives
    <2>2. CallsAccounted' /\ CallsShape'
      BY <1>8 DEF DrawnElsewhere, AddStroke, CallsAccounted, CallsShape, IsCall
    <2> QED
      BY <2>1, <2>2
  <1>9. ASSUME NEW s \in Strokes, ErasedElsewhere(s)
        PROVE  IInv'
    <2>1. InkAccounted' /\ InkSurvives'
      BY <1>9 DEF ErasedElsewhere, EraseStroke, WriteLayer, InkAccounted, InkSurvives
    <2>2. CallsAccounted' /\ CallsShape'
      BY <1>9 DEF ErasedElsewhere, EraseStroke, CallsAccounted, CallsShape, IsCall
    <2> QED
      BY <2>1, <2>2
  <1>10. CASE AnnotationsUpdated \/ TakenOffPiece
    <2>1. UNCHANGED <<layer, calls, drawn, added, erased>> /\ (onPiece' = onPiece \/ onPiece' = FALSE)
      BY <1>10 DEF AnnotationsUpdated, TakenOffPiece
    <2>2. CallsShape' /\ CallsAccounted'
      BY <2>1 DEF CallsShape, IsCall, CallsAccounted
    <2>3. InkAccounted'
      BY <2>1 DEF InkAccounted
    <2>4. InkSurvives'
      BY <2>1, Zenon DEF InkSurvives
    <2> QED
      BY <2>2, <2>3, <2>4
  <1>11. CASE LayerDropped
    BY <1>11
    DEF LayerDropped, CallsShape, IsCall, InkAccounted, CallsAccounted, InkSurvives
  <1>12. CASE UNCHANGED vars
    BY <1>12 DEF vars, CallsShape, IsCall, InkAccounted, CallsAccounted, InkSurvives
  <1> QED
    BY <1>1, <1>2, <1>3, <1>4, <1>5, <1>6, <1>7, <1>8, <1>9, <1>10, <1>11, <1>12
    DEF Next, Step, Handle

\* Every reachable state satisfies the inductive invariant.
THEOREM InductiveInvariant == Spec => []IInv
  BY InitIInv, NextIInv, PTL DEF Spec

\* No stroke is lost and none comes back, however the drawings, erasures and
\* undos of any number of handlers and of a second device interleave.
THEOREM NoInkLost == Spec => []InkSurvives
  <1>1. IInv => InkSurvives
    BY DEF IInv
  <1> QED
    BY <1>1, InductiveInvariant, PTL

-----------------------------------------------------------------------------
(* The undo stack.                                                         *)

\* What the stack is to hold: the session's strokes in the layer.
SessionInk == layer.strokes \intersect drawn

\* A handler c in flight has come this far with the stack: a stroke on its way
\* is on it already, an erased one still is, and an undo's is the last.
StackAhead(c) ==
    /\ c.op = "add" => ToSet(undoStack) = SessionInk \union {c.stroke}
    /\ c.op \in {"erase", "undo"} /\ c.pc # "done" => ToSet(undoStack) = SessionInk
    /\ c.op \in {"erase", "undo"} /\ c.pc = "done" =>
          ToSet(undoStack) \ {c.stroke} = SessionInk
    /\ c.op = "undo" => undoStack # <<>> /\ c.stroke = Last(undoStack)

\* Handlers that never overlapped are one at a time, and the stack is what the
\* one in flight says, or what is in the layer.
InOrder ==
    ~overlapped =>
        /\ \A g, h \in Busy : g = h
        /\ onPiece /\ Busy = {} => ToSet(undoStack) = SessionInk
        /\ onPiece => \A h \in Busy : StackAhead(calls[h])

\* The ids on the stack were given out in this session, each once.
StackIds == ToSet(undoStack) \subseteq drawn /\ IsInjective(undoStack)

\* The inductive invariant of the stack, on top of IInv.
StackInv == TypeOK /\ StackIds /\ InOrder

\* A stroke pushed on the stack is one more id.
LEMMA PushedIds ==
  ASSUME NEW S, NEW stack \in Seq(S), NEW s \in S, IsInjective(stack), s \notin ToSet(stack)
  PROVE  /\ Append(stack, s) \in Seq(S)
         /\ IsInjective(Append(stack, s))
         /\ ToSet(Append(stack, s)) = ToSet(stack) \union {s}
  <1>1. Append(stack, s) \in Seq(S)
    OBVIOUS
  <1>2. DOMAIN stack = 1..Len(stack) /\ DOMAIN Append(stack, s) = 1..(Len(stack) + 1)
    BY <1>1
  <1>3. /\ \A i \in 1..Len(stack) : Append(stack, s)[i] = stack[i]
        /\ Append(stack, s)[Len(stack) + 1] = s
        /\ Len(stack) \in Nat
    OBVIOUS
  <1>4. \A i \in 1..Len(stack) : stack[i] # s
    BY <1>2 DEF ToSet
  <1>5. IsInjective(Append(stack, s))
    BY <1>2, <1>3, <1>4 DEF IsInjective
  <1>6. ToSet(Append(stack, s)) = ToSet(stack) \union {s}
    BY <1>2, <1>3 DEF ToSet
  <1> QED
    BY <1>1, <1>5, <1>6

\* The popped stack has lost its last id.
LEMMA PoppedIds ==
  ASSUME NEW S, NEW stack \in Seq(S), IsInjective(stack), stack # <<>>
  PROVE  /\ Front(stack) \in Seq(S)
         /\ IsInjective(Front(stack))
         /\ ToSet(Front(stack)) = ToSet(stack) \ {Last(stack)}
         /\ Last(stack) \in ToSet(stack)
         /\ Last(stack) \in S
  <1> DEFINE n == Len(stack)
  <1>1. n \in Nat \ {0} /\ DOMAIN stack = 1..n
    OBVIOUS
  <1>2. Front(stack) \in Seq(S) /\ Len(Front(stack)) = n - 1
    BY <1>1 DEF Front
  <1>3. DOMAIN Front(stack) = 1..(n - 1)
    BY <1>2
  <1>4. \A i \in 1..(n - 1) : Front(stack)[i] = stack[i]
    BY <1>1 DEF Front
  <1>5. IsInjective(Front(stack))
    BY <1>1, <1>3, <1>4 DEF IsInjective
  <1>6. \A i \in 1..(n - 1) : stack[i] # stack[n]
    BY <1>1 DEF IsInjective
  <1>7. ToSet(Front(stack)) = ToSet(stack) \ {Last(stack)}
    BY <1>1, <1>3, <1>4, <1>6 DEF ToSet, Last
  <1>8. Last(stack) \in ToSet(stack) /\ Last(stack) \in S
    BY <1>1 DEF ToSet, Last
  <1> QED
    BY <1>2, <1>5, <1>7, <1>8

\* The filtered stack has lost that id, if it had it.
LEMMA FilteredIds ==
  ASSUME NEW S, NEW stack \in Seq(S), NEW s, IsInjective(stack)
  PROVE  /\ Without(stack, s) \in Seq(S)
         /\ IsInjective(Without(stack, s))
         /\ ToSet(Without(stack, s)) = ToSet(stack) \ {s}
  <1> DEFINE n == Len(stack)
  <1>1. n \in Nat /\ DOMAIN stack = 1..n
    OBVIOUS
  <1>2. CASE ~Contains(stack, s)
    BY <1>1, <1>2 DEF Without, Contains, ToSet
  <1>3. CASE Contains(stack, s)
    <2> DEFINE k == CHOOSE i \in DOMAIN stack : stack[i] = s
               t == RemoveAt(stack, k)
    <2>1. k \in 1..n /\ stack[k] = s
      BY <1>1, <1>3 DEF Contains
    <2>2. Without(stack, s) = t
      BY <1>3 DEF Without
    <2> HIDE DEF k
    <2> DEFINE a == SubSeq(stack, 1, k - 1)
               b == SubSeq(stack, k + 1, n)
    <2>3. a \in Seq(S) /\ Len(a) = k - 1 /\ \A i \in 1..(k - 1) : a[i] = stack[i]
      BY <1>1, <2>1
    <2>4. b \in Seq(S) /\ Len(b) = n - k /\ \A i \in 1..(n - k) : b[i] = stack[k + i]
      <3>1. k + 1 \in 1..(n + 1) /\ n \in k..n
        BY <1>1, <2>1
      <3>2. Len(b) = n - k
        <4>1. CASE k = n
          <5>1. b = <<>>
            BY <1>1, <4>1
          <5> QED
            BY <1>1, <4>1, <5>1
        <4>2. CASE k < n
          <5>1. k \in Nat /\ n \in Nat /\ k + 1 \in Nat /\ k + 1 <= n
            BY <1>1, <2>1, <4>2
          <5> HIDE DEF n
          <5>2. Len(b) = n - (k + 1) + 1
            BY <5>1
          <5> QED
            BY <5>1, <5>2
        <4>3. k \in Nat /\ n \in Nat /\ k <= n
          BY <1>1, <2>1
        <4>4. k = n \/ k < n
          BY <4>3
        <4> QED
          BY <4>1, <4>2, <4>4
      <3>3. \A i \in 1..(n - k) : b[i] = stack[(k + 1) + i - 1]
        BY <1>1, <2>1, <3>1
      <3>4. \A i \in 1..(n - k) : (k + 1) + i - 1 = k + i
        BY <1>1, <2>1
      <3>5. b \in Seq(S)
        BY <1>1, <2>1, <3>1
      <3> QED
        BY <3>2, <3>3, <3>4, <3>5
    <2>5. t = a \o b
      BY DEF RemoveAt
    <2> HIDE DEF a, b, t
    <2>6. t \in Seq(S) /\ Len(t) = n - 1
      <3>1. t \in Seq(S) /\ Len(t) = Len(a) + Len(b)
        BY <2>3, <2>4, <2>5
      <3>2. (k - 1) + (n - k) = n - 1
        BY <1>1, <2>1
      <3> QED
        BY <2>3, <2>4, <3>1, <3>2
    <2>7. \A i \in 1..(n - 1) : t[i] = IF i < k THEN stack[i] ELSE stack[i + 1]
      <3> SUFFICES ASSUME NEW i \in 1..(n - 1)
                   PROVE  t[i] = IF i < k THEN stack[i] ELSE stack[i + 1]
        OBVIOUS
      <3>1. CASE i < k
        BY <1>1, <2>1, <2>3, <2>4, <2>5, <3>1
      <3>2. CASE i >= k
        <4>1. t[i] = b[i - (k - 1)]
          BY <1>1, <2>1, <2>3, <2>4, <2>5, <3>2
        <4>2. i - (k - 1) \in 1..(n - k) /\ k + (i - (k - 1)) = i + 1 /\ ~(i < k)
          BY <1>1, <2>1, <3>2
        <4> QED
          BY <2>4, <4>1, <4>2
      <3> QED
        BY <1>1, <2>1, <3>1, <3>2
    <2>8. DOMAIN t = 1..(n - 1)
      BY <2>6
    <2>9. IsInjective(t)
      <3> SUFFICES ASSUME NEW i \in 1..(n - 1), NEW j \in 1..(n - 1), t[i] = t[j]
                   PROVE  i = j
        BY <2>8 DEF IsInjective
      <3> DEFINE Place(x) == IF x < k THEN x ELSE x + 1
      <3>1. stack[Place(i)] = stack[Place(j)]
        BY <2>7
      <3>2. Place(i) \in 1..n /\ Place(j) \in 1..n
        BY <1>1, <2>1
      <3>3. Place(i) = Place(j)
        BY <1>1, <3>1, <3>2 DEF IsInjective
      <3> QED
        BY <1>1, <2>1, <3>3
    <2>10. ToSet(t) = ToSet(stack) \ {s}
      <3>1. ASSUME NEW x \in ToSet(t)
            PROVE  x \in ToSet(stack) \ {s}
        BY <1>1, <2>1, <2>7, <2>8, <3>1 DEF ToSet, IsInjective
      <3>2. ASSUME NEW x \in ToSet(stack) \ {s}
            PROVE  x \in ToSet(t)
        <4>1. PICK i \in 1..n : x = stack[i] /\ i # k
          BY <1>1, <2>1, <3>2 DEF ToSet
        <4>2. CASE i < k
          <5>1. i \in 1..(n - 1) /\ t[i] = x
            BY <1>1, <2>1, <2>7, <4>1, <4>2
          <5> QED
            BY <2>8, <5>1 DEF ToSet
        <4>3. CASE i > k
          <5>1. i - 1 \in 1..(n - 1) /\ t[i - 1] = x
            BY <1>1, <2>1, <2>7, <4>1, <4>3
          <5> QED
            BY <2>8, <5>1 DEF ToSet
        <4> QED
          BY <2>1, <4>1, <4>2, <4>3
      <3> QED
        BY <3>1, <3>2
    <2> QED
      BY <2>2, <2>6, <2>9, <2>10
  <1> QED
    BY <1>2, <1>3

\* Of handlers that count no more than one there are no two.
LEMMA OneHandler ==
  ASSUME NEW H \in SUBSET Handlers, ~(Cardinality(H) > 1)
  PROVE  \A g, h \in H : g = h
  <1> SUFFICES ASSUME NEW g \in H, NEW h \in H, g # h
               PROVE  FALSE
    OBVIOUS
  <1>1. IsFiniteSet(H)
    BY InkAssumption, FS_Subset
  <1>2. Cardinality({g} \union {h}) = 2
    <2>1. Cardinality({g}) = 1 /\ IsFiniteSet({g})
      BY FS_Singleton
    <2>2. Cardinality({g} \union {h}) = Cardinality({g}) + 1
      BY <2>1, FS_AddElement
    <2> QED
      BY <2>1, <2>2
  <1>3. {g} \union {h} \in SUBSET H
    OBVIOUS
  <1>4. Cardinality({g} \union {h}) <= Cardinality(H) /\ Cardinality(H) \in Nat
    BY <1>1, <1>3, FS_Subset, FS_CardinalityType
  <1> QED
    BY <1>2, <1>4

\* What a step of one handler has to show for InOrder: in a session that is
\* still in order it is the only one in flight.
LEMMA HandlerInOrder ==
  ASSUME InOrder, NEW h \in Handlers,
         \A g \in Handlers \ {h} : calls'[g] = calls[g],
         calls[h] # Idle \/ calls'[h] # Idle,
         onPiece' = onPiece,
         ~overlapped' => ~overlapped /\ ~(Cardinality(Busy') > 1),
         ~overlapped /\ onPiece /\ Busy \subseteq {h} =>
            /\ calls'[h] = Idle => (ToSet(undoStack) = SessionInk)'
            /\ calls'[h] # Idle => StackAhead(calls[h])'
  PROVE  InOrder'
  <1> SUFFICES ASSUME ~overlapped'
               PROVE  /\ \A g, k \in Busy' : g = k
                      /\ onPiece' /\ Busy' = {} => (ToSet(undoStack) = SessionInk)'
                      /\ onPiece' => \A g \in Busy' : StackAhead(calls[g])'
    BY DEF InOrder
  <1>1. \A g, k \in Busy' : g = k
    <2>1. Busy' \in SUBSET Handlers
      BY DEF Busy
    <2> QED
      BY <2>1, OneHandler
  <1>2. \A g, k \in Busy : g = k
    BY DEF InOrder
  <1>3. \A g \in Handlers \ {h} : g \in Busy <=> g \in Busy'
    BY DEF Busy
  <1>4. h \in Busy \/ h \in Busy'
    BY DEF Busy
  <1>5. Busy \subseteq {h} /\ Busy' \subseteq {h}
    <2>1. ASSUME NEW g \in Handlers, g # h, g \in Busy \/ g \in Busy'
          PROVE  FALSE
      BY <1>1, <1>2, <1>3, <1>4, <2>1
    <2> QED
      BY <2>1 DEF Busy
  <1>6. CASE calls'[h] = Idle
    BY <1>1, <1>5, <1>6 DEF Busy
  <1>7. CASE calls'[h] # Idle
    <2>1. onPiece' => StackAhead(calls[h])'
      BY <1>5, <1>7
    <2>2. Busy' = {h}
      BY <1>5, <1>7 DEF Busy
    <2> QED
      BY <1>1, <2>1, <2>2
  <1> QED
    BY <1>6, <1>7

\* A handler that starts finds none in flight and the stack in order.
LEMMA QuietBefore ==
  ASSUME InOrder, NEW h \in Handlers, ~overlapped, onPiece, Busy \subseteq {h}, calls[h] = Idle
  PROVE  ToSet(undoStack) = SessionInk
  BY DEF InOrder, Busy

\* A handler in flight finds the stack as far as it has come.
LEMMA AheadBefore ==
  ASSUME InOrder, NEW h \in Handlers, ~overlapped, onPiece, calls[h] # Idle
  PROVE  StackAhead(calls[h])
  BY DEF InOrder, Busy

\* The slots keep their type, and the others their calls.
LEMMA SlotMoves ==
  ASSUME TypeOK, NEW h \in Handlers
  PROVE  /\ calls[h] # Idle => calls[h] \in Call /\ calls[h].stroke \in Strokes
         /\ Finish(h) => /\ calls' \in [Handlers -> {Idle} \union Call]
                         /\ calls'[h] = Idle
                         /\ \A g \in Handlers \ {h} : calls'[g] = calls[g]
         /\ \A step \in {"locate", "tx", "done"} : calls[h] # Idle /\ Goto(h, step) =>
              /\ calls' \in [Handlers -> {Idle} \union Call]
              /\ calls'[h] = [op |-> calls[h].op, stroke |-> calls[h].stroke, pc |-> step]
              /\ \A g \in Handlers \ {h} : calls'[g] = calls[g]
         /\ \A c \in Call : calls' = [calls EXCEPT ![h] = c] =>
              /\ calls' \in [Handlers -> {Idle} \union Call]
              /\ calls'[h] = c
              /\ \A g \in Handlers \ {h} : calls'[g] = calls[g]
  <1>1. calls[h] # Idle => calls[h] \in Call /\ calls[h].stroke \in Strokes
    BY DEF TypeOK, Call
  <1>2. ASSUME Finish(h)
        PROVE  /\ calls' \in [Handlers -> {Idle} \union Call]
               /\ calls'[h] = Idle
               /\ \A g \in Handlers \ {h} : calls'[g] = calls[g]
    BY <1>2 DEF TypeOK, Finish
  <1>3. ASSUME NEW c \in Call, calls' = [calls EXCEPT ![h] = c]
        PROVE  /\ calls' \in [Handlers -> {Idle} \union Call]
               /\ calls'[h] = c
               /\ \A g \in Handlers \ {h} : calls'[g] = calls[g]
    BY <1>3 DEF TypeOK
  <1>4. ASSUME NEW step \in {"locate", "tx", "done"}, calls[h] # Idle, Goto(h, step)
        PROVE  /\ calls' \in [Handlers -> {Idle} \union Call]
               /\ calls'[h] = [op |-> calls[h].op, stroke |-> calls[h].stroke, pc |-> step]
               /\ \A g \in Handlers \ {h} : calls'[g] = calls[g]
    <2> DEFINE c == [op |-> calls[h].op, stroke |-> calls[h].stroke, pc |-> step]
    <2>1. c \in Call /\ [calls[h] EXCEPT !.pc = step] = c
      BY <1>1, <1>4 DEF Call
    <2>2. calls' = [calls EXCEPT ![h] = c]
      BY <1>4, <2>1 DEF Goto
    <2> QED
      BY <1>3, <2>1, <2>2
  <1> QED
    BY <1>1, <1>2, <1>3, <1>4

\* The strokes of the layer stay strokes.
LEMMA LayerTypes ==
  ASSUME TypeOK, NEW s \in Strokes
  PROVE  /\ AddStroke(s) => /\ layer' \in Layer /\ added' \in SUBSET Strokes
                            /\ erased' \in SUBSET Strokes
         /\ EraseStroke(s) => /\ layer' \in Layer /\ added' \in SUBSET Strokes
                              /\ erased' \in SUBSET Strokes
  BY DEF TypeOK, AddStroke, EraseStroke, WriteLayer, Layer

\* What Next adds to a step.
LEMMA OverlapStep ==
  ASSUME TypeOK, Next
  PROVE  /\ overlapped' \in BOOLEAN
         /\ ~overlapped' => /\ ~overlapped /\ ~(Cardinality(Busy') > 1)
                            /\ ~(erased' # erased /\ UNCHANGED calls)
  BY Zenon DEF TypeOK, Next

\* The steps that start a handler.
LEMMA HandlerStarts ==
  ASSUME IInv, StackInv, NEW h \in Handlers,
         overlapped' \in BOOLEAN,
         ~overlapped' => ~overlapped /\ ~(Cardinality(Busy') > 1),
         (\E s \in Strokes : StrokeCompleted(h, s) \/ StrokeErased(h, s)) \/ UndoRequested(h)
  PROVE  StackInv'
  <1>0. TypeOK /\ StackIds /\ InOrder /\ layer.strokes \subseteq added /\ calls[h] = Idle
    BY DEF StackInv, IInv, InkAccounted, StrokeCompleted, StrokeErased, UndoRequested
  <1>1. ASSUME NEW s \in Strokes, StrokeCompleted(h, s)
        PROVE  StackInv'
    <2> DEFINE c == [op |-> "add", stroke |-> s, pc |-> "tx"]
    <2>1. c \in Call /\ c # Idle
      BY DEF Call, Idle
    <2>2. /\ calls' \in [Handlers -> {Idle} \union Call]
          /\ calls'[h] = c
          /\ \A g \in Handlers \ {h} : calls'[g] = calls[g]
      BY <1>0, <1>1, <2>1, SlotMoves DEF StrokeCompleted
    <2>3. /\ undoStack' \in Seq(Strokes) /\ IsInjective(undoStack')
          /\ ToSet(undoStack') = ToSet(undoStack) \union {s}
      BY <1>0, <1>1, PushedIds DEF TypeOK, StackIds, StrokeCompleted
    <2>4. TypeOK'
      BY <1>0, <1>1, <2>2, <2>3 DEF TypeOK, StrokeCompleted
    <2>5. StackIds'
      BY <1>0, <1>1, <2>3 DEF StackIds, StrokeCompleted
    <2>6. SessionInk' = SessionInk
      BY <1>0, <1>1 DEF SessionInk, StrokeCompleted
    <2>7. ASSUME ~overlapped, onPiece, Busy \subseteq {h}
          PROVE  StackAhead(calls[h])'
      <3>1. ToSet(undoStack) = SessionInk
        BY <1>0, <2>7, QuietBefore
      <3>2. (ToSet(undoStack) = SessionInk \union {s})'
        BY <2>3, <2>6, <3>1
      <3> QED
        BY <2>2, <3>2 DEF StackAhead
    <2>8. InOrder'
      BY <1>0, <1>1, <2>1, <2>2, <2>7, HandlerInOrder DEF StrokeCompleted
    <2> QED
      BY <2>4, <2>5, <2>8 DEF StackInv
  <1>2. ASSUME NEW s \in Strokes, StrokeErased(h, s)
        PROVE  StackInv'
    <2> DEFINE c == [op |-> "erase", stroke |-> s, pc |-> "locate"]
    <2>1. c \in Call /\ c # Idle
      BY DEF Call, Idle
    <2>2. /\ calls' \in [Handlers -> {Idle} \union Call]
          /\ calls'[h] = c
          /\ \A g \in Handlers \ {h} : calls'[g] = calls[g]
      BY <1>0, <1>2, <2>1, SlotMoves DEF StrokeErased
    <2>3. TypeOK' /\ StackIds'
      BY <1>0, <1>2, <2>2 DEF TypeOK, StackIds, StrokeErased
    <2>4. SessionInk' = SessionInk /\ undoStack' = undoStack
      BY <1>2 DEF SessionInk, StrokeErased
    <2>5. ASSUME ~overlapped, onPiece, Busy \subseteq {h}
          PROVE  StackAhead(calls[h])'
      <3>1. (ToSet(undoStack) = SessionInk)'
        BY <1>0, <2>4, <2>5, QuietBefore
      <3> QED
        BY <2>2, <3>1 DEF StackAhead
    <2>6. InOrder'
      BY <1>0, <1>2, <2>1, <2>2, <2>5, HandlerInOrder DEF StrokeErased
    <2> QED
      BY <2>3, <2>6 DEF StackInv
  <1>3. CASE UndoRequested(h)
    <2> DEFINE c == [op |-> "undo", stroke |-> Last(undoStack), pc |-> "locate"]
    <2>0. Last(undoStack) \in Strokes
      BY <1>0, <1>3, PoppedIds DEF TypeOK, StackIds, UndoRequested
    <2>1. c \in Call /\ c # Idle
      BY <2>0 DEF Call, Idle
    <2>2. /\ calls' \in [Handlers -> {Idle} \union Call]
          /\ calls'[h] = c
          /\ \A g \in Handlers \ {h} : calls'[g] = calls[g]
      BY <1>0, <1>3, <2>1, SlotMoves DEF UndoRequested
    <2>3. TypeOK' /\ StackIds'
      BY <1>0, <1>3, <2>2 DEF TypeOK, StackIds, UndoRequested
    <2>4. SessionInk' = SessionInk /\ undoStack' = undoStack /\ undoStack # <<>>
      BY <1>3 DEF SessionInk, UndoRequested
    <2>5. ASSUME ~overlapped, onPiece, Busy \subseteq {h}
          PROVE  StackAhead(calls[h])'
      <3>1. (ToSet(undoStack) = SessionInk)'
        BY <1>0, <2>4, <2>5, QuietBefore
      <3> QED
        BY <2>2, <2>4, <3>1 DEF StackAhead
    <2>6. InOrder'
      BY <1>0, <1>3, <2>1, <2>2, <2>5, HandlerInOrder DEF UndoRequested
    <2> QED
      BY <2>3, <2>6 DEF StackInv
  <1> QED
    BY <1>1, <1>2, <1>3

\* The steps that commit or look up.
LEMMA HandlerCommits ==
  ASSUME IInv, StackInv, NEW h \in Handlers,
         overlapped' \in BOOLEAN,
         ~overlapped' => ~overlapped /\ ~(Cardinality(Busy') > 1),
         AddCommits(h) \/ Locate(h) \/ EraseCommits(h)
  PROVE  StackInv'
  <1> DEFINE s == calls[h].stroke
  <1>0. /\ TypeOK /\ StackIds /\ InOrder /\ InkAccounted /\ CallsAccounted /\ CallsShape
        /\ calls[h] # Idle /\ s \in Strokes /\ IsCall(calls[h])
    <2>1. TypeOK /\ StackIds /\ InOrder /\ InkAccounted /\ CallsAccounted /\ CallsShape
      BY DEF StackInv, IInv
    <2>2. calls[h] # Idle
      BY DEF AddCommits, Locate, EraseCommits, At, Idle
    <2> QED
      BY <2>1, <2>2, SlotMoves DEF CallsShape
  <1>1. CASE AddCommits(h)
    <2>1. /\ calls' \in [Handlers -> {Idle} \union Call]
          /\ calls'[h] = Idle
          /\ \A g \in Handlers \ {h} : calls'[g] = calls[g]
      BY <1>0, <1>1, SlotMoves DEF AddCommits
    <2>2. layer' \in Layer /\ added' \in SUBSET Strokes /\ erased' \in SUBSET Strokes
      BY <1>0, <1>1, LayerTypes DEF AddCommits
    <2>3. TypeOK' /\ StackIds'
      BY <1>0, <1>1, <2>1, <2>2 DEF TypeOK, StackIds, AddCommits
    <2>4. SessionInk' = SessionInk \union {s} /\ undoStack' = undoStack
      BY <1>0, <1>1 DEF SessionInk, AddCommits, AddStroke, WriteLayer, CallsAccounted
    <2>5. ASSUME ~overlapped, onPiece
          PROVE  (ToSet(undoStack) = SessionInk)'
      BY <1>0, <1>1, <2>4, <2>5, AheadBefore DEF StackAhead, AddCommits
    <2>6. InOrder'
      BY <1>0, <1>1, <2>1, <2>5, HandlerInOrder DEF AddCommits
    <2> QED
      BY <2>3, <2>6 DEF StackInv
  <1>2. CASE Locate(h)
    <2>0. calls[h].op \in {"erase", "undo"} /\ calls[h].pc = "locate"
      BY <1>0, <1>2 DEF Locate, At, IsCall
    <2>1. UNCHANGED <<layer, onPiece, shown, undoStack, drawn, added, erased>>
          /\ SessionInk' = SessionInk
      BY <1>2 DEF Locate, SessionInk
    <2>2. ASSUME ~overlapped, onPiece
          PROVE  /\ (ToSet(undoStack) = SessionInk)'
                 /\ calls[h].op = "undo" => undoStack # <<>> /\ s = Last(undoStack)
      BY <1>0, <2>0, <2>1, <2>2, AheadBefore DEF StackAhead
    <2>3. CASE calls[h].stroke \in layer.strokes
      <3>1. /\ calls' \in [Handlers -> {Idle} \union Call]
            /\ calls'[h] = [op |-> calls[h].op, stroke |-> s, pc |-> "tx"]
            /\ \A g \in Handlers \ {h} : calls'[g] = calls[g]
        BY <1>0, <1>2, <2>3, SlotMoves DEF Locate
      <3>2. TypeOK' /\ StackIds'
        BY <1>0, <2>1, <3>1 DEF TypeOK, StackIds
      <3>3. ASSUME ~overlapped, onPiece
            PROVE  StackAhead(calls[h])'
        BY <2>0, <2>1, <2>2, <3>1, <3>3 DEF StackAhead
      <3>4. calls'[h] # Idle
        BY <3>1 DEF Idle
      <3>5. InOrder'
        BY <1>0, <2>1, <3>1, <3>3, <3>4, HandlerInOrder
      <3> QED
        BY <3>2, <3>5 DEF StackInv
    <2>4. CASE calls[h].stroke \notin layer.strokes
      <3>1. /\ calls' \in [Handlers -> {Idle} \union Call]
            /\ calls'[h] = Idle
            /\ \A g \in Handlers \ {h} : calls'[g] = calls[g]
        BY <1>0, <1>2, <2>4, SlotMoves DEF Locate
      <3>2. TypeOK' /\ StackIds'
        BY <1>0, <2>1, <3>1 DEF TypeOK, StackIds
      <3>3. InOrder'
        BY <1>0, <2>1, <2>2, <3>1, HandlerInOrder
      <3> QED
        BY <3>2, <3>3 DEF StackInv
    <2> QED
      BY <2>3, <2>4
  <1>3. CASE EraseCommits(h)
    <2>0. calls[h].op \in {"erase", "undo"} /\ calls[h].pc = "tx"
      BY <1>0, <1>3 DEF EraseCommits, At, IsCall
    <2>1. /\ calls' \in [Handlers -> {Idle} \union Call]
          /\ calls'[h] = [op |-> calls[h].op, stroke |-> s, pc |-> "done"]
          /\ \A g \in Handlers \ {h} : calls'[g] = calls[g]
      BY <1>0, <1>3, SlotMoves DEF EraseCommits
    <2>2. layer' \in Layer /\ added' \in SUBSET Strokes /\ erased' \in SUBSET Strokes
      BY <1>0, <1>3, LayerTypes DEF EraseCommits
    <2>3. TypeOK' /\ StackIds'
      BY <1>0, <1>3, <2>1, <2>2 DEF TypeOK, StackIds, EraseCommits
    <2>4. SessionInk' = SessionInk \ {s} /\ undoStack' = undoStack
      BY <1>0, <1>3 DEF SessionInk, EraseCommits, EraseStroke, WriteLayer, InkAccounted
    <2>5. ASSUME ~overlapped, onPiece
          PROVE  StackAhead(calls[h])'
      <3>1. /\ ToSet(undoStack) = SessionInk
            /\ calls[h].op = "undo" => undoStack # <<>> /\ s = Last(undoStack)
        BY <1>0, <2>0, <2>5, AheadBefore DEF StackAhead
      <3>2. ToSet(undoStack') \ {s} = SessionInk'
        BY <2>4, <3>1
      <3> QED
        BY <2>0, <2>1, <2>4, <3>1, <3>2 DEF StackAhead
    <2>6. calls'[h] # Idle
      BY <2>1 DEF Idle
    <2>7. InOrder'
      BY <1>0, <1>3, <2>1, <2>5, <2>6, HandlerInOrder DEF EraseCommits
    <2> QED
      BY <2>3, <2>7 DEF StackInv
  <1> QED
    BY <1>1, <1>2, <1>3

\* The steps that end a handler.
LEMMA HandlerEnds ==
  ASSUME IInv, StackInv, NEW h \in Handlers,
         overlapped' \in BOOLEAN,
         ~overlapped' => ~overlapped /\ ~(Cardinality(Busy') > 1),
         EraseReturns(h) \/ UndoReturns(h) \/ CallFails(h)
  PROVE  StackInv'
  <1> DEFINE s == calls[h].stroke
  <1>0. /\ TypeOK /\ StackIds /\ InOrder /\ InkAccounted /\ CallsAccounted
        /\ calls[h] # Idle /\ IsCall(calls[h])
    <2>1. TypeOK /\ StackIds /\ InOrder /\ InkAccounted /\ CallsAccounted /\ CallsShape
      BY DEF StackInv, IInv
    <2>2. calls[h] # Idle
      BY DEF EraseReturns, UndoReturns, CallFails, At
    <2> QED
      BY <2>1, <2>2 DEF CallsShape
  <1>1. /\ calls' \in [Handlers -> {Idle} \union Call]
        /\ calls'[h] = Idle
        /\ \A g \in Handlers \ {h} : calls'[g] = calls[g]
    BY <1>0, SlotMoves DEF EraseReturns, UndoReturns, CallFails
  <1>2. UNCHANGED <<layer, onPiece, shown, drawn, added, erased>> /\ SessionInk' = SessionInk
    BY DEF EraseReturns, UndoReturns, CallFails, SessionInk
  \* What is left of the stack.
  <1>3. /\ undoStack' \in Seq(Strokes) /\ IsInjective(undoStack')
        /\ ToSet(undoStack') \subseteq ToSet(undoStack)
        /\ ~overlapped /\ onPiece => ToSet(undoStack') = SessionInk
    <2>0. undoStack \in Seq(Strokes) /\ IsInjective(undoStack)
      BY <1>0 DEF TypeOK, StackIds
    <2>1. CASE EraseReturns(h)
      <3>1. /\ undoStack' \in Seq(Strokes) /\ IsInjective(undoStack')
            /\ ToSet(undoStack') = ToSet(undoStack) \ {s}
        BY <2>0, <2>1, FilteredIds DEF EraseReturns
      <3>2. ~overlapped /\ onPiece => ToSet(undoStack) \ {s} = SessionInk
        BY <1>0, <2>1, AheadBefore DEF EraseReturns, At, StackAhead
      <3> QED
        BY <3>1, <3>2
    <2>2. CASE UndoReturns(h)
      <3>1. ~overlapped /\ onPiece => /\ ToSet(undoStack) \ {s} = SessionInk
                                     /\ undoStack # <<>> /\ s = Last(undoStack)
        BY <1>0, <2>2, AheadBefore DEF UndoReturns, At, StackAhead
      <3>2. CASE undoStack = <<>>
        BY <2>0, <2>2, <3>1, <3>2 DEF UndoReturns
      <3>3. CASE undoStack # <<>>
        <4>1. /\ undoStack' \in Seq(Strokes) /\ IsInjective(undoStack')
              /\ ToSet(undoStack') = ToSet(undoStack) \ {Last(undoStack)}
          BY <2>0, <2>2, <3>3, PoppedIds DEF UndoReturns
        <4> QED
          BY <3>1, <4>1
      <3> QED
        BY <3>2, <3>3
    <2>3. CASE CallFails(h)
      <3>1. CASE calls[h].op = "add"
        <4>1. /\ undoStack' \in Seq(Strokes) /\ IsInjective(undoStack')
              /\ ToSet(undoStack') = ToSet(undoStack) \ {s}
          BY <2>0, <2>3, <3>1, FilteredIds DEF CallFails
        <4>2. ~overlapped /\ onPiece => ToSet(undoStack) = SessionInk \union {s}
          BY <1>0, <3>1, AheadBefore DEF StackAhead
        <4>3. s \notin SessionInk
          BY <1>0, <3>1 DEF SessionInk, CallsAccounted, InkAccounted
        <4> QED
          BY <4>1, <4>2, <4>3
      <3>2. CASE calls[h].op # "add"
        <4>1. undoStack' = undoStack
          BY <2>3, <3>2 DEF CallFails
        <4>2. calls[h].op \in {"erase", "undo"} /\ calls[h].pc # "done"
          BY <1>0, <2>3, <3>2 DEF CallFails, At, IsCall
        <4>3. ~overlapped /\ onPiece => ToSet(undoStack) = SessionInk
          BY <1>0, <4>2, AheadBefore DEF StackAhead
        <4> QED
          BY <2>0, <4>1, <4>3
      <3> QED
        BY <3>1, <3>2
    <2> QED
      BY <2>1, <2>2, <2>3
  <1>4. TypeOK'
    BY <1>0, <1>1, <1>2, <1>3 DEF TypeOK
  <1>5. StackIds'
    BY <1>0, <1>2, <1>3 DEF StackIds
  <1>6. InOrder'
    BY <1>0, <1>1, <1>2, <1>3, HandlerInOrder
  <1> QED
    BY <1>4, <1>5, <1>6 DEF StackInv

\* The steps of the stream and of the rest of the world: a stroke drawn
\* elsewhere is none of the session's, one erased elsewhere is an overlap.
LEMMA WorldSteps ==
  ASSUME IInv, StackInv,
         overlapped' \in BOOLEAN,
         ~overlapped' => ~overlapped /\ ~(erased' # erased /\ UNCHANGED calls),
         \/ AnnotationsUpdated \/ TakenOffPiece \/ LayerDropped
         \/ \E s \in Strokes : DrawnElsewhere(s) \/ ErasedElsewhere(s)
  PROVE  StackInv'
  <1>0. TypeOK /\ StackIds /\ InOrder /\ InkAccounted /\ InkSurvives
    BY DEF StackInv, IInv
  <1>1. UNCHANGED <<undoStack, calls, drawn>>
    BY DEF AnnotationsUpdated, TakenOffPiece, LayerDropped, DrawnElsewhere, ErasedElsewhere
  <1>2. TypeOK'
    <2>1. CASE AnnotationsUpdated \/ TakenOffPiece \/ LayerDropped
      <3>1. layer' \in Layer /\ shown' \in SUBSET Strokes
        BY <1>0, <2>1 DEF TypeOK, AnnotationsUpdated, TakenOffPiece, LayerDropped, Layer
      <3>2. onPiece' \in BOOLEAN
        BY <1>0, <2>1 DEF TypeOK, AnnotationsUpdated, TakenOffPiece, LayerDropped
      <3> QED
        BY <1>0, <1>1, <2>1, <3>1, <3>2 DEF TypeOK, AnnotationsUpdated, TakenOffPiece, LayerDropped
    <2>2. CASE \E s \in Strokes : DrawnElsewhere(s) \/ ErasedElsewhere(s)
      <3>1. layer' \in Layer /\ added' \in SUBSET Strokes /\ erased' \in SUBSET Strokes
        BY <1>0, <2>2, LayerTypes DEF DrawnElsewhere, ErasedElsewhere
      <3> QED
        BY <1>0, <1>1, <2>2, <3>1 DEF TypeOK, DrawnElsewhere, ErasedElsewhere
    <2> QED
      BY <2>1, <2>2
  <1>3. StackIds'
    BY <1>0, <1>1 DEF StackIds
  <1>4. ~overlapped' /\ onPiece' => onPiece /\ SessionInk' = SessionInk
    <2>1. CASE AnnotationsUpdated \/ TakenOffPiece \/ LayerDropped
      BY <2>1 DEF AnnotationsUpdated, TakenOffPiece, LayerDropped, SessionInk
    <2>2. CASE \E s \in Strokes : DrawnElsewhere(s)
      BY <2>2 DEF DrawnElsewhere, AddStroke, WriteLayer, SessionInk
    <2>3. CASE \E s \in Strokes : ErasedElsewhere(s)
      <3> PICK s \in Strokes : ErasedElsewhere(s)
        BY <2>3
      <3>1. onPiece => s \notin erased
        BY <1>0, <2>3 DEF ErasedElsewhere, InkSurvives
      <3>2. onPiece' = onPiece /\ s \in erased'
        BY <2>3 DEF ErasedElsewhere, EraseStroke
      <3>3. ASSUME ~overlapped', onPiece'
            PROVE  FALSE
        BY <1>1, <3>1, <3>2, <3>3
      <3> QED
        BY <3>3
    <2> QED
      BY <2>1, <2>2, <2>3
  <1>5. Busy' = Busy
    BY <1>1 DEF Busy
  <1>6. InOrder'
    <2> SUFFICES ASSUME ~overlapped'
                 PROVE  /\ \A g, h \in Busy' : g = h
                        /\ onPiece' /\ Busy' = {} => (ToSet(undoStack) = SessionInk)'
                        /\ onPiece' => \A h \in Busy' : StackAhead(calls[h])'
      BY DEF InOrder
    <2>1. \A g, h \in Busy' : g = h
      BY <1>0, <1>5 DEF InOrder
    <2>2. ASSUME onPiece', Busy' = {}
          PROVE  (ToSet(undoStack) = SessionInk)'
      BY <1>0, <1>1, <1>4, <1>5, <2>2 DEF InOrder
    <2>3. ASSUME onPiece', NEW h \in Busy'
          PROVE  StackAhead(calls[h])'
      <3>1. StackAhead(calls[h])
        BY <1>0, <1>4, <1>5, <2>3 DEF InOrder
      <3> QED
        BY <1>1, <1>4, <2>3, <3>1 DEF StackAhead
    <2> QED
      BY <2>1, <2>2, <2>3
  <1> QED
    BY <1>2, <1>3, <1>6 DEF StackInv

LEMMA InitStackInv == Init => StackInv
  <1> SUFFICES ASSUME Init
               PROVE  StackInv
    OBVIOUS
  <1>1. TypeOK
    <2>1. undoStack \in Seq(Strokes)
      BY DEF Init
    <2>2. layer \in Layer
      BY DEF Init, Layer
    <2>3. onPiece \in BOOLEAN /\ overlapped \in BOOLEAN
      BY DEF Init
    <2>4. calls \in [Handlers -> {Idle} \union Call]
      BY DEF Init
    <2> QED
      BY <2>1, <2>2, <2>3, <2>4 DEF Init, TypeOK
  <1>2. ToSet(undoStack) = {} /\ IsInjective(undoStack)
    BY DEF Init, ToSet, IsInjective
  <1>3. Busy = {} /\ SessionInk = {}
    BY DEF Init, Busy, SessionInk
  <1> QED
    BY <1>1, <1>2, <1>3 DEF StackInv, StackIds, InOrder

\* Every step keeps the invariant of the stack.
LEMMA NextStackInv == IInv /\ StackInv /\ [Next]_vars => StackInv'
  <1> SUFFICES ASSUME IInv, StackInv, [Next]_vars
               PROVE  StackInv'
    OBVIOUS
  <1>1. CASE Next
    <2>1. /\ overlapped' \in BOOLEAN
          /\ ~overlapped' => /\ ~overlapped /\ ~(Cardinality(Busy') > 1)
                             /\ ~(erased' # erased /\ UNCHANGED calls)
      BY <1>1, OverlapStep DEF StackInv
    <2>2. ASSUME NEW h \in Handlers, Handle(h)
          PROVE  StackInv'
      BY <2>1, <2>2, HandlerStarts, HandlerCommits, HandlerEnds DEF Handle
    <2>3. CASE AnnotationsUpdated \/ TakenOffPiece \/ LayerDropped
      BY <2>1, <2>3, WorldSteps
    <2>4. CASE \E s \in Strokes : DrawnElsewhere(s) \/ ErasedElsewhere(s)
      BY <2>1, <2>4, WorldSteps
    <2> QED
      BY <1>1, <2>2, <2>3, <2>4 DEF Next, Step
  <1>2. CASE UNCHANGED vars
    BY <1>2 DEF vars, StackInv, TypeOK, StackIds, InOrder, Busy, SessionInk, StackAhead
  <1> QED
    BY <1>1, <1>2

\* Every reachable state satisfies the inductive invariant of the stack.
THEOREM StackInvariant == Spec => []StackInv
  BY InitStackInv, NextStackInv, InductiveInvariant, PTL DEF Spec

\* The layer, the stack and the handlers in flight keep their shape.
THEOREM TypeCorrect == Spec => []TypeOK
  <1>1. StackInv => TypeOK
    BY DEF StackInv
  <1> QED
    BY <1>1, StackInvariant, PTL

\* In a session whose handlers never overlapped the undo stack is, between two
\* of them, what the session drew and is still in the layer, whatever failed,
\* however late the stream was and whatever another device drew.
THEOREM UndoHoldsInOrder == Spec => []UndoStackInOrder
  <1>1. StackInv => UndoStackInOrder
    <2> SUFFICES ASSUME StackInv, ~overlapped, Quiet, onPiece
                 PROVE  ToSet(undoStack) = layer.strokes \intersect drawn /\ IsInjective(undoStack)
      BY DEF UndoStackInOrder, UndoStackIsInk
    <2>1. Busy = {}
      BY DEF Quiet, Busy
    <2> QED
      BY <2>1 DEF StackInv, StackIds, InOrder, SessionInk
  <1> QED
    BY <1>1, StackInvariant, PTL

=============================================================================
